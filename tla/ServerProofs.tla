---------------------------- MODULE ServerProofs ----------------------------
(***************************************************************************)
(* Theorems about the components of ServerParts, each for itself, for any  *)
(* values of its constants.                                                *)
(***************************************************************************)
EXTENDS ServerParts, Sums, FiniteSetTheorems, SequenceTheorems, NaturalsInduction, TLAPS

----------------------------------------------------------------------------
\* NodeCrl.

\* A job works on rows that are there, and only reconcile judges the list.
ClaimsAreRows ==
    \A k \in C!Workers :
       /\ c_work[k].claimed \subseteq revoked
       /\ c_work[k].at = "judge" => k \notin Appliers

CrlInv == C!TypeOK /\ C!ClaimsAreDisjoint /\ ClaimsAreRows

\* The step of one job leaves the rows of the others alone.
LEMMA CrlStep ==
    ASSUME C!NodeCrlAssumption, CrlInv, [C!Next]_(C!vars)
    PROVE  CrlInv'
<1> USE DEF C!NodeCrlAssumption, CrlInv, C!TypeOK, C!ClaimsAreDisjoint, ClaimsAreRows, C!Workers,
            C!Idle, C!Missing, C!SetWork, C!Pending
<1>1. ASSUME NEW d \in Certificates, C!Revoke(d) PROVE CrlInv'
    BY <1>1 DEF C!Revoke
<1>2. ASSUME NEW k \in C!Workers, C!Claim(k) PROVE CrlInv'
  <2>1. \A j \in C!Workers : c_work[j].claimed \cap (C!Pending \ C!Locked) = {}
    BY DEF C!Locked
  <2>2. /\ k \in Appliers /\ C!Pending \ C!Locked # {}
        /\ c_work' = [c_work EXCEPT ![k] =
              [at |-> "gather", claimed |-> C!Pending \ C!Locked, list |-> {}]]
        /\ UNCHANGED <<revoked, applied, crl, c_up, c_outages, c_edits>>
    BY <1>2 DEF C!Claim
  <2> HIDE DEF C!Locked
  <2>3. QED
    BY <2>1, <2>2
<1>3. ASSUME NEW k \in C!Workers, C!StartRefresh(k) PROVE CrlInv'
    BY <1>3 DEF C!StartRefresh
<1>4. ASSUME NEW k \in C!Workers, C!ReadCrl(k) PROVE CrlInv'
    BY <1>4 DEF C!ReadCrl
<1>5. ASSUME NEW k \in C!Workers, C!Judge(k) PROVE CrlInv'
    BY <1>5 DEF C!Judge
<1>6. ASSUME NEW k \in C!Workers, C!Gather(k) PROVE CrlInv'
    BY <1>6 DEF C!Gather
<1>7. ASSUME NEW k \in C!Workers, C!Publish(k) PROVE CrlInv'
    BY <1>7 DEF C!Publish
<1>8. ASSUME NEW k \in C!Workers, C!MarkApplied(k) PROVE CrlInv'
    BY <1>8 DEF C!MarkApplied
<1>9. ASSUME NEW k \in C!Workers, C!GiveUp(k) PROVE CrlInv'
    BY <1>9 DEF C!GiveUp
<1>10. CASE C!Stop \/ C!StartUp
  <2>1. c_outages' \in Nat /\ UNCHANGED <<revoked, applied, crl, c_work, c_edits>>
    BY <1>10 DEF C!Stop, C!StartUp
  <2>3. c_up' \in BOOLEAN
    BY <1>10, Zenon DEF C!Stop, C!StartUp
  <2>2. QED
    BY <2>1, <2>3
<1>13. CASE C!EditByHand
  <2>1. crl' \in (SUBSET Certificates) \cup {C!Missing} /\ c_edits' \in Nat
        /\ UNCHANGED <<revoked, applied, c_up, c_work, c_outages>>
    BY <1>13 DEF C!EditByHand
  <2>2. QED
    BY <2>1
<1>11. CASE UNCHANGED C!vars
    BY <1>11 DEF C!vars
<1>12. QED
    BY <1>1, <1>2, <1>3, <1>4, <1>5, <1>6, <1>7, <1>8, <1>9, <1>10, <1>11, <1>13 DEF C!Next, C!Step

----------------------------------------------------------------------------
\* Routes.

RouteTypes ==
    /\ node \in {"down", "starting", "up"} /\ b_failures \in Nat /\ b_edits \in Nat
    /\ b_work \in [B!Workers -> [at : {"idle", "compare", "write", "inspect", "render", "reload"},
                                 list : Lists]]
    /\ b_wanted \in Lists

\* Nobody is about to do one of these steps.
NobodyAt(steps) == \A k \in B!Workers : b_work[k].at \notin steps

\* When nothing has failed: what is in the file is rendered unless somebody is about to, and
\* what is rendered is loaded unless somebody is about to.
RoutesInv ==
    /\ RouteTypes
    /\ b_failures = 0 /\ b_edits = 0 =>
         /\ node # "down" /\ NobodyAt({"inspect", "render"}) => conf = B!RoutesIn(b_file)
         /\ node = "up" /\ NobodyAt({"reload"}) => b_loaded = conf

LEMMA RoutesStep ==
    ASSUME B!RoutesAssumption, RoutesInv, [B!Next]_(B!vars)
    PROVE  RoutesInv'
<1> USE DEF B!RoutesAssumption, RoutesInv, RouteTypes, NobodyAt, B!Workers, B!Idle, B!None, B!Missing,
            B!Goto, B!ocserv, B!counters
<1>1. ASSUME NEW k \in B!Workers, NEW list \in Lists, B!Patch(k, list) PROVE RoutesInv'
    BY <1>1 DEF B!Patch
<1>2. ASSUME NEW k \in B!Workers, B!ReadWanted(k) PROVE RoutesInv'
    BY <1>2 DEF B!ReadWanted
<1>3. ASSUME NEW k \in B!Workers, B!Compare(k) PROVE RoutesInv'
    BY <1>3 DEF B!Compare
<1>4. ASSUME NEW k \in B!Workers, B!Write(k) PROVE RoutesInv'
    BY <1>4 DEF B!Write
<1>5. ASSUME NEW k \in B!Workers, B!Inspect(k) PROVE RoutesInv'
    BY <1>5 DEF B!Inspect
<1>6. ASSUME NEW k \in B!Workers, B!Render(k) PROVE RoutesInv'
    BY <1>6 DEF B!Render
<1>7. ASSUME NEW k \in B!Workers, B!Reload(k) PROVE RoutesInv'
    BY <1>7 DEF B!Reload
<1>8. ASSUME NEW k \in B!Workers, B!Unreachable(k) PROVE RoutesInv'
    BY <1>8 DEF B!Unreachable
<1>9. ASSUME NEW k \in B!Workers, B!Fail(k) PROVE RoutesInv'
    BY <1>9 DEF B!Fail
<1>10. CASE B!Stop \/ B!Boot \/ B!Serve \/ B!EditByHand
    BY <1>10 DEF B!Stop, B!Boot, B!Serve, B!EditByHand, B!RoutesIn
<1>11. CASE UNCHANGED B!vars
    BY <1>11 DEF B!vars
<1>12. QED
    BY <1>1, <1>2, <1>3, <1>4, <1>5, <1>6, <1>7, <1>8, <1>9, <1>10, <1>11 DEF B!Next, B!Step

\* NodeCrl: no two jobs have claimed the same certificates (the locked rows of
\* fetch_unapplied_revocations). Routes: as long as no job has failed and nobody has edited the
\* files by hand, what ocserv has loaded is what the file says once nobody is about to render or
\* to reload (reconcile, apply_routes, entrypoint.sh).
THEOREM FilesAreSound ==
    ASSUME C!NodeCrlAssumption, B!RoutesAssumption
    PROVE  C!Spec /\ B!Spec => [](C!TypeOK /\ NodeFilesAreSound)
<1>1. C!Init => CrlInv
    BY DEF C!Init, CrlInv, C!TypeOK, C!ClaimsAreDisjoint, ClaimsAreRows, C!Workers, C!Idle
<1>2. CrlInv /\ [C!Next]_(C!vars) => CrlInv'
    BY CrlStep
<1>3. B!Init => RoutesInv
    BY DEF B!Init, RoutesInv, RouteTypes, NobodyAt, B!RoutesAssumption, B!Workers, B!Idle, B!None,
           B!Missing, B!RoutesIn
<1>4. RoutesInv /\ [B!Next]_(B!vars) => RoutesInv'
    BY RoutesStep
<1>5. CrlInv /\ RoutesInv => C!TypeOK /\ NodeFilesAreSound
    BY DEF CrlInv, RoutesInv, NobodyAt, NodeFilesAreSound, B!FileIsLoaded
<1>6. QED
    BY <1>1, <1>2, <1>3, <1>4, <1>5, PTL DEF C!Spec, B!Spec

----------------------------------------------------------------------------
\* Install.

WizardType == [at : {"off", "choose", "domains", "admin?", "backup?", "steps", "finished"},
                   step : 1 .. 13, values : [secret : Nat, domain : Domains \cup {0}],
                   reuse : BOOLEAN, password : Nat, generated : BOOLEAN, backup : BOOLEAN,
                   notes : SUBSET Nat]
InstallTypes ==
    /\ done \subseteq I!Names /\ env \in [secret : Nat, domain : Domains \cup {0}]
    /\ volume \in Nat /\ ca \in BOOLEAN /\ admin \in Nat /\ key \in Nat /\ ports \in BOOLEAN
    /\ wizard \in WizardType
    /\ fresh \in Nat \ {0} /\ i_failures \in Nat

\* Numbers were given before they are used; what is noted or known was given.
NumbersAreGiven ==
    /\ env = I!NoEnv \/ env.secret \in 1 .. fresh - 1
    /\ wizard.password < fresh /\ (wizard.generated => wizard.password # 0)
    /\ wizard.notes \subseteq 1 .. fresh /\ i_known \subseteq 1 .. fresh

\* The answers of the run.
AnswersAreThere ==
    /\ wizard.at = "choose" => ~wizard.reuse
    /\ wizard.at \in {"choose", "domains", "admin?", "backup?"} => wizard.step = 1
    /\ wizard.at \in {"domains", "admin?", "backup?", "steps"} =>
         IF wizard.reuse THEN env # I!NoEnv ELSE wizard.values.secret \in 1 .. fresh - 1
    /\ wizard.at \in {"backup?", "steps"} => wizard.password # 0 \/ "admin" \in done

\* A marked step has had its effect.
MarksAreTrue ==
    /\ "env" \in done => env # I!NoEnv
    /\ "infra" \in done => volume # 0
    /\ "pki" \in done => ca
    /\ "admin" \in done => admin # 0
    /\ "stack" \in done => ports
    /\ "backup" \in done => key # 0

\* The first step is marked before another one is run, so that a volume is never there while
\* .env may still change.
EnvComesFirst ==
    /\ wizard.at = "steps" /\ wizard.step > 1 => "env" \in done
    /\ volume # 0 => "env" \in done /\ volume = env.secret

InstallInv ==
    InstallTypes /\ NumbersAreGiven /\ AnswersAreThere /\ MarksAreTrue /\ EnvComesFirst

\* What a step may do to the server.
StepEffect ==
    /\ \/ env' = env /\ I!Name # "env"
       \/ I!Name = "env" /\ env' = IF wizard.reuse THEN env ELSE wizard.values
    /\ \/ volume' = volume /\ I!Name # "infra"
       \/ I!Name = "infra" /\ volume' = IF volume = 0 THEN env.secret ELSE volume
    /\ \/ ca' = ca /\ I!Name # "pki"
       \/ ca' = TRUE
    /\ \/ admin' = admin /\ I!Name # "admin"
       \/ I!Name = "admin" /\ admin' = IF admin = 0 THEN wizard.password ELSE admin
    /\ \/ ports' = ports /\ I!Name # "stack"
       \/ ports' = TRUE
    /\ \/ key' = key /\ fresh' = fresh /\ (I!Name = "backup" /\ wizard.backup => key # 0)
       \/ key = 0 /\ key' = fresh /\ fresh' = fresh + 1 /\ I!Name = "backup"

LEMMA StepsAre ==
    /\ Len(I!Steps) = 12
    /\ \A i \in 1 .. 12 : I!Steps[i] \in I!Names
    /\ \A i \in 1 .. 12 : I!Steps[i] = "env" <=> i = 1
<1>1. Len(I!Steps) = 12
    BY DEF I!Steps
<1>2. I!Names = {I!Steps[i] : i \in 1 .. 12}
    BY <1>1 DEF I!Names
<1>3. I!Steps[1] = "env"
    BY DEF I!Steps
<1>4. \A i \in 2 .. 12 : I!Steps[i] # "env"
    BY DEF I!Steps
<1>5. QED
    BY <1>1, <1>2, <1>3, <1>4

LEMMA EffectsAre ==
    ASSUME InstallTypes, I!Running, I!Effect(I!Name)
    PROVE  StepEffect
<1> DEFINE name == I!Name
<1>0. wizard.step \in 1 .. 12
    BY StepsAre DEF I!Running, InstallTypes, WizardType
<1>1. name \in I!Names
    BY StepsAre, <1>0 DEF I!Name
<1>2. I!Names = {"env", "swap", "docker", "build", "infra", "pki", "admin", "stack", "certs",
                 "ocm", "backup", "doctor"}
    BY DEF I!Names, I!Steps
<1> HIDE DEF name
<1> USE DEF I!KeepDatabase, I!KeepApp, I!KeepKey, I!None
<1>3. CASE name = "env"
    BY <1>3 DEF name, I!Effect, I!WriteEnv, StepEffect
<1>4. CASE name = "infra"
    BY <1>4 DEF name, I!Effect, I!Infra, StepEffect
<1>5. CASE name = "pki"
    BY <1>5 DEF name, I!Effect, I!Pki, StepEffect
<1>6. CASE name = "admin"
    BY <1>6 DEF name, I!Effect, I!Admin, StepEffect
<1>7. CASE name = "stack"
    BY <1>7 DEF name, I!Effect, I!Stack, StepEffect
<1>8. CASE name = "backup"
    BY <1>8 DEF name, I!Effect, I!BackupKey, I!EnsureKey, StepEffect
<1>9. CASE name \in {"swap", "docker", "build", "certs", "ocm", "doctor"}
    BY <1>9 DEF name, I!Effect, I!Swap, I!Docker, I!BuildImages, I!Certs, I!Ocm, I!Doctor, StepEffect
<1>10. QED
    BY <1>1, <1>2, <1>3, <1>4, <1>5, <1>6, <1>7, <1>8, <1>9



LEMMA OffIsOff ==
    /\ I!Off \in WizardType
    /\ I!Off.at = "off" /\ I!Off.step = 1 /\ I!Off.password = 0 /\ I!Off.notes = {}
    /\ ~I!Off.generated
    BY DEF I!Off, I!NoEnv, I!None, WizardType

LEMMA InstallStep ==
    ASSUME I!InstallAssumption, InstallInv, [I!Next]_(I!vars)
    PROVE  InstallInv'
<1> USE DEF InstallInv, I!Asking
<1>1. ASSUME I!Look PROVE InstallInv'
  <2>1. wizard' \in WizardType /\ wizard'.at = "choose" /\ wizard'.step = 1 /\ ~wizard'.reuse
        /\ wizard'.password = 0 /\ wizard'.notes = {} /\ ~wizard'.generated
    BY <1>1, OffIsOff DEF I!Look, WizardType, I!Off
  <2>2. UNCHANGED <<I!server, i_known, fresh, i_failures>>
    BY <1>1 DEF I!Look
  <2>3. InstallTypes'
    BY <2>1, <2>2 DEF InstallTypes, I!server
  <2>4. QED
    BY <2>1, <2>2, <2>3 DEF InstallTypes, NumbersAreGiven, AnswersAreThere, MarksAreTrue, EnvComesFirst,
                       I!server
<1>2. ASSUME I!ChooseEnv PROVE InstallInv'
  <2>1. UNCHANGED <<I!server, i_known, i_failures>> /\ wizard.at = "choose"
    BY <1>2 DEF I!ChooseEnv
  <2>2. /\ wizard' \in WizardType /\ wizard'.at = "domains"
        /\ UNCHANGED <<wizard.password, wizard.notes, wizard.generated, wizard.step>>
        /\ \/ wizard'.reuse /\ env # I!NoEnv /\ fresh' = fresh
           \/ ~wizard'.reuse /\ wizard'.values.secret = fresh /\ fresh' = fresh + 1
    <3>1. CASE I!ReuseEnv
      BY <3>1 DEF I!ReuseEnv, InstallTypes, WizardType
    <3>2. CASE I!AskValues
      <4>1. PICK d \in Domains : wizard' = [wizard EXCEPT !.at = "domains",
                                              !.values = [secret |-> fresh, domain |-> d]]
        BY <3>2 DEF I!AskValues
      <4>2. fresh' = fresh + 1 /\ ~wizard.reuse
        BY <3>2, <2>1 DEF I!AskValues, AnswersAreThere
      <4>3. QED
        BY <4>1, <4>2 DEF InstallTypes, WizardType
    <3>3. QED
      BY <1>2, <3>1, <3>2 DEF I!ChooseEnv
  <2>3. InstallTypes'
    BY <2>1, <2>2 DEF InstallTypes, I!server
  <2>4. NumbersAreGiven'
    BY <2>1, <2>2 DEF InstallTypes, WizardType, NumbersAreGiven, I!server
  <2>5. AnswersAreThere'
    BY <2>1, <2>2 DEF InstallTypes, AnswersAreThere, I!server
  <2>6. QED
    BY <2>1, <2>2, <2>3, <2>4, <2>5 DEF MarksAreTrue, EnvComesFirst, I!server
<1>3. ASSUME I!CheckDomains \/ I!AskBackup PROVE InstallInv'
  <2>1. UNCHANGED <<I!server, i_known, fresh, i_failures>>
    BY <1>3 DEF I!CheckDomains, I!AskBackup
  <2>2. /\ wizard' \in WizardType
        /\ UNCHANGED <<wizard.password, wizard.notes, wizard.generated, wizard.reuse, wizard.values,
                       wizard.step>>
        /\ \/ wizard.at = "domains" /\ wizard'.at = "admin?"
           \/ wizard.at = "backup?" /\ wizard'.at = "steps"
    <3>1. CASE I!CheckDomains
      BY <3>1 DEF I!CheckDomains, InstallTypes, WizardType
    <3>2. CASE I!AskBackup
      <4>1. PICK yes \in BOOLEAN : wizard' = [wizard EXCEPT !.at = "steps", !.backup = yes]
        BY <3>2 DEF I!AskBackup
      <4>2. QED
        BY <3>2, <4>1 DEF I!AskBackup, InstallTypes, WizardType
    <3>3. QED
      BY <1>3, <3>1, <3>2
  <2>3. InstallTypes'
    BY <2>1, <2>2 DEF InstallTypes, I!server
  <2>4. NumbersAreGiven' /\ AnswersAreThere'
    BY <2>1, <2>2 DEF NumbersAreGiven, AnswersAreThere, I!server
  <2>5. QED
    BY <2>1, <2>2, <2>3, <2>4 DEF MarksAreTrue, AnswersAreThere, EnvComesFirst, I!server
<1>4. ASSUME I!AskAdmin PROVE InstallInv'
  <2>1. UNCHANGED <<I!server, i_failures>> /\ wizard.at = "admin?"
    BY <1>4 DEF I!AskAdmin
  <2>2. CASE "admin" \in done
    <3>1. /\ wizard' \in WizardType /\ wizard'.at = "backup?" /\ UNCHANGED <<fresh, i_known>>
          /\ UNCHANGED <<wizard.password, wizard.notes, wizard.generated, wizard.reuse, wizard.values,
                         wizard.step>>
      BY <1>4, <2>2 DEF I!AskAdmin, InstallTypes, WizardType
    <3>2. InstallTypes'
      BY <2>1, <3>1 DEF InstallTypes, I!server
    <3>3. NumbersAreGiven' /\ AnswersAreThere'
      BY <2>1, <2>2, <3>1 DEF NumbersAreGiven, AnswersAreThere, I!server
    <3>4. QED
      BY <2>1, <3>1, <3>2, <3>3 DEF MarksAreTrue, EnvComesFirst, I!server
  <2>3. CASE "admin" \notin done
    <3>1. PICK generated \in BOOLEAN :
            /\ wizard' = [wizard EXCEPT !.at = "backup?", !.password = fresh, !.generated = generated]
            /\ i_known' = IF generated THEN i_known ELSE i_known \cup {fresh}
      BY <1>4, <2>3 DEF I!AskAdmin
    <3>2. /\ wizard' \in WizardType /\ wizard'.at = "backup?" /\ wizard'.password = fresh
          /\ UNCHANGED <<wizard.notes, wizard.reuse, wizard.values, wizard.step>>
      BY <3>1 DEF InstallTypes, WizardType
    <3>3. fresh' = fresh + 1
      BY <1>4, <2>3 DEF I!AskAdmin
    <3>4. InstallTypes'
      BY <2>1, <3>2, <3>3 DEF InstallTypes, I!server
    <3>5. NumbersAreGiven'
      BY <2>1, <3>1, <3>2, <3>3 DEF InstallTypes, WizardType, NumbersAreGiven, I!server
    <3>6. AnswersAreThere'
      BY <2>1, <3>2, <3>3 DEF InstallTypes, AnswersAreThere, I!server
    <3>7. QED
      BY <2>1, <3>2, <3>4, <3>5, <3>6 DEF MarksAreTrue, EnvComesFirst, I!server
  <2>4. QED
    BY <2>2, <2>3
<1>5. ASSUME I!SkipStep PROVE InstallInv'
  <2>1. UNCHANGED <<I!server, i_known, fresh, i_failures>> /\ wizard.at = "steps"
    BY <1>5 DEF I!SkipStep, I!Running
  <2>2. wizard.step \in 1 .. 12 /\ I!Name \in done
    BY <1>5, StepsAre DEF I!SkipStep, I!Running, I!Skips, InstallTypes, WizardType
  <2>3. /\ wizard' \in WizardType /\ wizard'.at = "steps" /\ wizard'.step = wizard.step + 1
        /\ UNCHANGED <<wizard.password, wizard.notes, wizard.generated, wizard.reuse, wizard.values>>
    BY <1>5, <2>1, <2>2 DEF I!SkipStep, InstallTypes, WizardType
  <2>4. "env" \in done
    BY <2>1, <2>2, StepsAre DEF EnvComesFirst, I!Name
  <2>5. InstallTypes'
    BY <2>1, <2>3 DEF InstallTypes, I!server
  <2>6. NumbersAreGiven' /\ AnswersAreThere'
    BY <2>1, <2>3 DEF NumbersAreGiven, AnswersAreThere, I!server
  <2>7. QED
    BY <2>1, <2>3, <2>4, <2>5, <2>6 DEF MarksAreTrue, EnvComesFirst, I!server
<1>6. ASSUME I!RunStep \/ I!Interrupted PROVE InstallInv'
  <2>1. wizard.at = "steps" /\ I!Running /\ I!Effect(I!Name) /\ I!Name \notin done
    BY <1>6 DEF I!RunStep, I!Interrupted, I!Running, I!Skips
  <2>2. StepEffect /\ wizard.step \in 1 .. 12 /\ I!Name \in I!Names
    BY <2>1, EffectsAre, StepsAre DEF I!Running, InstallTypes, WizardType, I!Name
  <2>3. I!Name = "env" \/ "env" \in done
    BY <2>1, <2>2, StepsAre DEF EnvComesFirst, I!Name
  <2>4. I!Name = "env" => volume = 0
    BY <2>1 DEF EnvComesFirst
  <2>5. /\ done' \subseteq done \cup {I!Name} /\ done \subseteq done'
        /\ "backup" \in done' => "backup" \in done \/ wizard.backup
        /\ i_known' = i_known /\ i_failures' \in Nat
    BY <1>6 DEF I!RunStep, I!Interrupted, I!Marked, InstallTypes
  <2>6. /\ wizard' \in WizardType /\ wizard'.notes \subseteq wizard.notes \cup {fresh}
        /\ \/ wizard'.at = "off" /\ wizard'.password = 0 /\ ~wizard'.generated
           \/ /\ wizard'.at = "steps" /\ "env" \in done'
              /\ UNCHANGED <<wizard.password, wizard.generated, wizard.reuse, wizard.values>>
    <3>1. CASE I!Interrupted
      BY <3>1, OffIsOff DEF I!Interrupted
    <3>2. CASE I!RunStep
      <4>1. wizard' = [wizard EXCEPT !.step = @ + 1, !.notes = @ \cup I!Noted]
        BY <3>2 DEF I!RunStep
      <4>2. I!Noted \subseteq {fresh} /\ fresh \in Nat
        BY <2>2 DEF I!Noted, StepEffect, InstallTypes
      <4>3. "env" \in done'
        BY <3>2, <2>3 DEF I!RunStep, I!Marked
      <4> DEFINE noted == wizard.notes \cup I!Noted
      <4>4. /\ wizard \in WizardType /\ noted \subseteq Nat /\ wizard.step + 1 \in 1 .. 13
            /\ wizard' = [wizard EXCEPT !.step = wizard.step + 1, !.notes = noted]
        BY <4>1, <4>2, <2>2 DEF InstallTypes, WizardType
      <4>5. noted \subseteq wizard.notes \cup {fresh}
        BY <4>2
      <4> HIDE DEF noted
      <4>6. /\ wizard' \in WizardType /\ wizard'.notes = noted
            /\ UNCHANGED <<wizard.at, wizard.password, wizard.generated, wizard.reuse, wizard.values>>
        BY <4>4 DEF WizardType
      <4>7. QED
        BY <4>3, <4>5, <4>6, <2>1
    <3>3. QED
      BY <1>6, <3>1, <3>2
  <2>7. fresh' \in {fresh, fresh + 1} /\ fresh \in Nat \ {0}
    BY <2>2 DEF StepEffect, InstallTypes
  <2>8. /\ env' \in [secret : Nat, domain : Domains \cup {0}]
        /\ env' = I!NoEnv \/ env'.secret \in 1 .. fresh - 1
        /\ env' = env \/ (I!Name = "env" /\ volume = 0 /\ env' # I!NoEnv)
    BY <2>1, <2>2, <2>4 DEF StepEffect, InstallTypes, WizardType, NumbersAreGiven, AnswersAreThere,
                            I!NoEnv, I!None
  <2>9. InstallTypes'
    <3>1. ca' \in BOOLEAN
      BY <2>2 DEF StepEffect, InstallTypes
    <3>2. ports' \in BOOLEAN
      BY <2>2 DEF StepEffect, InstallTypes
    <3>3. volume' \in Nat /\ admin' \in Nat /\ key' \in Nat
      BY <2>2 DEF StepEffect, InstallTypes, WizardType
    <3>4. done' \subseteq I!Names
      BY <2>2, <2>5 DEF InstallTypes
    <3>5. QED
      BY <3>1, <3>2, <3>3, <3>4, <2>5, <2>6, <2>7, <2>8 DEF InstallTypes
  <2>10. NumbersAreGiven'
    BY <2>5, <2>6, <2>7, <2>8, <2>9 DEF InstallTypes, WizardType, NumbersAreGiven
  <2>11. AnswersAreThere'
    BY <2>1, <2>5, <2>6, <2>7, <2>8 DEF InstallTypes, WizardType, AnswersAreThere
  <2>12. EnvComesFirst'
    BY <2>1, <2>2, <2>3, <2>5, <2>6, <2>8 DEF StepEffect, EnvComesFirst
  <2>13. MarksAreTrue'
    <3>1. "env" \in done' => env' # I!NoEnv
      BY <2>1, <2>2, <2>5, <2>8 DEF StepEffect, MarksAreTrue, AnswersAreThere, InstallTypes, I!NoEnv,
                                    I!None, WizardType
    <3>2. "infra" \in done' => volume' # 0
      BY <2>2, <2>3, <2>5 DEF StepEffect, MarksAreTrue, NumbersAreGiven, InstallTypes, EnvComesFirst
    <3>3. "admin" \in done' => admin' # 0
      BY <2>1, <2>2, <2>5 DEF StepEffect, MarksAreTrue, AnswersAreThere
    <3>4. "pki" \in done' => ca'
      BY <2>2, <2>5 DEF StepEffect, MarksAreTrue
    <3>5. "stack" \in done' => ports'
      BY <2>2, <2>5 DEF StepEffect, MarksAreTrue
    <3>6. "backup" \in done' => key' # 0
      BY <2>2, <2>5, <2>7 DEF StepEffect, MarksAreTrue
    <3>7. QED
      BY <3>1, <3>2, <3>3, <3>4, <3>5, <3>6 DEF MarksAreTrue
  <2>14. QED
    BY <2>9, <2>10, <2>11, <2>12, <2>13
<1>7. ASSUME I!CertTimeout \/ I!Fail \/ I!FinalScreen PROVE InstallInv'
  <2>1. UNCHANGED <<I!server, fresh>> /\ i_failures' \in Nat
    BY <1>7 DEF I!CertTimeout, I!Fail, I!FinalScreen, InstallTypes
  <2>2. /\ wizard' \in WizardType /\ wizard'.at \in {"off", "finished"}
        /\ wizard'.password = 0 /\ wizard'.notes = {} /\ ~wizard'.generated
    BY <1>7, OffIsOff DEF I!CertTimeout, I!Fail, I!FinalScreen, WizardType
  <2>3. i_known' \subseteq 1 .. fresh
    <3>1. wizard.generated => wizard.password \in 1 .. fresh
      BY DEF NumbersAreGiven, InstallTypes, WizardType
    <3>2. i_known \subseteq 1 .. fresh /\ wizard.notes \subseteq 1 .. fresh
      BY DEF NumbersAreGiven
    <3>3. QED
      BY <1>7, <2>1, <3>1, <3>2 DEF I!CertTimeout, I!Fail, I!FinalScreen
  <2>4. InstallTypes'
    BY <2>1, <2>2 DEF InstallTypes, I!server
  <2>5. NumbersAreGiven'
    BY <2>1, <2>2, <2>3 DEF InstallTypes, NumbersAreGiven, I!server
  <2>6. QED
    BY <2>1, <2>2, <2>4, <2>5 DEF AnswersAreThere, MarksAreTrue, EnvComesFirst, I!server
<1>8. ASSUME I!StopContainers PROVE InstallInv'
  <2>1. /\ UNCHANGED <<done, env, volume, ca, admin, key, wizard, i_known, fresh, i_failures>>
        /\ "stack" \notin done
    BY <1>8 DEF I!StopContainers, I!PortsBusy
  <2>2. ports' \in BOOLEAN
    BY <1>8 DEF I!StopContainers
  <2>3. QED
    BY <2>1, <2>2 DEF InstallTypes, NumbersAreGiven, AnswersAreThere, MarksAreTrue, EnvComesFirst
<1>9. CASE UNCHANGED I!vars
    BY <1>9 DEF I!vars, I!server, InstallTypes, NumbersAreGiven, AnswersAreThere, MarksAreTrue, EnvComesFirst
<1>10. QED
    BY <1>1, <1>2, <1>3, <1>4, <1>5, <1>6, <1>7, <1>8, <1>9 DEF I!Next, I!Ask, I!Go

\* What there is stays as it is.
LEMMA ThingsStay ==
    ASSUME InstallInv, [I!Next]_(I!vars)
    PROVE  (ca => ca') /\ (admin # I!None => admin' = admin) /\ (key # I!None => key' = key)
<1> USE DEF I!None
<1>1. CASE I!RunStep \/ I!Interrupted
  <2>1. StepEffect
    BY <1>1, EffectsAre DEF I!RunStep, I!Interrupted, InstallInv
  <2>2. QED
    BY <2>1 DEF StepEffect
<1>2. CASE UNCHANGED <<ca, admin, key>>
    BY <1>2
<1>3. I!RunStep \/ I!Interrupted \/ UNCHANGED <<ca, admin, key>>
    BY DEF I!Next, I!Ask, I!Go, I!Look, I!ChooseEnv, I!CheckDomains, I!AskAdmin, I!AskBackup,
           I!SkipStep, I!CertTimeout, I!FinalScreen, I!StopContainers, I!Fail, I!server, I!vars
<1>4. QED
    BY <1>1, <1>2, <1>3

\* Install: once the volume of the database is there it opens with the password that .env holds,
\* whatever run of the installer wrote it and wherever the last one stopped; the authority, the
\* administrator and the key of the backups, once made, are not made again (env_file.load,
\* needs_choice, the checks of the steps).
THEOREM MadeOnceAndOpens ==
    ASSUME I!InstallAssumption
    PROVE  I!Spec => []I!TypeOK /\ InstalledOnce
<1>1. I!Init => InstallInv
  <2>1. I!Init => InstallTypes
    <3>1. ASSUME I!Init PROVE InstallTypes
      <4>1. ca \in BOOLEAN /\ ports \in BOOLEAN
        BY <3>1 DEF I!Init
      <4>2. env \in [secret : Nat, domain : Domains \cup {0}]
        BY <3>1 DEF I!Init, I!NoEnv, I!None
      <4>3. QED
        BY <3>1, <4>1, <4>2, OffIsOff DEF I!Init, InstallTypes, I!None
    <3>2. QED
      BY <3>1
  <2>2. I!Init => NumbersAreGiven /\ AnswersAreThere /\ MarksAreTrue /\ EnvComesFirst
    BY OffIsOff DEF I!Init, NumbersAreGiven, AnswersAreThere, MarksAreTrue, EnvComesFirst, I!None
  <2>3. QED
    BY <2>1, <2>2 DEF InstallInv
<1>2. InstallInv /\ [I!Next]_(I!vars) => InstallInv'
    BY InstallStep
<1>3. InstallInv => (part = "install" => I!DatabaseOpens)
    BY DEF InstallInv, EnvComesFirst, I!DatabaseOpens, I!None
<1>4. InstallInv /\ [I!Next]_(I!vars) =>
        [(ca => ca') /\ (admin # I!None => admin' = admin) /\ (key # I!None => key' = key)]_(I!vars)
    BY ThingsStay
<1>5. InstallInv => I!TypeOK
  <2>1. Len(I!Steps) = 12
    BY StepsAre
  <2>2. InstallInv => wizard.step \in 1 .. 13 /\ wizard.at \in {"off", "choose", "domains", "admin?", "backup?", "steps", "finished"}
    BY DEF InstallInv, InstallTypes, WizardType
  <2>3. QED
    BY <2>1, <2>2 DEF InstallInv, InstallTypes, NumbersAreGiven, MarksAreTrue, I!TypeOK, I!None
<1>6. QED
    BY <1>1, <1>2, <1>3, <1>4, <1>5, PTL DEF I!Spec, InstalledOnce, I!MadeOnce

----------------------------------------------------------------------------
\* AdminAuth.

\* Requests that look at the second factor, or change it.
Factor == {"setup", "confirm", "disable", "reset", "refused"}

LoginTypes ==
    /\ totp \in [enabled : BOOLEAN, secret : Nat] /\ secrets \in Nat
    /\ DOMAIN l_request = Windows
    /\ \A w \in Windows : l_request[w].op \in {"none", "login", "password"} \cup Factor

\* What was let through has been counted.
AttemptsAreCounted ==
    /\ counter \in [L!Keys -> [n : Nat, left : Nat]] /\ admitted \in [L!Keys -> Nat]
    /\ \A k \in L!Keys : admitted[k] <= counter[k].n /\ admitted[k] <= LoginLimit

\* Of the requests about the second factor there is one at a time, so that the row is still what
\* it has loaded, and what it has checked is still so.
FactorIsSeen ==
    \A w \in Windows : l_request[w].op \in Factor =>
       /\ \A v \in Windows \ {w} : l_request[v].op \notin Factor
       /\ l_request[w].seen = totp
       /\ l_request[w].op \in {"setup", "confirm"} => ~totp.enabled

LoginInv == LoginTypes /\ FactorIsSeen /\ L!SecretIsConfirmed

\* An attempt is counted before it is let through; a count that ends, or starts anew with a
\* login, forgets both.
LEMMA AttemptsStep ==
    ASSUME L!AdminAuthAssumption, AttemptsAreCounted, [L!Next]_(L!vars)
    PROVE  AttemptsAreCounted'
<1> USE DEF L!AdminAuthAssumption, AttemptsAreCounted
<1>1. ASSUME NEW w \in Windows, NEW r, NEW k \in {"login", "totp", "password"}, L!Attempt(w, r, k)
      PROVE  AttemptsAreCounted'
  <2> DEFINE n == IF counter[k].n > LoginLimit THEN counter[k].n ELSE counter[k].n + 1
             left == IF counter[k].left = 0 THEN Window ELSE counter[k].left
  <2>1. k \in L!Keys
    BY DEF L!Keys
  <2>2. /\ counter' = [counter EXCEPT ![k] = [n |-> n, left |-> left]]
        /\ \/ counter[k].n + 1 <= LoginLimit /\ admitted' = [admitted EXCEPT ![k] = @ + 1]
           \/ admitted' = admitted
    BY <1>1 DEF L!Attempt, L!Hit, L!Passes
  <2>3. n \in Nat /\ left \in Nat /\ n >= counter[k].n
        /\ (counter[k].n + 1 <= LoginLimit => n = counter[k].n + 1)
    BY <2>1
  <2> HIDE DEF n, left
  <2>4. counter' \in [L!Keys -> [n : Nat, left : Nat]] /\ admitted' \in [L!Keys -> Nat]
    BY <2>1, <2>2, <2>3
  <2>5. QED
    BY <2>1, <2>2, <2>3, <2>4
<1>2. ASSUME NEW w \in Windows, L!Login(w) PROVE AttemptsAreCounted'
  <2>1. /\ counter' = [counter EXCEPT !["login"] = [n |-> 0, left |-> 0]]
        /\ admitted' = [admitted EXCEPT !["login"] = 0]
    BY <1>2 DEF L!Login, L!NoCount
  <2>2. counter' \in [L!Keys -> [n : Nat, left : Nat]] /\ admitted' \in [L!Keys -> Nat]
    BY <2>1
  <2>3. QED
    BY <2>1, <2>2
<1>3. ASSUME L!Tick PROVE AttemptsAreCounted'
  <2>1. /\ counter' = [k \in L!Keys |-> IF counter[k].left > 1
                                        THEN [counter[k] EXCEPT !.left = @ - 1] ELSE [n |-> 0, left |-> 0]]
        /\ admitted' = [k \in L!Keys |-> IF counter[k].left > 1 THEN admitted[k] ELSE 0]
    BY <1>3 DEF L!Tick, L!NoCount
  <2>2. counter' \in [L!Keys -> [n : Nat, left : Nat]] /\ admitted' \in [L!Keys -> Nat]
    BY <2>1
  <2>3. QED
    BY <2>1, <2>2
<1>4. CASE UNCHANGED <<counter, admitted>>
    BY <1>4
<1>5. ASSUME NEW w \in Windows,
             L!TryLogin(w) \/ (\E s \in sessions : L!AskConfirm(w, s) \/ L!AskDisable(w, s) \/ L!AskPassword(w, s))
      PROVE  AttemptsAreCounted'
    BY <1>1, <1>5 DEF L!TryLogin, L!AskConfirm, L!AskDisable, L!AskPassword
<1>6. QED
    BY <1>2, <1>3, <1>4, <1>5
       DEF L!Next, L!vars, L!FailLogin, L!AskReset, L!AskPasswd, L!Setup, L!Confirm, L!Disable,
           L!ChangePassword, L!Fail, L!Ends, L!AskSetup, L!Load, L!EndSession

\* What an attempt leaves alone.
LEMMA AttemptBegins ==
    ASSUME NEW w, NEW r, NEW k, L!Attempt(w, r, k)
    PROVE  /\ UNCHANGED <<totp, secrets, confirmed>>
           /\ l_request' = l_request \/ l_request' = [l_request EXCEPT ![w] = r]
    BY DEF L!Attempt

\* A request begins.
LEMMA RequestBegins ==
    ASSUME LoginInv, NEW w \in Windows, NEW r,
           l_request' = l_request \/ l_request' = [l_request EXCEPT ![w] = r],
           UNCHANGED <<totp, secrets, confirmed>>,
           r.op \in {"none", "login", "password"} \cup Factor,
           r.op \in Factor => L!Alone(w) /\ r.seen = totp,
           r.op \in {"setup", "confirm"} => ~totp.enabled
    PROVE  /\ DOMAIN l_request' = Windows
           /\ \A v \in Windows : l_request'[v].op \in {"none", "login", "password"} \cup Factor
           /\ FactorIsSeen' /\ L!SecretIsConfirmed'
<1>1. CASE l_request' = l_request
    BY <1>1 DEF LoginInv, LoginTypes, FactorIsSeen, L!SecretIsConfirmed
<1>2. CASE l_request' = [l_request EXCEPT ![w] = r]
  <2>1. /\ DOMAIN l_request' = Windows /\ l_request'[w] = r
        /\ \A v \in Windows \ {w} : l_request'[v] = l_request[v]
    BY <1>2 DEF LoginInv, LoginTypes
  <2>2. \A v \in Windows : l_request'[v].op \in {"none", "login", "password"} \cup Factor
    BY <2>1 DEF LoginInv, LoginTypes
  <2>3. r.op \in Factor => \A v \in Windows \ {w} : l_request[v].op \notin Factor
    BY DEF L!Alone, Factor
  <2>4. FactorIsSeen'
    BY <2>1, <2>3 DEF LoginInv, FactorIsSeen
  <2>5. QED
    BY <2>1, <2>2, <2>4 DEF LoginInv, L!SecretIsConfirmed
<1>3. QED
    BY <1>1, <1>2

\* A request ends; the only one about the second factor may have changed it.
LEMMA RequestEnds ==
    ASSUME LoginInv, NEW w \in Windows, l_request' = [l_request EXCEPT ![w] = L!Idle],
           totp' = totp \/ l_request[w].op \in Factor
    PROVE  /\ DOMAIN l_request' = Windows
           /\ \A v \in Windows : l_request'[v].op \in {"none", "login", "password"} \cup Factor
           /\ FactorIsSeen'
<1>1. L!Idle.op = "none" /\ "none" \notin Factor
    BY DEF L!Idle, Factor
<1>2. /\ DOMAIN l_request' = Windows /\ l_request'[w] = L!Idle
      /\ \A v \in Windows \ {w} : l_request'[v] = l_request[v]
    BY DEF LoginInv, LoginTypes
<1>3. \A v \in Windows : l_request'[v].op \in {"none", "login", "password"} \cup Factor
    BY <1>1, <1>2 DEF LoginInv, LoginTypes
<1>4. FactorIsSeen'
  <2>1. CASE totp' = totp
    BY <2>1, <1>1, <1>2 DEF LoginInv, FactorIsSeen
  <2>2. CASE l_request[w].op \in Factor
    BY <2>2, <1>1, <1>2 DEF LoginInv, FactorIsSeen
  <2>3. QED
    BY <2>1, <2>2
<1>5. QED
    BY <1>2, <1>3, <1>4

LEMMA LoginStep ==
    ASSUME ~Overlap, LoginInv, [L!Next]_(L!vars)
    PROVE  LoginInv'
<1>2. ASSUME NEW w \in Windows, L!TryLogin(w) PROVE LoginInv'
  <2> DEFINE r == [L!Idle EXCEPT !.op = "login"]
  <2>1. r.op = "login" /\ r.op \notin Factor
    BY DEF L!Idle, Factor
  <2>2. L!Attempt(w, r, "login")
    BY <1>2 DEF L!TryLogin
  <2> HIDE DEF r
  <2>3. QED
    BY <2>1, <2>2, AttemptBegins, RequestBegins DEF LoginInv, LoginTypes
<1>3. ASSUME NEW w \in Windows, L!FailLogin(w) \/ L!ChangePassword(w) \/ L!Fail(w) PROVE LoginInv'
  <2>1. /\ l_request' = [l_request EXCEPT ![w] = L!Idle]
        /\ UNCHANGED <<totp, secrets, confirmed>>
    BY <1>3 DEF L!FailLogin, L!ChangePassword, L!Fail, L!Ends
  <2>2. QED
    BY <2>1, RequestEnds DEF LoginInv, LoginTypes, L!SecretIsConfirmed
<1>4. ASSUME NEW w \in Windows, L!Login(w) PROVE LoginInv'
  <2>1. /\ l_request' = [l_request EXCEPT ![w] = L!Idle]
        /\ UNCHANGED <<totp, secrets, confirmed>>
    BY <1>4 DEF L!Login
  <2>2. QED
    BY <2>1, RequestEnds DEF LoginInv, LoginTypes, L!SecretIsConfirmed
<1>5. ASSUME NEW w \in Windows, NEW s, NEW op \in Factor, L!MayStart(w),
             op \in {"setup", "confirm"} => ~totp.enabled,
             L!Load(w, s, op) \/ L!Attempt(w, L!As(s, op), "totp")
      PROVE  LoginInv'
  <2>1. L!Alone(w)
    BY <1>5 DEF L!MayStart
  <2>2. L!As(s, op).op = op /\ L!As(s, op).seen = totp
    BY DEF L!As
  <2>3. CASE L!Load(w, s, op)
    <3>1. l_request' = [l_request EXCEPT ![w] = L!As(s, op)]
          /\ UNCHANGED <<totp, secrets, confirmed>>
      BY <2>3 DEF L!Load
    <3>2. QED
      BY <1>5, <2>1, <2>2, <3>1, RequestBegins DEF LoginInv, LoginTypes
  <2>4. CASE L!Attempt(w, L!As(s, op), "totp")
    BY <1>5, <2>1, <2>2, <2>4, AttemptBegins, RequestBegins DEF LoginInv, LoginTypes
  <2>5. QED
    BY <1>5, <2>3, <2>4
<1>6. ASSUME NEW w \in Windows, NEW s \in sessions,
             L!AskSetup(w, s) \/ L!AskConfirm(w, s) \/ L!AskDisable(w, s)
      PROVE  LoginInv'
    BY <1>5, <1>6 DEF L!AskSetup, L!AskConfirm, L!AskDisable, L!MaySetUp, L!MayConfirm, Factor
<1>7. ASSUME NEW w \in Windows, L!AskReset(w) PROVE LoginInv'
    BY <1>5, <1>7 DEF L!AskReset, Factor
<1>8. ASSUME NEW w \in Windows, NEW s, L!AskPassword(w, s) \/ L!AskPasswd(w) PROVE LoginInv'
  <2>1. PICK x : L!As(x, "password").op = "password" /\ "password" \notin Factor
                 /\ (L!Load(w, x, "password") \/ L!Attempt(w, L!As(x, "password"), "password"))
    BY <1>8 DEF L!AskPassword, L!AskPasswd, L!As, Factor
  <2>2. CASE L!Load(w, x, "password")
    <3>1. l_request' = [l_request EXCEPT ![w] = L!As(x, "password")]
          /\ UNCHANGED <<totp, secrets, confirmed>>
      BY <2>2 DEF L!Load
    <3>2. QED
      BY <2>1, <3>1, RequestBegins DEF LoginInv, LoginTypes
  <2>3. CASE L!Attempt(w, L!As(x, "password"), "password")
    BY <2>1, <2>3, AttemptBegins, RequestBegins DEF LoginInv, LoginTypes
  <2>4. QED
    BY <2>1, <2>2, <2>3
<1>9. ASSUME NEW w \in Windows, L!Setup(w) \/ L!Confirm(w) \/ L!Disable(w) PROVE LoginInv'
  <2>1. /\ l_request' = [l_request EXCEPT ![w] = L!Idle] /\ l_request[w].op \in Factor
    BY <1>9 DEF L!Setup, L!Confirm, L!Disable, L!Ends, Factor
  <2>2. /\ l_request[w].seen = totp
        /\ l_request[w].op \in {"setup", "confirm"} => ~totp.enabled
    BY <2>1 DEF LoginInv, FactorIsSeen
  <2>3. totp \in [enabled : BOOLEAN, secret : Nat] /\ secrets \in Nat
    BY DEF LoginInv, LoginTypes
  <2>4. /\ totp' \in [enabled : BOOLEAN, secret : Nat] /\ secrets' \in Nat
        /\ totp'.enabled => totp'.secret \in confirmed'
    <3>1. CASE L!Setup(w)
      BY <3>1, <2>2, <2>3 DEF L!Setup
    <3>2. CASE L!Confirm(w)
      BY <3>2, <2>2, <2>3 DEF L!Confirm
    <3>3. CASE L!Disable(w)
      BY <3>3, <2>2, <2>3 DEF L!Disable, L!NoSecret
    <3>4. QED
      BY <1>9, <3>1, <3>2, <3>3
  <2>5. QED
    BY <2>1, <2>4, RequestEnds DEF LoginInv, LoginTypes, L!SecretIsConfirmed
<1>10. CASE UNCHANGED <<totp, secrets, confirmed, l_request>>
    BY <1>10 DEF LoginInv, LoginTypes, FactorIsSeen, L!SecretIsConfirmed
<1>11. QED
    BY <1>2, <1>3, <1>4, <1>6, <1>7, <1>8, <1>9, <1>10 DEF L!Next, L!EndSession, L!Tick, L!vars

\* AdminAuth: of the attempts at one thing since its count began the first LoginLimit pass, whatever
\* requests are under way at once (hit counts in one transaction of Redis, before the check).
THEOREM AttemptsAreLimited ==
    ASSUME L!AdminAuthAssumption
    PROVE  L!Spec => []L!AttemptsAreBounded
<1>1. L!Init => AttemptsAreCounted
    BY DEF L!Init, L!AdminAuthAssumption, AttemptsAreCounted, L!Keys, L!NoCount
<1>2. AttemptsAreCounted /\ [L!Next]_(L!vars) => AttemptsAreCounted'
    BY AttemptsStep
<1>3. AttemptsAreCounted => L!AttemptsAreBounded
    BY DEF AttemptsAreCounted, L!AttemptsAreBounded
<1>4. QED
    BY <1>1, <1>2, <1>3, PTL DEF L!Spec

\* AdminAuth: besides, where requests about the second factor do not overlap, the factor is on
\* only with a secret whose code was typed (totp_setup, totp_confirm).
THEOREM LoginIsSafe ==
    ASSUME L!AdminAuthAssumption, ~Overlap
    PROVE  L!Spec => []LoginIsGuarded
<1>1. L!Init => LoginInv
    BY DEF L!Init, LoginInv, LoginTypes, FactorIsSeen, L!SecretIsConfirmed, L!NoSecret, L!Idle, Factor
<1>2. LoginInv /\ [L!Next]_(L!vars) => LoginInv'
    BY LoginStep
<1>3. LoginInv /\ L!AttemptsAreBounded => LoginIsGuarded
    BY DEF LoginInv, LoginIsGuarded
<1>4. L!Spec => []L!AttemptsAreBounded
    BY AttemptsAreLimited
<1>5. QED
    BY <1>1, <1>2, <1>3, <1>4, PTL DEF L!Spec

----------------------------------------------------------------------------
\* NodeHealth.

\* The places in a sequence that hold one of these values.
Places(s, T) == {k \in 1 .. Len(s) : s[k] \in T}

LEMMA PlacesAreCounted ==
    ASSUME NEW S, NEW s \in Seq(S), NEW T
    PROVE  IsFiniteSet(Places(s, T)) /\ Cardinality(Places(s, T)) \in Nat
<1>1. Len(s) \in Nat
    BY LenProperties
<1>2. IsFiniteSet(1 .. Len(s)) /\ Places(s, T) \subseteq 1 .. Len(s)
    BY <1>1, FS_Interval DEF Places
<1>3. IsFiniteSet(Places(s, T))
    BY <1>2, FS_Subset
<1>4. QED
    BY <1>3, FS_CardinalityType

\* One more when one of them is appended.
LEMMA PlacesAppend ==
    ASSUME NEW S, NEW s \in Seq(S), NEW e \in S, NEW T
    PROVE  Cardinality(Places(Append(s, e), T)) = Cardinality(Places(s, T)) + (IF e \in T THEN 1 ELSE 0)
<1> DEFINE n == Len(s) + 1
<1>0. Len(s) \in Nat /\ IsFiniteSet(Places(s, T)) /\ Cardinality(Places(s, T)) \in Nat
    BY LenProperties, PlacesAreCounted
<1>1. n \notin Places(s, T)
    BY <1>0 DEF Places
<1>2. Len(Append(s, e)) = n /\ Append(s, e)[n] = e /\ \A k \in 1 .. Len(s) : Append(s, e)[k] = s[k]
    BY AppendProperties
<1>3. Places(Append(s, e), T) = IF e \in T THEN Places(s, T) \cup {n} ELSE Places(s, T)
    BY <1>0, <1>2 DEF Places
<1> HIDE DEF n
<1>4. Cardinality(Places(s, T) \cup {n}) = Cardinality(Places(s, T)) + 1
    BY <1>0, <1>1, FS_AddElement
<1>5. CASE e \in T
    BY <1>3, <1>4, <1>5
<1>6. CASE e \notin T
  <2>1. Places(Append(s, e), T) = Places(s, T)
    BY <1>3, <1>6
  <2>2. QED
    BY <2>1, <1>0, <1>6
<1>7. QED
    BY <1>5, <1>6

\* A sequence without its i-th element.
LEMMA RemoveAtIs ==
    ASSUME NEW S, NEW s \in Seq(S), NEW i \in 1 .. Len(s)
    PROVE  /\ H!RemoveAt(s, i) \in Seq(S) /\ Len(H!RemoveAt(s, i)) = Len(s) - 1
           /\ \A k \in 1 .. Len(s) - 1 : H!RemoveAt(s, i)[k] = s[IF k < i THEN k ELSE k + 1]
<1>1. H!RemoveAt(s, i) = Without(s, i)
    BY DEF H!RemoveAt, Without
<1>2. QED
    BY <1>1, WithoutIs

\* One less when one of them is removed.
LEMMA PlacesRemove ==
    ASSUME NEW S, NEW s \in Seq(S), NEW i \in 1 .. Len(s), NEW T
    PROVE  Cardinality(Places(s, T)) =
             Cardinality(Places(H!RemoveAt(s, i), T)) + (IF s[i] \in T THEN 1 ELSE 0)
<1> DEFINE t == H!RemoveAt(s, i)
           Old == Places(s, T) \ {i}
           Kept == Places(t, T)
           f == [k \in Old |-> IF k < i THEN k ELSE k - 1]
<1>1. /\ t \in Seq(S) /\ Len(t) = Len(s) - 1 /\ Len(s) \in Nat
      /\ \A k \in 1 .. Len(s) - 1 : t[k] = s[IF k < i THEN k ELSE k + 1]
    BY RemoveAtIs, LenProperties
<1> HIDE DEF t
<1>2. IsFiniteSet(Places(s, T)) /\ Cardinality(Places(s, T)) \in Nat
    BY PlacesAreCounted
<1>3. IsFiniteSet(Old) /\ Cardinality(Old) = IF s[i] \in T THEN Cardinality(Places(s, T)) - 1
                                                           ELSE Cardinality(Places(s, T))
  <2>1. i \in Places(s, T) <=> s[i] \in T
    BY DEF Places
  <2>2. QED
    BY <2>1, <1>2, FS_RemoveElement
<1>4. \A k \in Old : k \in Int /\ k >= 1 /\ k <= Len(s) /\ k # i /\ s[k] \in T
    BY <1>1 DEF Places
<1>5. \A m \in Kept : m \in Int /\ m >= 1 /\ m <= Len(s) - 1 /\ t[m] \in T
    BY <1>1 DEF Places
<1>6. ASSUME NEW k \in Old PROVE f[k] \in Kept
  <2>1. f[k] \in 1 .. Len(s) - 1 /\ k = IF f[k] < i THEN f[k] ELSE f[k] + 1
    BY <1>1, <1>4
  <2>2. t[f[k]] = s[k]
    BY <2>1, <1>1
  <2>3. QED
    BY <2>1, <2>2, <1>1, <1>4 DEF Places
<1>7. ASSUME NEW m \in Kept PROVE \E k \in Old : f[k] = m
  <2> DEFINE k == IF m < i THEN m ELSE m + 1
  <2>1. k \in 1 .. Len(s) /\ k # i /\ t[m] = s[k]
    BY <1>1, <1>5
  <2>2. k \in Old
    BY <2>1, <1>5 DEF Places
  <2>3. f[k] = m
    BY <2>2, <1>1, <1>5
  <2>4. QED
    BY <2>2, <2>3
<1>8. \A k, m \in Old : f[k] = f[m] => k = m
    BY <1>4
<1>9. f \in Bijection(Old, Kept)
  <2>1. f \in [Old -> Kept]
    BY <1>6
  <2>2. f \in Injection(Old, Kept) /\ f \in Surjection(Old, Kept)
    <3> HIDE DEF f, Old, Kept
    <3>1. QED
      BY <2>1, <1>7, <1>8 DEF Injection, Surjection, IsInjective
  <2>3. QED
    BY <2>2 DEF Bijection
<1>10. Cardinality(Kept) = Cardinality(Old)
  <2>1. ExistsBijection(Old, Kept)
    BY <1>9 DEF ExistsBijection
  <2>2. QED
    BY <2>1, <1>3, FS_Bijection
<1>11. QED
    BY <1>2, <1>3, <1>10 DEF t

\* The events that are told: an outage, and its end.
Event == [old : H!States \cup {"unknown"}, new : H!States]
Outages == {e \in Event : e.new \in H!Down /\ e.old \notin H!Down}
Returns == {e \in Event : e.new = "online" /\ e.old \in H!Down}
Waiting(T) == Cardinality(Places(h_events, T))

HealthTypes ==
    /\ real \in H!States /\ status \in H!States \cup {"unknown"}
    /\ cache \in H!States \cup {"none"}
    /\ check \in [Checkers -> [at : {"idle", "probe", "cache", "commit"},
                               old : H!States \cup {"unknown"}, found : H!States \cup {"unknown"}]]
    /\ \A c \in Checkers : check[c].at \in {"cache", "commit"} => check[c].found \in H!States
    /\ h_events \in Seq(Event) /\ h_told \in [down : Nat, up : Nat]

\* What a check has loaded is still what the row says.
CheckIsFresh == \A c \in Checkers : check[c].at # "idle" => check[c].old = status

\* Told or still waiting, there is one outage more than there are returns, or none more.
OutagesAddUp ==
    h_told.down + Waiting(Outages) =
      h_told.up + Waiting(Returns) + (IF status \in H!Down THEN 1 ELSE 0)

HealthInv == HealthTypes /\ CheckIsFresh /\ OutagesAddUp

\* The certificates: what is remembered has been loaded, what is loaded has been written.
CertInv ==
    /\ h_file \in Nat /\ h_loaded \in Nat /\ h_known \in Nat
    /\ sync \in [at : {"idle", "reload", "remember"}, read : Nat]
    /\ h_known <= h_loaded /\ h_loaded <= h_file /\ sync.read <= h_file
    /\ sync.at = "remember" => sync.read <= h_loaded

LEMMA CertStep ==
    ASSUME H!NodeHealthAssumption, CertInv, [H!Next]_(H!vars)
    PROVE  CertInv'
<1> USE DEF CertInv, H!NoSync
<1>1. ASSUME NEW state \in H!States, H!Become(state) PROVE CertInv'
    BY <1>1 DEF H!Become
<1>2. CASE H!RenewCert
    BY <1>2 DEF H!RenewCert
<1>3. CASE H!ReadCert
    BY <1>3 DEF H!ReadCert
<1>4. CASE H!ReloadCert
  <2>1. h_loaded' = h_file /\ sync' = [sync EXCEPT !.at = "remember"] /\ UNCHANGED <<h_file, h_known>>
    BY <1>4 DEF H!ReloadCert
  <2>2. QED
    BY <2>1
<1>5. CASE H!FailCert \/ H!RememberCert \/ H!ForgetCert
    BY <1>5 DEF H!FailCert, H!RememberCert, H!ForgetCert
<1>6. CASE UNCHANGED <<h_file, h_loaded, h_known, sync>>
    BY <1>6
<1>7. QED
    BY <1>1, <1>2, <1>3, <1>4, <1>5, <1>6 DEF H!Next, H!vars, H!cert, H!BeginCheck, H!Probe, H!SetCache,
       H!CommitCheck, H!FailCheck, H!ForgetCache, H!Deliver

\* A check commits a change from what the row still says; the bus takes what waits to what is told.
LEMMA HealthStep ==
    ASSUME HealthInv, [H!Next]_(H!vars), \A c, d \in Checkers : c = d
    PROVE  HealthInv'
<1> USE DEF HealthInv
<1>1. ASSUME NEW c \in Checkers, H!CommitCheck(c), check[c].found # check[c].old PROVE HealthInv'
  <2> DEFINE e == [old |-> check[c].old, new |-> check[c].found]
  <2>1. /\ check[c].at = "commit" /\ status' = check[c].found /\ h_events' = Append(h_events, e)
        /\ check' = [check EXCEPT ![c] = H!NoCheck] /\ UNCHANGED <<real, cache, h_told>>
    BY <1>1 DEF H!CommitCheck
  <2>2. /\ check[c].found \in H!States /\ check[c].old = status /\ e \in Event
    BY <2>1 DEF HealthTypes, CheckIsFresh, Event
  <2>3. HealthTypes'
    <3>1. h_events' \in Seq(Event)
      BY <2>1, <2>2 DEF HealthTypes
    <3>2. check' \in [Checkers -> [at : {"idle", "probe", "cache", "commit"},
                               old : H!States \cup {"unknown"}, found : H!States \cup {"unknown"}]]
      BY <2>1 DEF HealthTypes, H!NoCheck
    <3>3. QED
      BY <2>1, <2>2, <3>1, <3>2 DEF HealthTypes, H!NoCheck
  <2>4. CheckIsFresh'
    BY <2>1 DEF CheckIsFresh, H!NoCheck, HealthTypes
  <2>5. /\ Waiting(Outages)' = Waiting(Outages) + (IF e \in Outages THEN 1 ELSE 0)
        /\ Waiting(Returns)' = Waiting(Returns) + (IF e \in Returns THEN 1 ELSE 0)
    <3>1. h_events \in Seq(Event)
      BY DEF HealthTypes
    <3> HIDE DEF e
    <3>2. QED
      BY <2>1, <2>2, <3>1, PlacesAppend DEF Waiting
  <2>6. /\ e \in Outages <=> status' \in H!Down /\ status \notin H!Down
        /\ e \in Returns <=> status' = "online" /\ status \in H!Down
    BY <2>1, <2>2 DEF Outages, Returns
  <2>7. status' \in H!Down <=> status' # "online"
    BY <2>1, <2>2 DEF H!Down, H!States
  <2>8. Waiting(Outages) \in Nat /\ Waiting(Returns) \in Nat /\ h_told.down \in Nat /\ h_told.up \in Nat
    BY PlacesAreCounted DEF HealthTypes, Waiting
  <2>9. OutagesAddUp'
    <3>1. status' \in H!Down <=> ~(status' = "online")
      BY <2>7
    <3>2. CASE e \in Outages
      <4>1. status' \in H!Down /\ status \notin H!Down /\ e \notin Returns
        BY <3>2, <2>6
      <4>2. QED
        <5>1. Waiting(Outages)' = Waiting(Outages) + 1 /\ Waiting(Returns)' = Waiting(Returns)
          BY <4>1, <3>2, <2>5, <2>8
        <5>2. h_told.down + Waiting(Outages) = h_told.up + Waiting(Returns)
          <6>1. h_told.down + Waiting(Outages) = h_told.up + Waiting(Returns) + 0
            BY <4>1 DEF OutagesAddUp
          <6>2. QED
            BY <6>1, <2>8
        <5>3. h_told'.down + Waiting(Outages)' = h_told'.up + Waiting(Returns)' + 1
          <6>1. h_told' = h_told
            BY <2>1
          <6>2. QED
            BY <5>1, <5>2, <6>1, <2>8
        <5>4. QED
          BY <4>1, <5>3 DEF OutagesAddUp
    <3>3. CASE e \in Returns
      <4>1. status' \notin H!Down /\ status \in H!Down /\ e \notin Outages
        BY <3>1, <3>3, <2>6
      <4>2. QED
        <5>1. Waiting(Returns)' = Waiting(Returns) + 1 /\ Waiting(Outages)' = Waiting(Outages)
          BY <4>1, <3>3, <2>5, <2>8
        <5>2. h_told.down + Waiting(Outages) = h_told.up + Waiting(Returns) + 1
          BY <4>1 DEF OutagesAddUp
        <5>3. h_told'.down + Waiting(Outages)' = h_told'.up + Waiting(Returns)'
          <6>1. h_told' = h_told
            BY <2>1
          <6>2. QED
            BY <5>1, <5>2, <6>1, <2>8
        <5>4. QED
          BY <4>1, <5>3, <2>1, <2>8, <5>1 DEF OutagesAddUp
    <3>4. CASE e \notin Outages /\ e \notin Returns
      <4>1. status' \in H!Down <=> status \in H!Down
        BY <3>1, <3>4, <2>6
      <4>2. QED
        BY <4>1, <3>4, <2>1, <2>5, <2>8 DEF OutagesAddUp
    <3>5. QED
      BY <3>2, <3>3, <3>4
  <2>10. QED
    BY <2>3, <2>4, <2>9
<1>2. ASSUME NEW i \in DOMAIN h_events, H!Deliver(i) PROVE HealthInv'
  <2> DEFINE e == h_events[i]
  <2>1. /\ h_told' = IF e \in Outages THEN [h_told EXCEPT !.down = @ + 1]
                     ELSE IF e \in Returns THEN [h_told EXCEPT !.up = @ + 1] ELSE h_told
        /\ h_events' = H!RemoveAt(h_events, i) /\ UNCHANGED <<real, status, cache, check>>
    BY <1>2 DEF H!Deliver, H!Recovers, Outages, Returns, HealthTypes
  <2>2. h_events \in Seq(Event) /\ i \in 1 .. Len(h_events) /\ h_told \in [down : Nat, up : Nat]
    BY DEF HealthTypes
  <2>3. /\ Waiting(Outages) = Waiting(Outages)' + (IF e \in Outages THEN 1 ELSE 0)
        /\ Waiting(Returns) = Waiting(Returns)' + (IF e \in Returns THEN 1 ELSE 0)
    BY <2>1, <2>2, PlacesRemove DEF Waiting
  <2>4. h_events' \in Seq(Event)
    BY <2>1, <2>2, RemoveAtIs
  <2>5. Waiting(Outages)' \in Nat /\ Waiting(Returns)' \in Nat
    BY <2>4, PlacesAreCounted DEF Waiting
  <2>6. ~(e \in Outages /\ e \in Returns)
    BY DEF Outages, Returns, H!Down
  <2> HIDE DEF e
  <2>7. h_told' \in [down : Nat, up : Nat]
    BY <2>1, <2>2
  <2>8. /\ h_told'.down = h_told.down + (IF e \in Outages THEN 1 ELSE 0)
        /\ h_told'.up = h_told.up + (IF e \in Returns THEN 1 ELSE 0)
    BY <2>1, <2>2, <2>6
  <2>9. OutagesAddUp'
    BY <2>1, <2>2, <2>3, <2>5, <2>8 DEF OutagesAddUp
  <2>10. QED
    BY <2>1, <2>4, <2>7, <2>9 DEF HealthTypes, CheckIsFresh
<1>3. ASSUME UNCHANGED <<status, h_events, h_told>>, HealthTypes', CheckIsFresh' PROVE HealthInv'
    BY <1>3 DEF OutagesAddUp, Waiting
<1>4. ASSUME NEW state \in H!States, H!Become(state) PROVE HealthInv'
    BY <1>3, <1>4 DEF H!Become, H!health, HealthTypes, CheckIsFresh
<1>5. ASSUME NEW c \in Checkers, H!BeginCheck(c) PROVE HealthInv'
    BY <1>3, <1>5 DEF H!BeginCheck, HealthTypes, CheckIsFresh
<1>6. ASSUME NEW c \in Checkers, H!Probe(c) PROVE HealthInv'
  <2>0. /\ check' = [check EXCEPT ![c].at = "cache", ![c].found = real]
        /\ UNCHANGED <<real, status, cache, h_events, h_told>> /\ check[c].at = "probe"
    BY <1>6 DEF H!Probe
  <2>1. /\ check'[c].at = "cache" /\ check'[c].old = check[c].old /\ check'[c].found = real
        /\ check' \in [Checkers -> [at : {"idle", "probe", "cache", "commit"},
                               old : H!States \cup {"unknown"}, found : H!States \cup {"unknown"}]]
        /\ \A d \in Checkers \ {c} : check'[d] = check[d]
    BY <2>0 DEF HealthTypes
  <2>2. HealthTypes'
    BY <2>0, <2>1 DEF HealthTypes
  <2>3. CheckIsFresh'
    BY <2>0, <2>1 DEF CheckIsFresh
  <2>4. QED
    BY <1>3, <2>0, <2>2, <2>3
<1>7. ASSUME NEW c \in Checkers, H!SetCache(c) PROVE HealthInv'
    BY <1>3, <1>7 DEF H!SetCache, HealthTypes, CheckIsFresh
<1>8. ASSUME NEW c \in Checkers, check' = [check EXCEPT ![c] = H!NoCheck],
             UNCHANGED <<real, status, cache, h_events, h_told>>
      PROVE HealthInv'
    BY <1>3, <1>8 DEF HealthTypes, CheckIsFresh, H!NoCheck
<1>9. ASSUME NEW c \in Checkers, H!CommitCheck(c) \/ H!FailCheck(c) PROVE HealthInv'
    BY <1>1, <1>8, <1>9 DEF H!CommitCheck, H!FailCheck
<1>10. CASE H!ForgetCache
    BY <1>3, <1>10 DEF H!ForgetCache, HealthTypes, CheckIsFresh
<1>11. CASE UNCHANGED <<real, status, cache, check, h_events, h_told>>
    BY <1>3, <1>11 DEF HealthTypes, CheckIsFresh
<1>12. QED
    BY <1>2, <1>4, <1>5, <1>6, <1>7, <1>9, <1>10, <1>11 DEF H!Next, H!vars, H!health, H!RenewCert,
       H!ReadCert, H!ReloadCert, H!FailCert, H!RememberCert, H!ForgetCert

\* NodeHealth: with one checker, whatever checks fail and in whatever order the messages are
\* handled, as many outages were told as ended, and one more while the node is down
\* (check_health, node_status_changed); of any number of runs of sync_server_cert, what is
\* remembered as reloaded ocserv has read.
THEOREM OutagesAndCertificates ==
    ASSUME H!NodeHealthAssumption, \A c, d \in Checkers : c = d
    PROVE  H!Spec => []NodeIsWatched
<1>1. H!Init => HealthInv
  <2>1. ASSUME H!Init PROVE HealthTypes /\ CheckIsFresh
    BY <2>1 DEF H!Init, HealthTypes, CheckIsFresh, H!NoCheck
  <2>2. ASSUME H!Init PROVE OutagesAddUp
    <3>1. h_events = << >> /\ h_told.down = 0 /\ h_told.up = 0 /\ status \notin H!Down
      BY <2>2 DEF H!Init, H!Down
    <3>2. \A T : Places(h_events, T) = {}
      BY <3>1 DEF Places
    <3>3. Waiting(Outages) = 0 /\ Waiting(Returns) = 0
      BY <3>2, FS_EmptySet DEF Waiting
    <3>4. QED
      BY <3>1, <3>3 DEF OutagesAddUp
  <2>3. QED
    BY <2>1, <2>2 DEF HealthInv
<1>2. HealthInv /\ [H!Next]_(H!vars) => HealthInv'
    BY HealthStep
<1>3. H!Init => CertInv
    BY DEF H!Init, CertInv, H!NoSync
<1>4. CertInv /\ [H!Next]_(H!vars) => CertInv'
    BY CertStep
<1>5. HealthInv /\ CertInv => NodeIsWatched
  <2>1. ASSUME HealthInv, h_events = << >>
        PROVE  h_told.down = h_told.up + (IF status \in {"offline", "degraded"} THEN 1 ELSE 0)
    <3>1. \A T : Places(h_events, T) = {}
      BY <2>1 DEF Places
    <3>2. Waiting(Outages) = 0 /\ Waiting(Returns) = 0
      BY <3>1, FS_EmptySet DEF Waiting
    <3>3. QED
      BY <2>1, <3>2 DEF HealthInv, HealthTypes, OutagesAddUp, H!Down
  <2>2. QED
    BY <2>1 DEF NodeIsWatched, H!OutagesAreTold, H!RememberedIsLoaded, CertInv
<1>6. QED
    BY <1>1, <1>2, <1>3, <1>4, <1>5, PTL DEF H!Spec

----------------------------------------------------------------------------
\* Host.

\* Databases that the code of a revision can have made, and what a copy holds.
Dbs(rev) == [is : {"whole", "empty", "partial", "gone"}, data : 0 .. MaxData, schema : 0 .. O!Schema(rev)]
Archives(rev) == [db : Dbs(rev), pki : 0 .. MaxData]
CopyFile == [kind : {"none", "elsewhere", "daily", "emergency"}, at : Nat]

CopySteps == {"dump", "fetch", "clear", "pack"}
EmptySteps == {"drop", "create", "copyin", "load", "remove", "unpack"}
CodeSteps == {"record", "pull", "checkout", "build"}
TimerSteps == CopySteps \cup {"idle", "prune", "offsite"}
HostSteps ==
    TimerSteps \cup EmptySteps \cup {"record", "pull", "checkout", "build", "up", "ask", "stop"}
HostTask(rev) ==
    [cmd : {"none", "backup", "update", "restore", "rollback"}, at : HostSteps,
     made : CopyFile, got : Dbs(rev), work : Archives(rev)]

GitTypes ==
    /\ git \in [branch : Nat, remote : Nat, at : Nat]
    /\ git.branch \in 1 .. git.remote /\ git.remote <= MaxRev /\ git.at <= git.branch
    /\ image \in 1 .. git.branch /\ o_up \in 0 .. git.branch
    /\ previous \in [rev : 0 .. git.branch, file : CopyFile]

DataTypes ==
    /\ db \in Dbs(git.branch) /\ pki \in 0 .. MaxData
    /\ dump \in Dbs(git.branch) /\ (dump = O!NoDatabase \/ dump.is # "gone")
    /\ o_copies \in [DOMAIN o_copies -> Archives(git.branch)]
    /\ DOMAIN o_copies \subseteq CopyFile /\ IsFiniteSet(DOMAIN o_copies) /\ O!KeptElsewhere \in DOMAIN o_copies
    /\ \A f \in DOMAIN o_copies : o_copies[f].db.is # "gone"
    /\ o_now \in Nat \ {0}

TaskIsSound(r, minute, app) ==
    /\ r.at \in {"clear", "pack"} => r.got.is # "gone"
    /\ r.at \in CopySteps => r.made.at \in 1 .. minute
    /\ r.cmd = "restore" => r.work.db.is # "gone"
    /\ r.at \in EmptySteps \cup {"stop"} => r.cmd = "restore"
    /\ r.at \in CodeSteps => r.cmd # "restore"
    /\ r.at \in EmptySteps \/ (r.at = "up" /\ r.cmd = "restore") => app = 0

TaskTypes ==
    /\ run \in [O!Procs -> HostTask(git.branch)]
    /\ \A p \in O!Procs : TaskIsSound(run[p], o_now, o_up)
    /\ run["timer"].at \in TimerSteps /\ run["timer"].cmd \in {"none", "backup"}

HostInv == GitTypes /\ DataTypes /\ TaskTypes /\ O!AppKnowsItsSchema

\* With the timer and the operator kept apart: what a restoration has brought back so far is the
\* copy; a copy has the minute it is made in, and that of an update is there until it is recorded.
TaskIsTrue(r, base, secret, loaded) ==
    r.cmd = "restore" =>
       /\ r.at = "load" => loaded = r.work.db
       /\ r.at \in {"remove", "unpack", "up"} => base = r.work.db
       /\ r.at = "up" => secret = r.work.pki
OfUpdate == {"prune", "offsite", "record"}
TaskIsOfNow(r, minute, kept) ==
    /\ r.at \in CopySteps => r.made = [kind |-> IF r.cmd = "restore" THEN "emergency" ELSE "daily", at |-> minute]
    /\ r.cmd = "update" /\ r.at \in OfUpdate =>
          r.made = O!Missing \/ (r.made = [kind |-> "daily", at |-> minute] /\ r.made \in kept)
    /\ r.at = "record" => r.cmd = "update"
TasksAreSound ==
    /\ \A p \in O!Procs : TaskIsTrue(run[p], db, pki, dump) /\ TaskIsOfNow(run[p], o_now, DOMAIN o_copies)
    /\ run["operator"] = O!Idle \/ run["timer"] = O!Idle

FilesArePast ==
    /\ \A f \in DOMAIN o_copies : f.at <= o_now
    /\ previous.file = O!Missing \/ (previous.file.kind = "daily" /\ previous.file.at <= o_now)

\* Until the minute of the recorded copy is over, no database has migrations that its code lacks.
Schemas ==
    {0, O!Schema(image), db.schema, dump.schema} \cup {o_copies[f].db.schema : f \in DOMAIN o_copies}
    \cup {run[p].got.schema : p \in O!Procs} \cup {run[p].work.db.schema : p \in O!Procs}
RecordedIsNew ==
    previous.file # O!Missing /\ previous.file.at = o_now => \A n \in Schemas : n <= O!Schema(previous.rev)

CopiesInv == TasksAreSound /\ FilesArePast /\ RecordedIsNew /\ O!UpdateCanGoBack

LEMMA SchemaGrows ==
    ASSUME O!HostAssumption
    PROVE  /\ \A n \in Nat : O!Schema(n) \in Nat
           /\ \A m, n \in Nat : m <= n => O!Schema(m) <= O!Schema(n)
<1>0. Migrations \subseteq Nat
    BY DEF O!HostAssumption
<1>1. ASSUME NEW n \in Nat PROVE IsFiniteSet({m \in Migrations : m <= n})
  <2>1. {m \in Migrations : m <= n} \subseteq 0 .. n
    <3>1. ASSUME NEW x \in {m \in Migrations : m <= n} PROVE x \in 0 .. n
      <4>1. x \in Migrations /\ x <= n
        OBVIOUS
      <4>2. x \in Nat
        BY <4>1, <1>0
      <4>3. QED
        BY <4>1, <4>2
    <3>2. QED
      BY <3>1
  <2>2. IsFiniteSet(0 .. n)
    BY FS_Interval
  <2>3. QED
    BY <2>1, <2>2, FS_Subset
<1>2. ASSUME NEW k \in Nat, NEW n \in Nat, k <= n
      PROVE  {m \in Migrations : m <= k} \subseteq {m \in Migrations : m <= n}
  <2>1. ASSUME NEW x \in {m \in Migrations : m <= k} PROVE x \in {m \in Migrations : m <= n}
    <3>1. x \in Migrations /\ x <= k
      OBVIOUS
    <3>2. x \in Nat
      BY <3>1, <1>0
    <3>3. x <= n
      BY <3>1, <3>2, <1>2
    <3>4. QED
      BY <3>1, <3>3
  <2>2. QED
    BY <2>1
<1>3. \A n \in Nat : O!Schema(n) = Cardinality({m \in Migrations : m <= n})
    BY DEF O!Schema, O!Cardinality, Cardinality
<1>4. ASSUME NEW n \in Nat PROVE O!Schema(n) \in Nat
    BY <1>1, <1>3, FS_CardinalityType
<1>5. ASSUME NEW k \in Nat, NEW n \in Nat, k <= n PROVE O!Schema(k) <= O!Schema(n)
  <2>1. Cardinality({m \in Migrations : m <= k}) <= Cardinality({m \in Migrations : m <= n})
    <3> DEFINE A1 == {m \in Migrations : m <= k}
               A2 == {m \in Migrations : m <= n}
    <3>1. IsFiniteSet(A2) /\ A1 \subseteq A2
      BY <1>1, <1>2, <1>5
    <3> HIDE DEF A1, A2
    <3>2. Cardinality(A1) <= Cardinality(A2)
      BY <3>1, FS_Subset
    <3>3. QED
      BY <3>2 DEF A1, A2
  <2>2. QED
    BY <1>3, <2>1
<1>6. QED
    BY <1>4, <1>5

LEMMA DbsGrow ==
    ASSUME O!HostAssumption, NEW m \in Nat, NEW n \in Nat, m <= n
    PROVE  Dbs(m) \subseteq Dbs(n) /\ Archives(m) \subseteq Archives(n) /\ HostTask(m) \subseteq HostTask(n)
<1>1. 0 .. O!Schema(m) \subseteq 0 .. O!Schema(n)
    BY SchemaGrows
<1>2. Dbs(m) \subseteq Dbs(n)
    BY <1>1 DEF Dbs
<1>3. Archives(m) \subseteq Archives(n)
    BY <1>2 DEF Archives
<1>4. HostTask(m) \subseteq HostTask(n)
    BY <1>2, <1>3 DEF HostTask
<1>5. QED
    BY <1>2, <1>3, <1>4

\* Some databases and tasks, and what they are made of.
LEMMA EmptyIs ==
    ASSUME O!HostAssumption, NEW rev \in Nat
    PROVE  /\ O!NoDatabase \in Dbs(rev) /\ O!NoDatabase.is = "gone" /\ O!NoDatabase.schema = 0
           /\ O!Empty \in Dbs(rev) /\ O!Empty.is = "empty" /\ O!Empty.schema = 0
           /\ O!Nothing \in Archives(rev) /\ O!Nothing.db = O!NoDatabase
           /\ O!Missing \in CopyFile /\ O!Missing.kind = "none" /\ O!Missing.at = 0
           /\ O!KeptElsewhere \in CopyFile /\ O!KeptElsewhere.kind = "elsewhere" /\ O!KeptElsewhere.at = 0
<1>1. O!Schema(rev) \in Nat /\ 0 \in 0 .. O!Schema(rev) /\ 0 \in 0 .. MaxData
    BY SchemaGrows DEF O!HostAssumption
<1>2. O!NoDatabase \in Dbs(rev) /\ O!NoDatabase.is = "gone" /\ O!NoDatabase.schema = 0
    BY <1>1 DEF O!NoDatabase, O!Db, Dbs
<1>3. O!Empty \in Dbs(rev) /\ O!Empty.is = "empty" /\ O!Empty.schema = 0
    BY <1>1 DEF O!Empty, O!Db, Dbs
<1>4. O!Nothing \in Archives(rev) /\ O!Nothing.db = O!NoDatabase
    BY <1>1, <1>2 DEF O!Nothing, Archives
<1>5. QED
    BY <1>2, <1>3, <1>4 DEF O!Missing, O!KeptElsewhere, CopyFile

LEMMA TaskIs ==
    ASSUME O!HostAssumption, NEW rev \in Nat,
           NEW cmd \in {"none", "backup", "update", "restore", "rollback"}, NEW at \in HostSteps,
           NEW made \in CopyFile, NEW held \in Archives(rev)
    PROVE  LET r == O!Task(cmd, at, made, held)
           IN  /\ r \in HostTask(rev) /\ r.cmd = cmd /\ r.at = at /\ r.made = made
               /\ r.got = O!NoDatabase /\ r.work = held
    BY EmptyIs DEF O!Task, HostTask

LEMMA IdleIs ==
    ASSUME O!HostAssumption, NEW rev \in Nat
    PROVE  /\ O!Idle \in HostTask(rev) /\ O!Idle.cmd = "none" /\ O!Idle.at = "idle" /\ O!Idle.made = O!Missing
           /\ O!Idle.got = O!NoDatabase /\ O!Idle.work = O!Nothing
<1>1. "idle" \in HostSteps
    BY DEF HostSteps, TimerSteps
<1>2. QED
    BY <1>1, EmptyIs, TaskIs DEF O!Idle

LEMMA MinuteIs ==
    ASSUME o_now \in Nat
    PROVE  /\ O!Daily \in CopyFile /\ O!Daily.kind = "daily" /\ O!Daily.at = o_now
           /\ O!Emergency \in CopyFile /\ O!Emergency.kind = "emergency" /\ O!Emergency.at = o_now
    BY DEF O!Daily, O!Emergency, CopyFile

\* A task that is at another step.
LEMMA TaskAt ==
    ASSUME NEW rev, NEW r \in HostTask(rev), NEW a \in HostSteps
    PROVE  LET n == [r EXCEPT !.at = a]
           IN  n \in HostTask(rev) /\ n.at = a /\ n.cmd = r.cmd /\ n.made = r.made /\ n.got = r.got /\ n.work = r.work
    BY DEF HostTask

\* One process goes on, and the server fits what it is about.
LEMMA RunStep ==
    ASSUME O!HostAssumption, HostInv, GitTypes', DataTypes', O!AppKnowsItsSchema',
           git'.branch >= git.branch, o_now' >= o_now,
           NEW p \in O!Procs, NEW todo \in HostTask(git'.branch), run' = [run EXCEPT ![p] = todo],
           TaskIsSound(todo, o_now', o_up'),
           p = "timer" => todo.at \in TimerSteps /\ todo.cmd \in {"none", "backup"} /\ o_up' = o_up
    PROVE  HostInv'
<1>1. /\ git.branch \in Nat /\ git'.branch \in Nat /\ o_now \in Nat /\ o_now' \in Nat
      /\ run \in [O!Procs -> HostTask(git.branch)]
    BY DEF HostInv, GitTypes, DataTypes, TaskTypes
<1>2. HostTask(git.branch) \subseteq HostTask(git'.branch)
    BY <1>1, DbsGrow
<1>3. run' \in [O!Procs -> HostTask(git'.branch)] /\ run'[p] = todo
    BY <1>1, <1>2
<1>4. ASSUME NEW q \in O!Procs, q # p PROVE TaskIsSound(run'[q], o_now', o_up') /\ run'[q] = run[q]
  <2>1. run'[q] = run[q] /\ TaskIsSound(run[q], o_now, o_up)
    BY <1>1, <1>4 DEF HostInv, TaskTypes
  <2>2. o_up' = o_up \/ (run[q].at \notin EmptySteps /\ run[q].at # "up")
    <3>1. CASE p = "timer"
      BY <3>1
    <3>2. CASE p = "operator"
      <4>1. run[q].at \in TimerSteps
        BY <3>2, <1>4 DEF HostInv, TaskTypes, O!Procs
      <4>2. QED
        BY <4>1 DEF TimerSteps, CopySteps, EmptySteps
    <3>3. QED
      BY <3>1, <3>2 DEF O!Procs
  <2>3. 1 .. o_now \subseteq 1 .. o_now'
    BY <1>1
  <2>4. QED
    BY <2>1, <2>2, <2>3 DEF TaskIsSound
<1>5. TaskTypes'
  <2>1. \A q \in O!Procs : TaskIsSound(run'[q], o_now', o_up')
    BY <1>3, <1>4
  <2>2. run'["timer"].at \in TimerSteps /\ run'["timer"].cmd \in {"none", "backup"}
    BY <1>3, <1>4 DEF O!Procs, HostInv, TaskTypes
  <2>3. QED
    BY <1>3, <2>1, <2>2 DEF TaskTypes
<1>6. QED
    BY <1>5 DEF HostInv

LEMMA HostFacts ==
    ASSUME HostInv, NEW p \in O!Procs
    PROVE  /\ git.branch \in Nat /\ git.remote \in Nat /\ o_now \in Nat /\ o_now >= 1
           /\ run[p] \in HostTask(git.branch) /\ TaskIsSound(run[p], o_now, o_up)
           /\ p = "timer" => run[p].at \in TimerSteps /\ run[p].cmd \in {"none", "backup"}
    BY DEF HostInv, GitTypes, DataTypes, TaskTypes

LEMMA GotoStep ==
    ASSUME O!HostAssumption, HostInv, GitTypes', DataTypes', O!AppKnowsItsSchema',
           git'.branch >= git.branch, o_now' >= o_now,
           NEW p \in O!Procs, NEW a \in HostSteps, O!Goto(p, a),
           a \in {"clear", "pack"} => run[p].got.is # "gone",
           a \in CopySteps => run[p].at \in CopySteps,
           a \in EmptySteps \cup {"stop"} => run[p].cmd = "restore",
           a \in CodeSteps => run[p].cmd # "restore",
           a \in EmptySteps \/ (a = "up" /\ run[p].cmd = "restore") => o_up' = 0,
           p = "timer" => a \in TimerSteps /\ o_up' = o_up
    PROVE  HostInv'
<1> DEFINE r == run[p]
           n == [r EXCEPT !.at = a]
<1>1. /\ r \in HostTask(git'.branch) /\ TaskIsSound(r, o_now, o_up) /\ o_now \in Nat /\ o_now' \in Nat
      /\ p = "timer" => r.cmd \in {"none", "backup"}
  <2>1. git'.branch \in Nat
    BY DEF GitTypes
  <2>2. o_now' \in Nat
    BY DEF DataTypes
  <2>3. QED
    BY <2>1, <2>2, HostFacts, DbsGrow
<1>2. run' = [run EXCEPT ![p] = n]
    BY DEF O!Goto
<1> HIDE DEF r
<1>3. n \in HostTask(git'.branch) /\ n.at = a /\ n.cmd = r.cmd /\ n.made = r.made /\ n.got = r.got /\ n.work = r.work
    BY <1>1, TaskAt
<1> HIDE DEF n
<1>4. 1 .. o_now \subseteq 1 .. o_now'
    BY <1>1
<1>5. TaskIsSound(n, o_now', o_up')
    BY <1>1, <1>3, <1>4 DEF TaskIsSound, r
<1>6. QED
    BY <1>1, <1>2, <1>3, <1>5, RunStep

LEMMA DoneStep ==
    ASSUME O!HostAssumption, HostInv, GitTypes', DataTypes', O!AppKnowsItsSchema',
           git'.branch >= git.branch, o_now' >= o_now, NEW p \in O!Procs, O!Done(p),
           p = "timer" => o_up' = o_up
    PROVE  HostInv'
<1>1. git'.branch \in Nat
    BY DEF GitTypes
<1>2. O!Idle \in HostTask(git'.branch) /\ O!Idle.cmd = "none" /\ O!Idle.at = "idle"
    BY <1>1, IdleIs
<1>3. TaskIsSound(O!Idle, o_now', o_up')
    BY <1>2 DEF TaskIsSound, CopySteps, EmptySteps, CodeSteps
<1>4. "idle" \in TimerSteps
    BY DEF TimerSteps
<1>5. QED
    BY <1>2, <1>3, <1>4, RunStep DEF O!Done

\* The variables of the server that no step of another kind disturbs.
LEMMA ServerStays ==
    ASSUME HostInv, UNCHANGED <<db, pki, git, image, o_up, enabled, previous, o_copies, dump, o_now>>
    PROVE  /\ GitTypes' /\ DataTypes' /\ O!AppKnowsItsSchema'
           /\ git'.branch >= git.branch /\ o_now' >= o_now
<1>1. GitTypes'
    BY DEF HostInv, GitTypes
<1>2. DataTypes'
    BY DEF HostInv, DataTypes
<1>3. O!AppKnowsItsSchema'
    BY DEF HostInv, O!AppKnowsItsSchema
<1>4. git'.branch >= git.branch /\ o_now' >= o_now
    BY DEF HostInv, GitTypes, DataTypes
<1>5. QED
    BY <1>1, <1>2, <1>3, <1>4

LEMMA RestoringIs ==
    ASSUME O!HostAssumption, HostInv, NEW file \in DOMAIN o_copies, NEW emergency \in BOOLEAN
    PROVE  LET r == O!Restoring(file, emergency)
           IN  /\ r \in HostTask(git.branch) /\ TaskIsSound(r, o_now, o_up)
               /\ r.cmd = "restore" /\ r.at = (IF emergency THEN "dump" ELSE "stop")
               /\ r.made = O!Emergency /\ r.got = O!NoDatabase /\ r.work = o_copies[file]
<1> DEFINE step == IF emergency THEN "dump" ELSE "stop"
           r == O!Restoring(file, emergency)
<1>1. git.branch \in Nat /\ o_now \in Nat /\ o_now >= 1
    BY HostFacts DEF O!Procs
<1>2. O!Emergency \in CopyFile /\ O!Emergency.at = o_now
    BY <1>1, MinuteIs
<1>3. o_copies[file] \in Archives(git.branch) /\ o_copies[file].db.is # "gone"
    BY DEF HostInv, DataTypes
<1>4. step \in HostSteps /\ step \in {"dump", "stop"}
    BY DEF HostSteps, TimerSteps, CopySteps
<1>5. /\ r \in HostTask(git.branch) /\ r.cmd = "restore" /\ r.at = step
      /\ r.made = O!Emergency /\ r.got = O!NoDatabase /\ r.work = o_copies[file]
    BY <1>1, <1>2, <1>3, <1>4, TaskIs DEF O!Restoring
<1> HIDE DEF r, step
<1>6. TaskIsSound(r, o_now, o_up)
    BY <1>1, <1>2, <1>3, <1>4, <1>5 DEF TaskIsSound, EmptySteps, CodeSteps
<1>7. QED
    BY <1>5, <1>6 DEF r, step

LEMMA CommandStep ==
    ASSUME O!HostAssumption, HostInv, O!Command \/ O!RestoreAgain \/ O!TimerBackup
    PROVE  HostInv'
<1>1. ASSUME NEW p \in O!Procs, NEW todo \in HostTask(git.branch), O!Begin(p, todo),
             TaskIsSound(todo, o_now, o_up),
             p = "timer" => todo.at \in TimerSteps /\ todo.cmd \in {"none", "backup"}
      PROVE  HostInv'
  <2>1. /\ run' = [run EXCEPT ![p] = todo]
        /\ UNCHANGED <<db, pki, git, image, o_up, enabled, previous, o_copies, dump, o_now>>
    BY <1>1 DEF O!Begin, O!host
  <2>2. QED
    BY <1>1, <2>1, ServerStays, RunStep
<1>2. "operator" \in O!Procs /\ "timer" \in O!Procs
    BY DEF O!Procs
<1>3. git.branch \in Nat /\ o_now \in Nat /\ o_now >= 1
    BY <1>2, HostFacts
<1>4. /\ O!Missing \in CopyFile /\ O!Nothing \in Archives(git.branch) /\ O!Daily \in CopyFile
      /\ O!Emergency \in CopyFile /\ O!Daily.at = o_now /\ O!Emergency.at = o_now
    BY <1>3, EmptyIs, MinuteIs
<1>5. {"dump", "record", "checkout", "stop"} \subseteq HostSteps
    BY DEF HostSteps, TimerSteps, CopySteps
<1>6. ASSUME NEW cmd \in {"backup", "update"}
      PROVE  /\ O!MakingCopy(cmd) \in HostTask(git.branch) /\ O!MakingCopy(cmd).cmd = cmd
             /\ O!MakingCopy(cmd).at = "dump" /\ TaskIsSound(O!MakingCopy(cmd), o_now, o_up)
  <2>1. LET r == O!MakingCopy(cmd)
        IN  r \in HostTask(git.branch) /\ r.cmd = cmd /\ r.at = "dump" /\ r.made = O!Daily
    BY <1>3, <1>4, <1>5, TaskIs DEF O!MakingCopy
  <2>2. TaskIsSound(O!MakingCopy(cmd), o_now, o_up)
    BY <2>1, <1>3, <1>4 DEF TaskIsSound, EmptySteps, CodeSteps
  <2>3. QED
    BY <2>1, <2>2
<1>7. ASSUME NEW cmd \in {"update", "rollback"}, NEW at \in {"record", "checkout"}
      PROVE  LET r == O!Task(cmd, at, O!Missing, O!Nothing)
             IN  r \in HostTask(git.branch) /\ TaskIsSound(r, o_now, o_up)
  <2>1. LET r == O!Task(cmd, at, O!Missing, O!Nothing)
        IN  r \in HostTask(git.branch) /\ r.cmd = cmd /\ r.at = at
    BY <1>3, <1>4, <1>5, TaskIs
  <2>2. QED
    BY <2>1 DEF TaskIsSound, EmptySteps, CopySteps, CodeSteps
<1>8. ASSUME NEW file \in DOMAIN o_copies, NEW emergency \in BOOLEAN
      PROVE  LET r == O!Restoring(file, emergency)
             IN  r \in HostTask(git.branch) /\ TaskIsSound(r, o_now, o_up)
    BY RestoringIs
<1>9. CASE O!Backup
    BY <1>1, <1>2, <1>6, <1>9 DEF O!Backup, O!Type
<1>10. CASE O!TimerBackup
  <2>1. "dump" \in TimerSteps
    BY DEF TimerSteps, CopySteps
  <2>2. QED
    BY <1>1, <1>2, <1>6, <1>10, <2>1 DEF O!TimerBackup
<1>11. CASE O!Update
  <2>1. O!Begin("operator", IF enabled THEN O!MakingCopy("update")
                            ELSE O!Task("update", "record", O!Missing, O!Nothing))
    BY <1>11 DEF O!Update, O!Type
  <2>2. CASE enabled
    BY <1>1, <1>2, <1>6, <2>1, <2>2
  <2>3. CASE ~enabled
    BY <1>1, <1>2, <1>7, <2>1, <2>3
  <2>4. QED
    BY <2>2, <2>3
<1>12. CASE O!Rollback
    BY <1>1, <1>2, <1>7, <1>12 DEF O!Rollback, O!Type
<1>13. ASSUME NEW file \in DOMAIN o_copies, NEW emergency \in BOOLEAN, O!Restore(file, emergency)
       PROVE  HostInv'
    BY <1>1, <1>2, <1>8, <1>13 DEF O!Restore, O!Type
<1>14. CASE O!RestoreAgain
  <2>1. O!KeptElsewhere \in DOMAIN o_copies
    BY DEF HostInv, DataTypes
  <2>2. QED
    BY <1>1, <1>2, <1>8, <1>14, <2>1 DEF O!RestoreAgain
<1>15. QED
    BY <1>9, <1>10, <1>11, <1>12, <1>13, <1>14 DEF O!Command

LEMMA CopyingStep ==
    ASSUME O!HostAssumption, HostInv, NEW p \in O!Procs, O!CopyStep(p)
    PROVE  HostInv'
<1> DEFINE r == run[p]
<1>1. /\ git.branch \in Nat /\ o_now \in Nat /\ o_now >= 1
      /\ r \in HostTask(git.branch) /\ TaskIsSound(r, o_now, o_up)
      /\ p = "timer" => r.at \in TimerSteps /\ r.cmd \in {"none", "backup"}
    BY HostFacts
<1>2. /\ {"fetch", "clear", "pack"} \subseteq HostSteps \cap TimerSteps \cap CopySteps
      /\ {"prune", "offsite"} \subseteq HostSteps \cap TimerSteps
      /\ ({"prune", "offsite", "stop"} \cup CopySteps) \cap CodeSteps = {}
      /\ {"prune", "offsite", "record", "stop"} \cap (CopySteps \cup EmptySteps) = {}
      /\ CopySteps \cap EmptySteps = {} /\ "record" \in HostSteps /\ "stop" \in HostSteps
    BY DEF HostSteps, TimerSteps, CopySteps, EmptySteps, CodeSteps
<1>3. ASSUME UNCHANGED <<db, pki, git, image, o_up, enabled, previous, o_now>>
      PROVE  GitTypes' /\ O!AppKnowsItsSchema' /\ git'.branch >= git.branch /\ o_now' >= o_now
  <2>1. GitTypes'
    BY <1>3 DEF HostInv, GitTypes
  <2>2. O!AppKnowsItsSchema'
    BY <1>3 DEF HostInv, O!AppKnowsItsSchema
  <2>3. QED
    BY <2>1, <2>2, <1>1, <1>3
<1>4. UNCHANGED o_now
    BY DEF O!CopyStep
<1>5. CASE O!Dump(p)
  <2>1. /\ r.at = "dump" /\ db.is # "gone" /\ dump' = db /\ O!Goto(p, "fetch")
        /\ UNCHANGED <<db, pki, git, image, o_up, enabled, previous, o_copies>>
    BY <1>5 DEF O!Dump, O!CanDump
  <2>2. DataTypes'
    BY <1>4, <2>1 DEF HostInv, DataTypes
  <2>3. r.at \in CopySteps
    BY <2>1 DEF CopySteps
  <2>4. QED
    BY <1>2, <1>3, <1>4, <2>1, <2>2, <2>3, GotoStep
<1>6. CASE O!Fetch(p)
  <2> DEFINE n == [cmd |-> r.cmd, at |-> "clear", made |-> r.made, got |-> dump, work |-> r.work]
  <2>1. /\ r.at = "fetch" /\ dump # O!NoDatabase /\ run' = [run EXCEPT ![p] = n]
        /\ UNCHANGED <<db, pki, git, image, o_up, enabled, previous, o_copies, dump, o_now>>
    BY <1>4, <1>6 DEF O!Fetch, O!host
  <2>4. dump \in Dbs(git.branch) /\ dump.is # "gone"
    BY <2>1 DEF HostInv, DataTypes
  <2>5. n \in HostTask(git.branch)
    BY <1>1, <1>2, <2>4 DEF HostTask
  <2>6. n.at = "clear" /\ n.cmd = r.cmd /\ n.made = r.made /\ n.got = dump /\ n.work = r.work
    OBVIOUS
  <2> HIDE DEF n
  <2>7. r.at \in CopySteps
    BY <2>1 DEF CopySteps
  <2>8. TaskIsSound(n, o_now, o_up)
    BY <1>1, <1>2, <2>4, <2>6, <2>7 DEF TaskIsSound
  <2>9. QED
    BY <1>1, <1>2, <2>1, <2>5, <2>6, <2>8, ServerStays, RunStep
<1>7. CASE O!Clear(p)
  <2>1. /\ r.at = "clear" /\ dump' = O!NoDatabase /\ O!Goto(p, "pack")
        /\ UNCHANGED <<db, pki, git, image, o_up, enabled, previous, o_copies>>
    BY <1>7 DEF O!Clear
  <2>2. O!NoDatabase \in Dbs(git.branch)
    BY <1>1, EmptyIs
  <2>3. DataTypes'
    BY <1>4, <2>1, <2>2 DEF HostInv, DataTypes
  <2>4. r.at \in CopySteps /\ r.got.is # "gone"
    BY <1>1, <2>1 DEF CopySteps, TaskIsSound
  <2>5. QED
    BY <1>2, <1>3, <1>4, <2>1, <2>3, <2>4, GotoStep
<1>8. CASE O!Pack(p)
  <2>1. /\ r.at = "pack"
        /\ o_copies' = [f \in DOMAIN o_copies \cup {r.made} |->
                         IF f = r.made THEN [db |-> r.got, pki |-> pki] ELSE o_copies[f]]
        /\ UNCHANGED <<db, pki, git, image, o_up, enabled, previous, dump>>
    BY <1>8 DEF O!Pack
  <2>2. r.made \in CopyFile /\ r.got \in Dbs(git.branch) /\ r.got.is # "gone" /\ pki \in 0 .. MaxData
    BY <1>1, <2>1 DEF HostTask, TaskIsSound, HostInv, DataTypes
  <2>3. [db |-> r.got, pki |-> pki] \in Archives(git.branch)
    BY <2>2 DEF Archives
  <2>4. DOMAIN o_copies' = DOMAIN o_copies \cup {r.made}
    BY <2>1
  <2>5. IsFiniteSet(DOMAIN o_copies')
    BY <2>4, FS_AddElement DEF HostInv, DataTypes
  <2>6. \A f \in DOMAIN o_copies' : o_copies'[f] \in Archives(git.branch) /\ o_copies'[f].db.is # "gone"
    <3>1. ASSUME NEW f \in DOMAIN o_copies'
          PROVE  o_copies'[f] \in Archives(git.branch) /\ o_copies'[f].db.is # "gone"
      <4>1. CASE f = r.made
        BY <2>1, <2>2, <2>3, <2>4, <4>1
      <4>2. CASE f # r.made
        <5>1. f \in DOMAIN o_copies /\ o_copies'[f] = o_copies[f]
          BY <2>1, <2>4, <4>2
        <5>2. QED
          BY <5>1 DEF HostInv, DataTypes
      <4>3. QED
        BY <4>1, <4>2
    <3>2. QED
      BY <3>1
  <2>7. o_copies' \in [DOMAIN o_copies' -> Archives(git.branch)]
    <3>1. o_copies' = [f \in DOMAIN o_copies' |-> o_copies'[f]]
      BY <2>1
    <3>2. QED
      BY <2>6, <3>1
  <2>8. DataTypes'
    BY <1>4, <2>1, <2>2, <2>4, <2>5, <2>6, <2>7 DEF HostInv, DataTypes
  <2>9. O!Goto(p, IF r.cmd = "restore" THEN "stop" ELSE "prune")
    BY <1>8 DEF O!Pack
  <2>10. CASE r.cmd = "restore"
    <3>1. O!Goto(p, "stop") /\ p # "timer"
      BY <1>1, <2>9, <2>10
    <3>2. QED
      BY <1>2, <1>3, <1>4, <2>1, <2>8, <2>10, <3>1, GotoStep
  <2>11. CASE r.cmd # "restore"
    <3>1. O!Goto(p, "prune")
      BY <2>9, <2>11
    <3>2. QED
      BY <1>2, <1>3, <1>4, <2>1, <2>8, <3>1, GotoStep
  <2>12. QED
    BY <2>10, <2>11
<1>9. CASE O!Prune(p)
  <2>1. /\ r.at = "prune" /\ O!Goto(p, "offsite")
        /\ UNCHANGED <<db, pki, git, image, o_up, enabled, previous, dump>>
    BY <1>9 DEF O!Prune
  <2>2. PICK S \in SUBSET DOMAIN o_copies : o_copies' = [f \in S |-> o_copies[f]] /\ O!KeptElsewhere \in S
    <3>1. O!KeptElsewhere \in DOMAIN o_copies
      BY DEF HostInv, DataTypes
    <3>2. QED
      BY <1>9, <3>1 DEF O!Prune, O!Restrict
  <2>3. IsFiniteSet(S)
    BY FS_Subset DEF HostInv, DataTypes
  <2>4. DataTypes'
    BY <1>4, <2>1, <2>2, <2>3 DEF HostInv, DataTypes
  <2>5. QED
    BY <1>2, <1>3, <1>4, <2>1, <2>4, GotoStep
<1>10. CASE O!Offsite(p)
  <2>1. /\ IF r.cmd = "update" THEN O!Goto(p, "record") ELSE O!Done(p)
        /\ UNCHANGED <<db, pki, git, image, o_up, enabled, previous, o_copies, dump, o_now>>
    BY <1>4, <1>10 DEF O!Offsite, O!host
  <2>2. CASE r.cmd = "update"
    <3>1. O!Goto(p, "record") /\ p # "timer"
      BY <1>1, <2>1, <2>2
    <3>2. QED
      BY <1>2, <2>1, <2>2, <3>1, ServerStays, GotoStep
  <2>3. CASE r.cmd # "update"
    <3>1. O!Done(p)
      BY <2>1, <2>3
    <3>2. QED
      BY <2>1, <3>1, ServerStays, DoneStep
  <2>4. QED
    BY <2>2, <2>3
<1>11. QED
  BY <1>5, <1>6, <1>7, <1>8, <1>9, <1>10 DEF O!CopyStep

\* What Update, Rollback and Restore change of the server.
LEMMA OperatorFacts ==
    ASSUME O!HostAssumption, HostInv
    PROVE  /\ "operator" \in O!Procs
           /\ git \in [branch : Nat, remote : Nat, at : Nat] /\ git.branch >= 1 /\ git.branch <= git.remote
           /\ git.remote <= MaxRev /\ git.at <= git.branch /\ MaxRev \in Nat
           /\ image \in 1 .. git.branch /\ o_up \in 0 .. git.branch
           /\ previous \in [rev : 0 .. git.branch, file : CopyFile]
           /\ run["operator"] \in HostTask(git.branch) /\ TaskIsSound(run["operator"], o_now, o_up)
           /\ O!Schema(image) \in 0 .. O!Schema(git.branch)
           /\ o_now \in Nat /\ o_now >= 1
<1>1. "operator" \in O!Procs
    BY DEF O!Procs
<1>2. /\ git \in [branch : Nat, remote : Nat, at : Nat] /\ git.branch >= 1 /\ git.branch <= git.remote
      /\ git.remote <= MaxRev /\ git.at <= git.branch /\ MaxRev \in Nat
      /\ image \in 1 .. git.branch /\ o_up \in 0 .. git.branch
      /\ previous \in [rev : 0 .. git.branch, file : CopyFile]
    BY DEF HostInv, GitTypes, O!HostAssumption
<1>3. /\ image \in Nat /\ git.branch \in Nat /\ image <= git.branch
    BY <1>2
<1>4. O!Schema(image) \in 0 .. O!Schema(git.branch)
    BY <1>3, SchemaGrows
<1>5. QED
    BY <1>1, <1>2, <1>4, HostFacts

LEMMA UpdatingStep ==
    ASSUME O!HostAssumption, HostInv, O!UpdateStep
    PROVE  HostInv'
<1> DEFINE p == "operator"
           r == run["operator"]
<1>1. /\ p \in O!Procs /\ r \in HostTask(git.branch) /\ TaskIsSound(r, o_now, o_up)
      /\ git.branch \in Nat /\ git.branch >= 1 /\ o_now \in Nat /\ o_now >= 1 /\ p # "timer"
      /\ git.remote \in Nat /\ git.at \in Nat
    BY OperatorFacts
<1>2. /\ {"pull", "build", "up", "ask"} \subseteq HostSteps
      /\ {"pull", "build", "ask", "up"} \cap (CopySteps \cup EmptySteps \cup {"stop"}) = {}
      /\ "ask" \notin CodeSteps /\ "up" \notin CodeSteps /\ {"record", "pull", "checkout", "build"} \subseteq CodeSteps
    BY DEF HostSteps, TimerSteps, CopySteps, EmptySteps, CodeSteps
<1>3. ASSUME UNCHANGED <<db, o_up>> PROVE O!AppKnowsItsSchema'
    BY <1>3 DEF HostInv, O!AppKnowsItsSchema
<1>4. ASSUME UNCHANGED <<db, pki, o_copies, dump>>, git'.branch >= git.branch, git'.branch \in Nat,
             o_now' \in Nat, o_now' >= o_now
      PROVE  DataTypes'
  <2>1. Dbs(git.branch) \subseteq Dbs(git'.branch) /\ Archives(git.branch) \subseteq Archives(git'.branch)
    BY <1>1, <1>4, DbsGrow
  <2>2. o_now' \in Nat \ {0}
    BY <1>1, <1>4
  <2>3. QED
    BY <1>4, <2>1, <2>2 DEF HostInv, DataTypes
<1>5. CASE O!Record
  <2>1. /\ r.at = "record" /\ previous' = [rev |-> git.branch, file |-> r.made] /\ O!Goto(p, "pull")
        /\ UNCHANGED <<db, pki, git, image, o_up, enabled, o_copies, dump>>
    BY <1>5 DEF O!Record
  <2>2. r.made \in CopyFile
    BY <1>1 DEF HostTask
  <2>3. GitTypes'
    BY <1>1, <2>1, <2>2 DEF HostInv, GitTypes
  <2>4. UNCHANGED o_now
    BY <1>5, <1>2 DEF O!UpdateStep, O!Build, O!Record
  <2>5. r.cmd # "restore"
    BY <1>1, <1>2, <2>1 DEF TaskIsSound
  <2>6. QED
    BY <1>1, <1>2, <1>3, <1>4, <2>1, <2>3, <2>4, <2>5, GotoStep
<1>6. CASE O!Pull
  <2>1. /\ r.at = "pull" /\ git' = [git EXCEPT !.branch = git.remote] /\ O!Goto(p, "build")
        /\ UNCHANGED <<db, pki, image, o_up, enabled, previous, o_copies, dump>>
    BY <1>6 DEF O!Pull
  <2>2. git' \in [branch : Nat, remote : Nat, at : Nat] /\ git'.branch = git.remote
        /\ git'.remote = git.remote /\ git'.at = git.at
    BY <2>1, OperatorFacts
  <2>3. GitTypes'
    BY <2>1, <2>2, OperatorFacts DEF GitTypes
  <2>4. UNCHANGED o_now
    BY <1>6, <1>2 DEF O!UpdateStep, O!Build, O!Pull
  <2>5. git'.branch >= git.branch
    BY <2>2, OperatorFacts
  <2>6. r.cmd # "restore"
    BY <1>1, <1>2, <2>1 DEF TaskIsSound
  <2>7. QED
    BY <1>1, <1>2, <1>3, <1>4, <2>1, <2>2, <2>3, <2>4, <2>5, <2>6, GotoStep
<1>7. CASE O!Checkout
  <2>1. /\ r.at = "checkout" /\ git' = [git EXCEPT !.at = previous.rev] /\ O!Goto(p, "build")
        /\ UNCHANGED <<db, pki, image, o_up, enabled, previous, o_copies, dump>>
    BY <1>7 DEF O!Checkout
  <2>0. previous.rev \in 0 .. git.branch
    BY OperatorFacts
  <2>2. git' \in [branch : Nat, remote : Nat, at : Nat] /\ git'.branch = git.branch
        /\ git'.remote = git.remote /\ git'.at = previous.rev
    BY <2>0, <2>1, OperatorFacts
  <2>3. GitTypes'
    BY <2>0, <2>1, <2>2, OperatorFacts DEF GitTypes
  <2>4. UNCHANGED o_now
    BY <1>7, <1>2 DEF O!UpdateStep, O!Build, O!Checkout
  <2>6. r.cmd # "restore"
    BY <1>1, <1>2, <2>1 DEF TaskIsSound
  <2>7. QED
    BY <1>1, <1>2, <1>3, <1>4, <2>1, <2>2, <2>3, <2>4, <2>6, GotoStep
<1>8. CASE O!Build /\ o_now' = o_now + 1
  <2>1. /\ image' = O!Head /\ O!Goto(p, "up") /\ r.at = "build"
        /\ UNCHANGED <<db, pki, git, o_up, enabled, previous, o_copies, dump>>
    BY <1>8 DEF O!Build
  <2>2. image' \in 1 .. git.branch
    BY <2>1, OperatorFacts DEF O!Head
  <2>3. GitTypes'
    BY <2>1, <2>2 DEF HostInv, GitTypes
  <2>4. r.cmd # "restore"
    BY <1>1, <1>2, <2>1 DEF TaskIsSound
  <2>5. QED
    BY <1>1, <1>2, <1>3, <1>4, <1>8, <2>1, <2>3, <2>4, GotoStep
<1>9. CASE O!Up
  <2>1. /\ r.at = "up" /\ db.is # "gone" /\ o_up' = image
        /\ db' = O!Db(IF db.is = "empty" THEN "whole" ELSE db.is, db.data, O!Schema(image))
        /\ UNCHANGED <<pki, git, image, enabled, previous, o_copies, dump>>
        /\ O!Goto(p, "ask") \/ O!Done(p)
    BY <1>9 DEF O!Up, O!CanStart
  <2>2. UNCHANGED o_now
    BY <1>9, <1>2, <2>1 DEF O!UpdateStep, O!Build
  <2>3. db \in Dbs(git.branch) /\ db'.is \in {"whole", "partial"} /\ db'.schema = O!Schema(image)
        /\ db' \in Dbs(git.branch)
    <3>1. db \in Dbs(git.branch)
      BY DEF HostInv, DataTypes
    <3>2. QED
      BY <2>1, <3>1, OperatorFacts DEF Dbs, O!Db
  <2>4. GitTypes'
    BY <2>1, OperatorFacts DEF HostInv, GitTypes
  <2>5. DataTypes'
    BY <2>1, <2>2, <2>3 DEF HostInv, DataTypes
  <2>6. O!AppKnowsItsSchema'
    BY <2>1, <2>3 DEF O!AppKnowsItsSchema, O!Schema
  <2>7. QED
    BY <1>1, <1>2, <2>1, <2>2, <2>4, <2>5, <2>6, GotoStep, DoneStep
<1>10. CASE O!Ask
  <2>1. UNCHANGED <<db, pki, git, image, o_up, enabled, previous, o_copies, dump, o_now>>
    BY <1>10, <1>2 DEF O!UpdateStep, O!Build, O!Ask, O!host
  <2>2. CASE O!Done(p)
    BY <1>1, <2>1, <2>2, ServerStays, DoneStep
  <2>3. CASE previous.file \in DOMAIN o_copies
             /\ run' = [run EXCEPT !["operator"] = O!Restoring(previous.file, TRUE)]
    <3> DEFINE n == O!Restoring(previous.file, TRUE)
    <3>1. n \in HostTask(git.branch) /\ TaskIsSound(n, o_now, o_up)
      BY <2>3, RestoringIs
    <3> HIDE DEF n
    <3>2. run' = [run EXCEPT !["operator"] = n]
      BY <2>3 DEF n
    <3>3. QED
      BY <1>1, <2>1, <3>1, <3>2, ServerStays, RunStep
  <2>4. QED
    BY <1>10, <2>2, <2>3 DEF O!Ask
<1>11. QED
    BY <1>5, <1>6, <1>7, <1>8, <1>9, <1>10 DEF O!UpdateStep

LEMMA RestorationStep ==
    ASSUME O!HostAssumption, HostInv, O!RestoreStep
    PROVE  HostInv'
<1> DEFINE p == "operator"
           r == run["operator"]
<1>1. /\ p \in O!Procs /\ r \in HostTask(git.branch) /\ TaskIsSound(r, o_now, o_up)
      /\ git.branch \in Nat /\ git.branch >= 1 /\ o_now \in Nat /\ o_now >= 1 /\ p # "timer"
    BY OperatorFacts
<1>2. /\ EmptySteps \subseteq HostSteps /\ "up" \in HostSteps
      /\ EmptySteps \cap (CopySteps \cup CodeSteps) = {} /\ "up" \notin CopySteps \cup EmptySteps \cup CodeSteps
      /\ "stop" \notin CopySteps \cup EmptySteps \cup CodeSteps
      /\ {"drop", "create", "copyin", "load", "remove", "unpack"} \subseteq EmptySteps
    BY DEF HostSteps, TimerSteps, CopySteps, EmptySteps, CodeSteps
<1>3. UNCHANGED <<git, image, previous, o_copies, o_now>>
    BY DEF O!RestoreStep, O!StopApp, O!Drop, O!CreateDatabase, O!CopyIn, O!Load, O!Remove, O!Unpack
<1>4. ASSUME o_up' \in {0, o_up} PROVE GitTypes'
  <2>1. o_up' \in 0 .. git.branch
    BY <1>1, <1>4 DEF HostInv, GitTypes
  <2>2. QED
    BY <1>3, <2>1 DEF HostInv, GitTypes
<1>5. ASSUME o_up' = 0 PROVE O!AppKnowsItsSchema'
    BY <1>5 DEF O!AppKnowsItsSchema
<1>6. ASSUME db' \in Dbs(git.branch), pki' \in 0 .. MaxData, dump' \in Dbs(git.branch),
             dump' = O!NoDatabase \/ dump'.is # "gone"
      PROVE  DataTypes'
    BY <1>3, <1>6 DEF HostInv, DataTypes
<1>7. /\ db \in Dbs(git.branch) /\ pki \in 0 .. MaxData /\ dump \in Dbs(git.branch)
      /\ dump = O!NoDatabase \/ dump.is # "gone"
    BY DEF HostInv, DataTypes
<1>8. /\ O!NoDatabase \in Dbs(git.branch) /\ O!Empty \in Dbs(git.branch)
      /\ r.work.db \in Dbs(git.branch) /\ r.work.pki \in 0 .. MaxData
    BY <1>1, EmptyIs DEF HostTask, Archives
<1>9. ASSUME r.at \in EmptySteps
      PROVE  o_up = 0 /\ r.cmd = "restore" /\ r.work.db.is # "gone"
    BY <1>1, <1>9 DEF TaskIsSound
<1>10. ASSUME NEW a \in EmptySteps \cup {"up"}, O!Goto(p, a), o_up' = 0, DataTypes', r.cmd = "restore"
       PROVE  HostInv'
  <2>1. GitTypes' /\ O!AppKnowsItsSchema'
    BY <1>4, <1>5, <1>10
  <2>2. a \in HostSteps /\ a \notin CopySteps \cup CodeSteps /\ a \notin {"clear", "pack"}
    BY <1>2, <1>10 DEF CopySteps
  <2>3. git'.branch >= git.branch /\ o_now' >= o_now
    BY <1>1, <1>3
  <2>4. QED
    BY <1>1, <1>10, <2>1, <2>2, <2>3, GotoStep
<1>11. CASE O!StopApp
  <2>1. /\ r.at = "stop" /\ o_up' = 0 /\ O!Goto(p, "drop") /\ UNCHANGED <<db, pki, dump>>
    BY <1>11 DEF O!StopApp
  <2>2. r.cmd = "restore"
    BY <1>1, <2>1 DEF TaskIsSound
  <2>3. QED
    BY <1>2, <1>6, <1>7, <1>10, <2>1, <2>2
<1>12. CASE O!Drop
  <2>1. /\ r.at = "drop" /\ db' = O!NoDatabase /\ O!Goto(p, "create") /\ UNCHANGED <<pki, o_up, dump>>
    BY <1>12 DEF O!Drop
  <2>2. QED
    BY <1>2, <1>6, <1>7, <1>8, <1>9, <1>10, <2>1
<1>13. CASE O!CreateDatabase
  <2>1. /\ r.at = "create" /\ db' = O!Empty /\ O!Goto(p, "copyin") /\ UNCHANGED <<pki, o_up, dump>>
    BY <1>13 DEF O!CreateDatabase
  <2>2. QED
    BY <1>2, <1>6, <1>7, <1>8, <1>9, <1>10, <2>1
<1>14. CASE O!CopyIn
  <2>1. /\ r.at = "copyin" /\ dump' = r.work.db /\ O!Goto(p, "load") /\ UNCHANGED <<db, pki, o_up>>
    BY <1>14 DEF O!CopyIn
  <2>2. QED
    BY <1>2, <1>6, <1>7, <1>8, <1>9, <1>10, <2>1
<1>15. CASE O!Load
  <2>1. /\ r.at = "load" /\ db' = dump /\ O!Goto(p, "remove") /\ UNCHANGED <<pki, o_up, dump>>
    BY <1>15 DEF O!Load
  <2>2. QED
    BY <1>2, <1>6, <1>7, <1>8, <1>9, <1>10, <2>1
<1>16. CASE O!Remove
  <2>1. /\ r.at = "remove" /\ dump' = O!NoDatabase /\ O!Goto(p, "unpack") /\ UNCHANGED <<db, pki, o_up>>
    BY <1>16 DEF O!Remove
  <2>2. QED
    BY <1>2, <1>6, <1>7, <1>8, <1>9, <1>10, <2>1
<1>17. CASE O!Unpack
  <2>1. /\ r.at = "unpack" /\ pki' = r.work.pki /\ O!Goto(p, "up") /\ UNCHANGED <<db, dump, o_up>>
    BY <1>17 DEF O!Unpack
  <2>2. QED
    BY <1>2, <1>6, <1>7, <1>8, <1>9, <1>10, <2>1
<1>18. QED
    BY <1>11, <1>12, <1>13, <1>14, <1>15, <1>16, <1>17 DEF O!RestoreStep

LEMMA FailingStep ==
    ASSUME O!HostAssumption, HostInv, NEW p \in O!Procs, O!Fail(p)
    PROVE  HostInv'
<1>1. /\ O!Done(p) /\ UNCHANGED <<pki, git, image, o_up, enabled, previous, o_copies, o_now>>
      /\ db' = IF run[p].at = "load" /\ dump # O!NoDatabase /\ db = O!Empty
               THEN O!Db("partial", dump.data, dump.schema) ELSE db
      /\ dump' = IF run[p].at \in {"fetch", "clear"} THEN O!NoDatabase ELSE dump
    BY DEF O!Fail
<1>2. /\ git.branch \in Nat /\ o_now \in Nat /\ TaskIsSound(run[p], o_now, o_up)
    BY HostFacts
<1>3. /\ db \in Dbs(git.branch) /\ dump \in Dbs(git.branch) /\ O!NoDatabase \in Dbs(git.branch)
      /\ dump = O!NoDatabase \/ dump.is # "gone"
    BY <1>2, EmptyIs DEF HostInv, DataTypes
<1>4. O!Db("partial", dump.data, dump.schema) \in Dbs(git.branch)
    BY <1>3 DEF Dbs, O!Db
<1>5. db' \in Dbs(git.branch) /\ dump' \in Dbs(git.branch) /\ (dump' = O!NoDatabase \/ dump'.is # "gone")
    BY <1>1, <1>3, <1>4
<1>6. GitTypes' /\ DataTypes'
  <2>1. GitTypes'
    BY <1>1 DEF HostInv, GitTypes
  <2>2. DataTypes'
    BY <1>1, <1>5 DEF HostInv, DataTypes
  <2>3. QED
    BY <2>1, <2>2
<1>7. O!AppKnowsItsSchema'
  <2>1. CASE run[p].at = "load"
    <3>1. o_up = 0
      BY <1>2, <2>1 DEF TaskIsSound, EmptySteps
    <3>2. QED
      BY <1>1, <3>1 DEF O!AppKnowsItsSchema
  <2>2. CASE run[p].at # "load"
    BY <1>1, <2>2 DEF HostInv, O!AppKnowsItsSchema
  <2>3. QED
    BY <2>1, <2>2
<1>8. git'.branch >= git.branch /\ o_now' >= o_now
    BY <1>1, <1>2
<1>9. QED
    BY <1>1, <1>6, <1>7, <1>8, DoneStep

LEMMA TasksStay ==
    ASSUME O!HostAssumption, HostInv, GitTypes', DataTypes', O!AppKnowsItsSchema', UNCHANGED <<run, o_up>>,
           git'.branch = git.branch, o_now' >= o_now
    PROVE  HostInv'
<1>1. o_now \in Nat /\ o_now' \in Nat
    BY DEF HostInv, DataTypes
<1>2. 1 .. o_now \subseteq 1 .. o_now'
    BY <1>1
<1>3. \A p \in O!Procs : TaskIsSound(run[p], o_now', o_up')
    BY <1>2 DEF HostInv, TaskTypes, TaskIsSound
<1>4. TaskTypes'
    BY <1>3 DEF HostInv, TaskTypes
<1>5. QED
    BY <1>4 DEF HostInv

LEMMA HostStep ==
    ASSUME O!HostAssumption, HostInv, [O!Next]_(O!vars)
    PROVE  HostInv'
<1>1. CASE O!BackupEnable
  <2>1. UNCHANGED <<db, pki, git, image, o_up, previous, o_copies, dump, run, o_now>>
    BY <1>1 DEF O!BackupEnable
  <2>2. GitTypes' /\ DataTypes' /\ O!AppKnowsItsSchema'
    BY <2>1 DEF HostInv, GitTypes, DataTypes, O!AppKnowsItsSchema
  <2>3. QED
    BY <2>1, <2>2, TasksStay, OperatorFacts
<1>2. CASE O!SwitchBack
  <2>1. /\ git' = [git EXCEPT !.at = 0]
        /\ UNCHANGED <<db, pki, image, o_up, previous, o_copies, dump, run, o_now>>
    BY <1>2 DEF O!SwitchBack
  <2>2. /\ git' \in [branch : Nat, remote : Nat, at : Nat] /\ git'.branch = git.branch
        /\ git'.remote = git.remote /\ git'.at = 0
    BY <2>1, OperatorFacts
  <2>3. GitTypes'
    BY <2>1, <2>2, OperatorFacts DEF GitTypes
  <2>4. DataTypes' /\ O!AppKnowsItsSchema'
    BY <2>1, <2>2 DEF HostInv, DataTypes, O!AppKnowsItsSchema
  <2>5. QED
    BY <2>1, <2>2, <2>3, <2>4, TasksStay, OperatorFacts
<1>3. CASE O!Write
  <2>1. /\ o_up # 0 /\ db.is = "whole" /\ db.data < MaxData /\ db' = [db EXCEPT !.data = db.data + 1]
        /\ pki' = db.data + 1
        /\ UNCHANGED <<git, image, o_up, previous, o_copies, dump, run, o_now>>
    BY <1>3 DEF O!Write
  <2>2. db \in Dbs(git.branch) /\ MaxData \in Nat
    BY DEF HostInv, DataTypes, O!HostAssumption
  <2>3. db.data + 1 \in 0 .. MaxData
    BY <2>1, <2>2 DEF Dbs
  <2>4. db' \in Dbs(git.branch) /\ db'.is = db.is /\ db'.schema = db.schema
    BY <2>1, <2>2, <2>3 DEF Dbs
  <2>5. GitTypes'
    BY <2>1 DEF HostInv, GitTypes
  <2>6. DataTypes'
    BY <2>1, <2>3, <2>4 DEF HostInv, DataTypes
  <2>7. O!AppKnowsItsSchema'
    BY <2>1, <2>4 DEF HostInv, O!AppKnowsItsSchema
  <2>8. QED
    BY <2>1, <2>5, <2>6, <2>7, TasksStay, OperatorFacts
<1>4. CASE O!Publish
  <2>1. /\ git.remote < MaxRev /\ git' = [git EXCEPT !.remote = git.remote + 1]
        /\ UNCHANGED <<db, pki, image, o_up, previous, o_copies, dump, run, o_now>>
    BY <1>4 DEF O!Publish
  <2>2. /\ git' \in [branch : Nat, remote : Nat, at : Nat] /\ git'.branch = git.branch
        /\ git'.remote = git.remote + 1 /\ git'.at = git.at
    BY <2>1, OperatorFacts
  <2>3. GitTypes'
    BY <2>1, <2>2, OperatorFacts DEF GitTypes
  <2>4. DataTypes' /\ O!AppKnowsItsSchema'
    BY <2>1, <2>2 DEF HostInv, DataTypes, O!AppKnowsItsSchema
  <2>5. QED
    BY <2>1, <2>2, <2>3, <2>4, TasksStay, OperatorFacts
<1>5. CASE O!Tick
  <2>1. o_now' = o_now + 1 /\ UNCHANGED <<db, pki, git, image, o_up, previous, o_copies, dump, run>>
    BY <1>5 DEF O!Tick, O!host
  <2>2. o_now' \in Nat \ {0}
    BY <2>1, OperatorFacts
  <2>3. GitTypes' /\ DataTypes' /\ O!AppKnowsItsSchema'
    BY <2>1, <2>2 DEF HostInv, GitTypes, DataTypes, O!AppKnowsItsSchema
  <2>4. QED
    BY <2>1, <2>3, TasksStay, OperatorFacts
<1>6. CASE UNCHANGED O!vars
  <2>1. UNCHANGED <<db, pki, git, image, o_up, enabled, previous, o_copies, dump, run, o_now>>
    BY <1>6 DEF O!vars, O!host
  <2>2. QED
    BY <2>1, ServerStays, TasksStay
<1>7. QED
    BY <1>1, <1>2, <1>3, <1>4, <1>5, <1>6, CommandStep, CopyingStep, FailingStep, UpdatingStep,
       RestorationStep DEF O!Next

LEMMA ServerStarts ==
    ASSUME O!HostAssumption, O!Init
    PROVE  HostInv
<1> USE DEF O!Init
<1>1. MaxRev \in Nat /\ MaxRev >= 1 /\ MaxData \in Nat /\ MaxData >= 1
    BY DEF O!HostAssumption
<1>2. /\ git \in [branch : Nat, remote : Nat, at : Nat] /\ git.branch = 1 /\ git.remote = 1 /\ git.at = 0
    OBVIOUS
<1>3. /\ O!Missing \in CopyFile /\ O!KeptElsewhere \in CopyFile
      /\ O!NoDatabase \in Dbs(1) /\ O!Schema(1) \in Nat
      /\ O!Idle \in HostTask(1) /\ O!Idle.cmd = "none" /\ O!Idle.at = "idle"
    BY EmptyIs, IdleIs, SchemaGrows
<1>4. GitTypes
    BY <1>1, <1>2, <1>3 DEF GitTypes, O!NoRecord
<1>5. O!Db("whole", 1, O!Schema(1)) \in Dbs(1) /\ O!Db("whole", 0, 0) \in Dbs(1)
    BY <1>1, <1>3 DEF O!Db, Dbs
<1>6. [db |-> O!Db("whole", 0, 0), pki |-> 0] \in Archives(1) /\ O!Db("whole", 0, 0).is = "whole"
    BY <1>1, <1>5 DEF Archives, O!Db
<1>7. DOMAIN o_copies = {O!KeptElsewhere} /\ IsFiniteSet({O!KeptElsewhere})
    BY FS_Singleton
<1>8. DataTypes
    BY <1>1, <1>2, <1>3, <1>5, <1>6, <1>7 DEF DataTypes
<1>9. TaskIsSound(O!Idle, o_now, o_up)
    BY <1>3 DEF TaskIsSound, CopySteps, EmptySteps, CodeSteps
<1>10. TaskTypes
    BY <1>2, <1>3, <1>9 DEF TaskTypes, O!Procs, TimerSteps
<1>11. O!AppKnowsItsSchema
    BY DEF O!AppKnowsItsSchema, O!Db
<1>12. QED
    BY <1>4, <1>8, <1>10, <1>11 DEF HostInv

\* Host: whatever is interrupted, repeated or published meanwhile, and with the timer at work
\* beside the operator, the app runs only on a database with exactly the migrations of its
\* revision, and no copy is of a database that is not there (Ocm.update, rollback, backup.create,
\* restore).
THEOREM ServerIsTyped ==
    ASSUME O!HostAssumption
    PROVE  O!Spec => [](O!TypeOK /\ O!AppKnowsItsSchema)
<1>1. O!Init => HostInv
    BY ServerStarts
<1>2. HostInv /\ [O!Next]_(O!vars) => HostInv'
    BY HostStep
<1>3. HostInv => O!TypeOK /\ O!AppKnowsItsSchema
  <2> SUFFICES ASSUME HostInv PROVE O!TypeOK
    BY DEF HostInv
  <2>1. git.branch \in Nat /\ MaxRev \in Nat /\ git.branch <= MaxRev /\ git.branch >= 1
    BY OperatorFacts
  <2>2. O!Schema(git.branch) \in Nat /\ O!Schema(MaxRev) \in Nat /\ O!Schema(git.branch) <= O!Schema(MaxRev)
    BY <2>1, SchemaGrows
  <2>3. db \in Dbs(git.branch) /\ pki \in 0 .. MaxData
    BY DEF HostInv, DataTypes
  <2>4. db.is \in {"whole", "empty", "partial", "gone"} /\ db.data \in 0 .. MaxData /\ db.schema \in 0 .. O!Schema(MaxRev)
    BY <2>2, <2>3 DEF Dbs
  <2>5. /\ git.branch \in 1 .. git.remote /\ git.at \in 0 .. git.branch
        /\ image \in 1 .. git.branch /\ o_up \in 0 .. git.branch /\ previous.rev \in 0 .. git.branch
    BY OperatorFacts
  <2>6. \A f \in DOMAIN o_copies : o_copies[f].db.is # "gone"
    BY DEF HostInv, DataTypes
  <2>7. \A p \in O!Procs : run[p].at \in {"dump", "fetch", "clear", "pack"} => run[p].made.at \in 1 .. o_now
    BY DEF HostInv, TaskTypes, TaskIsSound, CopySteps
  <2>8. QED
    BY <2>3, <2>4, <2>5, <2>6, <2>7 DEF O!TypeOK
<1>4. QED
    BY <1>1, <1>2, <1>3, PTL DEF O!Spec

----------------------------------------------------------------------------
LEMMA SameSize == \A S : O!Cardinality(S) = Cardinality(S)
    BY DEF O!Cardinality, Cardinality

\* What the copies of a server where the timer waits for the operator rest on.
LEMMA FilesFacts ==
    ASSUME O!HostAssumption, HostInv, CopiesInv
    PROVE  /\ IsFiniteSet(DOMAIN o_copies) /\ DOMAIN o_copies \subseteq CopyFile
           /\ \A f \in DOMAIN o_copies : f.kind \in {"none", "elsewhere", "daily", "emergency"} /\ f.at \in Nat /\ f.at <= o_now
           /\ o_now \in Nat /\ Keep \in Nat /\ Keep >= 1
           /\ previous.file # O!Missing => previous.file.kind = "daily" /\ previous.file.at <= o_now
           /\ previous.file \in CopyFile
           /\ \A n \in Schemas : n \in Nat
<1>1. /\ IsFiniteSet(DOMAIN o_copies) /\ DOMAIN o_copies \subseteq CopyFile
      /\ \A f \in CopyFile : f.kind \in {"none", "elsewhere", "daily", "emergency"} /\ f.at \in Nat
      /\ o_now \in Nat /\ Keep \in Nat /\ Keep >= 1
    BY DEF HostInv, DataTypes, CopyFile, O!HostAssumption
<1>2. /\ \A f \in DOMAIN o_copies : f.at <= o_now
      /\ previous.file # O!Missing => previous.file.kind = "daily" /\ previous.file.at <= o_now
    BY DEF CopiesInv, FilesArePast
<1>3. previous.file \in CopyFile
    BY DEF HostInv, GitTypes
<1>4. ASSUME NEW n \in Schemas PROVE n \in Nat
  <2>1. O!Schema(git.branch) \in Nat /\ git.branch \in Nat
    BY SchemaGrows DEF HostInv, GitTypes
  <2>2. O!Schema(image) \in Nat
    BY <2>1, OperatorFacts
  <2>3. \A d \in Dbs(git.branch) : d.schema \in Nat
    BY <2>1 DEF Dbs
  <2>4. /\ db \in Dbs(git.branch) /\ dump \in Dbs(git.branch)
        /\ \A f \in DOMAIN o_copies : o_copies[f].db \in Dbs(git.branch)
        /\ \A p \in O!Procs : run[p].got \in Dbs(git.branch) /\ run[p].work.db \in Dbs(git.branch)
    BY DEF HostInv, DataTypes, TaskTypes, Archives, HostTask
  <2>5. QED
    BY <2>2, <2>3, <2>4 DEF Schemas
<1>5. QED
    BY <1>1, <1>2, <1>3, <1>4

\* Process p, at work alone, goes on with todo.
Alone(p) == \A q \in O!Procs \ {p} : run[q] = O!Idle
GoesOn(p, todo) ==
    /\ Alone(p) /\ run' = [run EXCEPT ![p] = todo]
    /\ TaskIsTrue(todo, db', pki', dump') /\ TaskIsOfNow(todo, o_now', DOMAIN o_copies')

LEMMA IdleIsSound ==
    ASSUME O!HostAssumption, NEW base, NEW secret, NEW loaded, NEW minute, NEW kept
    PROVE  TaskIsTrue(O!Idle, base, secret, loaded) /\ TaskIsOfNow(O!Idle, minute, kept)
<1>1. O!Idle.cmd = "none" /\ O!Idle.at = "idle"
    BY IdleIs
<1>2. QED
    BY <1>1 DEF TaskIsTrue, TaskIsOfNow, CopySteps

LEMMA WorkerIsAlone ==
    ASSUME HostInv, CopiesInv, NEW p \in O!Procs, run[p] # O!Idle
    PROVE  Alone(p)
    BY DEF Alone, CopiesInv, TasksAreSound, O!Procs

LEMMA TasksSound ==
    ASSUME O!HostAssumption, HostInv, NEW p \in O!Procs, NEW todo, GoesOn(p, todo)
    PROVE  /\ TasksAreSound'
           /\ \A q \in O!Procs : run'[q] = IF q = p THEN todo ELSE O!Idle
<1>1. DOMAIN run = O!Procs
    BY DEF HostInv, TaskTypes
<1>2. \A q \in O!Procs : run'[q] = IF q = p THEN todo ELSE O!Idle
    BY <1>1 DEF GoesOn, Alone
<1>3. \A q \in O!Procs : TaskIsTrue(run'[q], db', pki', dump') /\ TaskIsOfNow(run'[q], o_now', DOMAIN o_copies')
    BY <1>2, IdleIsSound DEF GoesOn
<1>4. run'["operator"] = O!Idle \/ run'["timer"] = O!Idle
    BY <1>2 DEF O!Procs
<1>5. QED
    BY <1>2, <1>3, <1>4 DEF TasksAreSound

\* The schemas that the step leaves were there before.
LEMMA SchemasStay ==
    ASSUME O!HostAssumption, HostInv, NEW p \in O!Procs, NEW todo, GoesOn(p, todo),
           O!Schema(image') \in Schemas, db'.schema \in Schemas, dump'.schema \in Schemas,
           todo.got.schema \in Schemas, todo.work.db.schema \in Schemas,
           \A f \in DOMAIN o_copies' : o_copies'[f].db.schema \in Schemas
    PROVE  \A n \in Schemas' : n \in Schemas
<1>1. \A q \in O!Procs : run'[q] = IF q = p THEN todo ELSE O!Idle
    BY TasksSound
<1>2. O!Idle.got.schema = 0 /\ O!Idle.work.db.schema = 0 /\ 0 \in Schemas
  <2>1. O!NoDatabase.schema = 0 /\ O!Nothing.db = O!NoDatabase
    BY DEF O!NoDatabase, O!Db, O!Nothing
  <2>2. O!Idle.got = O!NoDatabase /\ O!Idle.work = O!Nothing
    BY DEF O!Idle, O!Task
  <2>3. QED
    BY <2>1, <2>2 DEF Schemas
<1>3. \A q \in O!Procs : run'[q].got.schema \in Schemas /\ run'[q].work.db.schema \in Schemas
    BY <1>1, <1>2
<1>4. ASSUME NEW n \in Schemas' PROVE n \in Schemas
  <2>1. \/ n \in {0, O!Schema(image'), db'.schema, dump'.schema}
        \/ \E f \in DOMAIN o_copies' : n = o_copies'[f].db.schema
        \/ \E q \in O!Procs : n = run'[q].got.schema \/ n = run'[q].work.db.schema
    BY DEF Schemas, O!Schema
  <2>2. QED
    BY <1>2, <1>3, <2>1
<1>5. QED
    BY <1>4

\* A step that leaves the copies and the record alone.
LEMMA QuietStep ==
    ASSUME O!HostAssumption, HostInv, CopiesInv, NEW p \in O!Procs, NEW todo, GoesOn(p, todo),
           UNCHANGED <<o_copies, previous, o_now>>,
           O!Schema(image') \in Schemas, db'.schema \in Schemas, dump'.schema \in Schemas,
           todo.got.schema \in Schemas, todo.work.db.schema \in Schemas
    PROVE  CopiesInv'
<1>1. TasksAreSound'
    BY TasksSound
<1>2. FilesArePast'
    BY DEF CopiesInv, FilesArePast
<1>3. \A f \in DOMAIN o_copies' : o_copies'[f].db.schema \in Schemas
    BY DEF Schemas
<1>4. RecordedIsNew'
  <2>1. \A n \in Schemas' : n \in Schemas
    BY <1>3, SchemasStay
  <2>2. QED
    BY <2>1 DEF CopiesInv, RecordedIsNew, O!Schema
<1>5. O!UpdateCanGoBack'
    BY DEF CopiesInv, O!UpdateCanGoBack, O!Newer, O!Schema
<1>6. QED
    BY <1>1, <1>2, <1>4, <1>5 DEF CopiesInv

\* Where the schemas are seen.
LEMMA SchemasAre ==
    ASSUME NEW p \in O!Procs
    PROVE  /\ 0 \in Schemas /\ O!Schema(image) \in Schemas /\ db.schema \in Schemas /\ dump.schema \in Schemas
           /\ run[p].got.schema \in Schemas /\ run[p].work.db.schema \in Schemas
           /\ \A f \in DOMAIN o_copies : o_copies[f].db.schema \in Schemas
    BY DEF Schemas

\* Pruning leaves as many newer daily copies as are kept: those newer than the newest copy
\* that is given up.
LEMMA NewerStay ==
    ASSUME O!HostAssumption, HostInv, CopiesInv, NEW f, f.kind = "daily", f.at \in Nat,
           NEW K, K \subseteq DOMAIN o_copies,
           \A g \in DOMAIN o_copies : g.kind = "daily" /\ g \notin K => Cardinality(O!Newer(g)) >= Keep,
           Cardinality(O!Newer(f)) >= Keep
    PROVE  Cardinality({g \in K : g.kind = f.kind /\ g.at > f.at}) >= Keep
<1> DEFINE S == O!Newer(f)
           W == {g \in K : g.kind = f.kind /\ g.at > f.at}
<1>1. /\ IsFiniteSet(DOMAIN o_copies) /\ o_now \in Nat /\ Keep \in Nat
      /\ \A g \in DOMAIN o_copies : g.at \in Nat /\ g.at <= o_now
    BY FilesFacts
<1>2. W \subseteq DOMAIN o_copies /\ W \subseteq S
    BY DEF O!Newer
<1>3. IsFiniteSet(W) /\ Cardinality(W) \in Nat
    BY <1>1, <1>2, FS_Subset, FS_CardinalityType
<1>4. CASE S \subseteq W
  <2>1. S = W
    BY <1>2, <1>4
  <2>2. QED
    BY <2>1
<1>5. CASE ~(S \subseteq W)
  <2> DEFINE G == {g \in S : g \notin W}
             T == {n \in Nat : \E g \in G : n = o_now - g.at}
  <2>1. S \subseteq DOMAIN o_copies
    BY DEF O!Newer
  <2>2. PICK x \in S : x \notin W
    BY <1>5
  <2>3. o_now - x.at \in T
    BY <1>1, <2>1, <2>2
  <2>4. PICK n \in T : \A k \in T : n <= k
    <3>1. T \subseteq Nat /\ T # {}
      BY <2>3
    <3> HIDE DEF T
    <3>2. QED
      BY <3>1, LeastNumber
  <2>5. PICK m \in G : n = o_now - m.at
    BY <2>4
  <2>6. \A g \in G : g.at <= m.at
    <3>1. ASSUME NEW g \in G PROVE g.at <= m.at
      <4>1. g.at \in Nat /\ m.at \in Nat /\ g.at <= o_now /\ m.at <= o_now
        BY <1>1, <2>1, <2>5
      <4>2. o_now - g.at \in T
        BY <1>1, <4>1
      <4>3. n <= o_now - g.at
        BY <2>4, <4>2
      <4>4. QED
        BY <1>1, <2>5, <4>1, <4>3
    <3>2. QED
      BY <3>1
  <2>7. m \in DOMAIN o_copies /\ m.kind = "daily" /\ m.at > f.at /\ m \notin K
    BY <2>1, <2>5 DEF O!Newer
  <2>8. Cardinality(O!Newer(m)) >= Keep
    BY <2>7
  <2>9. O!Newer(m) \subseteq W
    <3>1. ASSUME NEW g \in O!Newer(m) PROVE g \in W
      <4>1. g \in DOMAIN o_copies /\ g.kind = "daily" /\ g.at > m.at
        BY <2>7 DEF O!Newer
      <4>2. g.at > f.at
        BY <1>1, <2>7, <4>1
      <4>3. g \in S
        BY <4>1, <4>2 DEF O!Newer
      <4>4. g \notin G
        BY <1>1, <2>6, <2>7, <4>1
      <4>5. QED
        BY <4>3, <4>4
    <3>2. QED
      BY <3>1
  <2>10. Cardinality(O!Newer(m)) <= Cardinality(W) /\ IsFiniteSet(O!Newer(m))
    <3> HIDE DEF W
    <3>1. QED
      BY <1>3, <2>9, FS_Subset
  <2>11. Cardinality(O!Newer(m)) \in Nat
    BY <2>10, FS_CardinalityType
  <2>12. QED
    BY <1>1, <1>3, <2>8, <2>10, <2>11
<1>6. QED
    BY <1>4, <1>5

\* A process goes to another step, with what it had.
LEMMA GoingOn ==
    ASSUME O!HostAssumption, HostInv, CopiesInv, NEW p \in O!Procs, run[p] # O!Idle,
           NEW a \in HostSteps, O!Goto(p, a), UNCHANGED <<o_copies, previous, o_now>>,
           O!Schema(image') \in Schemas, db'.schema \in Schemas, dump'.schema \in Schemas,
           a \in CopySteps => run[p].at \in CopySteps,
           a = "record" => run[p].cmd = "update" /\ run[p].at \in OfUpdate,
           a = "offsite" => run[p].at \in OfUpdate, a # "prune",
           run[p].cmd = "restore" =>
              /\ a = "load" => dump' = run[p].work.db
              /\ a \in {"remove", "unpack", "up"} => db' = run[p].work.db
              /\ a = "up" => pki' = run[p].work.pki
    PROVE  CopiesInv'
<1> DEFINE r == run[p]
           n == [r EXCEPT !.at = a]
<1>1. r \in HostTask(git.branch) /\ run' = [run EXCEPT ![p] = n]
    BY HostFacts DEF O!Goto
<1>2. TaskIsOfNow(r, o_now, DOMAIN o_copies) /\ r.got.schema \in Schemas /\ r.work.db.schema \in Schemas
    BY SchemasAre DEF CopiesInv, TasksAreSound
<1> HIDE DEF r
<1>3. n.at = a /\ n.cmd = r.cmd /\ n.made = r.made /\ n.got = r.got /\ n.work = r.work
    BY <1>1, TaskAt
<1> HIDE DEF n
<1>4. Alone(p)
    BY WorkerIsAlone DEF r
<1>5. TaskIsTrue(n, db', pki', dump')
    BY <1>3 DEF TaskIsTrue, r
<1>6. TaskIsOfNow(n, o_now', DOMAIN o_copies')
    BY <1>2, <1>3 DEF TaskIsOfNow, OfUpdate, r
<1>7. GoesOn(p, n)
    BY <1>1, <1>4, <1>5, <1>6 DEF GoesOn
<1>8. QED
    BY <1>2, <1>3, <1>7, QuietStep

\* A process ends.
LEMMA Ending ==
    ASSUME O!HostAssumption, HostInv, CopiesInv, NEW p \in O!Procs, run[p] # O!Idle, O!Done(p),
           UNCHANGED <<o_copies, previous, o_now>>,
           O!Schema(image') \in Schemas, db'.schema \in Schemas, dump'.schema \in Schemas
    PROVE  CopiesInv'
<1>1. O!Idle.got.schema = 0 /\ O!Idle.work.db.schema = 0 /\ 0 \in Schemas
    BY SchemasAre DEF O!Idle, O!Task, O!NoDatabase, O!Db, O!Nothing
<1>2. GoesOn(p, O!Idle)
    BY WorkerIsAlone, IdleIsSound DEF GoesOn, O!Done
<1>3. QED
    BY <1>1, <1>2, QuietStep

\* A restoration that starts brings nothing back yet.
LEMMA RestoringIsSound ==
    ASSUME O!HostAssumption, HostInv, NEW file \in DOMAIN o_copies, NEW emergency \in BOOLEAN,
           NEW base, NEW secret, NEW loaded
    PROVE  LET r == O!Restoring(file, emergency)
           IN  /\ TaskIsTrue(r, base, secret, loaded) /\ TaskIsOfNow(r, o_now, DOMAIN o_copies)
               /\ r.got.schema \in Schemas /\ r.work.db.schema \in Schemas
<1> DEFINE r == O!Restoring(file, emergency)
<1>1. /\ r.cmd = "restore" /\ r.at = (IF emergency THEN "dump" ELSE "stop")
      /\ r.made = O!Emergency /\ r.got = O!NoDatabase /\ r.work = o_copies[file]
    BY RestoringIs
<1> HIDE DEF r
<1>2. TaskIsTrue(r, base, secret, loaded)
    BY <1>1 DEF TaskIsTrue
<1>3. TaskIsOfNow(r, o_now, DOMAIN o_copies)
    BY <1>1 DEF TaskIsOfNow, CopySteps, O!Emergency
<1>4. "operator" \in O!Procs
    BY DEF O!Procs
<1>5. r.got.schema \in Schemas /\ r.work.db.schema \in Schemas
    BY <1>1, <1>4, SchemasAre DEF O!NoDatabase, O!Db
<1>6. QED
    BY <1>2, <1>3, <1>5 DEF r

\* A command starts when no other one is at work.
LEMMA CommandKeepsCopies ==
    ASSUME O!HostAssumption, ~Together, HostInv, CopiesInv, O!Command \/ O!RestoreAgain \/ O!TimerBackup
    PROVE  CopiesInv'
<1>1. ASSUME NEW p \in O!Procs, NEW todo, O!Begin(p, todo), TaskIsTrue(todo, db, pki, dump),
             TaskIsOfNow(todo, o_now, DOMAIN o_copies),
             todo.got.schema \in Schemas, todo.work.db.schema \in Schemas
      PROVE  CopiesInv'
  <2>1. /\ run' = [run EXCEPT ![p] = todo] /\ Alone(p)
        /\ UNCHANGED <<db, pki, git, image, o_up, enabled, previous, o_copies, dump, o_now>>
    BY <1>1 DEF O!Begin, O!host, Alone
  <2>2. GoesOn(p, todo)
    BY <1>1, <2>1 DEF GoesOn
  <2>3. O!Schema(image') \in Schemas /\ db'.schema \in Schemas /\ dump'.schema \in Schemas
    BY <2>1, <1>1, SchemasAre
  <2>4. QED
    BY <1>1, <2>1, <2>2, <2>3, QuietStep
<1>2. "operator" \in O!Procs /\ "timer" \in O!Procs
    BY DEF O!Procs
<1>3. /\ git.branch \in Nat /\ o_now \in Nat
      /\ O!Missing \in CopyFile /\ O!Nothing \in Archives(git.branch) /\ O!Daily \in CopyFile
    BY <1>2, HostFacts, EmptyIs, MinuteIs
<1>4. O!NoDatabase.schema = 0 /\ O!Nothing.db.schema = 0 /\ 0 \in Schemas
    BY <1>2, SchemasAre DEF O!NoDatabase, O!Db, O!Nothing
<1>5. {"dump", "record", "checkout", "stop"} \subseteq HostSteps
    BY DEF HostSteps, TimerSteps, CopySteps
<1>6. ASSUME NEW cmd \in {"backup", "update"}, NEW p \in O!Procs, O!Begin(p, O!MakingCopy(cmd))
      PROVE  CopiesInv'
  <2> DEFINE r == O!MakingCopy(cmd)
  <2>1. r.cmd = cmd /\ r.at = "dump" /\ r.made = O!Daily /\ r.got = O!NoDatabase /\ r.work = O!Nothing
    BY <1>3, <1>5, TaskIs DEF O!MakingCopy
  <2>2. TaskIsTrue(r, db, pki, dump)
    BY <2>1 DEF TaskIsTrue
  <2>3. TaskIsOfNow(r, o_now, DOMAIN o_copies)
    BY <2>1 DEF TaskIsOfNow, OfUpdate, O!Daily
  <2> HIDE DEF r
  <2>4. QED
    BY <1>1, <1>4, <1>6, <2>1, <2>2, <2>3 DEF r
<1>7. ASSUME NEW cmd \in {"update", "rollback"}, NEW at \in {"record", "checkout"}, at = "record" => cmd = "update",
             O!Begin("operator", O!Task(cmd, at, O!Missing, O!Nothing))
      PROVE  CopiesInv'
  <2> DEFINE r == O!Task(cmd, at, O!Missing, O!Nothing)
  <2>1. r.cmd = cmd /\ r.at = at /\ r.made = O!Missing /\ r.got = O!NoDatabase /\ r.work = O!Nothing
    BY <1>3, <1>5, TaskIs
  <2>2. TaskIsTrue(r, db, pki, dump)
    BY <2>1 DEF TaskIsTrue
  <2>3. TaskIsOfNow(r, o_now, DOMAIN o_copies)
    BY <2>1, <1>7 DEF TaskIsOfNow, CopySteps
  <2> HIDE DEF r
  <2>4. QED
    BY <1>1, <1>2, <1>4, <1>7, <2>1, <2>2, <2>3 DEF r
<1>8. ASSUME NEW file \in DOMAIN o_copies, NEW emergency \in BOOLEAN,
             O!Begin("operator", O!Restoring(file, emergency))
      PROVE  CopiesInv'
    BY <1>1, <1>2, <1>4, <1>8, RestoringIsSound
<1>9. CASE O!Backup
    BY <1>2, <1>6, <1>9 DEF O!Backup, O!Type
<1>10. CASE O!TimerBackup
    BY <1>2, <1>6, <1>10 DEF O!TimerBackup
<1>11. CASE O!Update
  <2>1. O!Begin("operator", IF enabled THEN O!MakingCopy("update")
                            ELSE O!Task("update", "record", O!Missing, O!Nothing))
    BY <1>11 DEF O!Update, O!Type
  <2>2. CASE enabled
    BY <1>2, <1>6, <2>1, <2>2
  <2>3. CASE ~enabled
    BY <1>7, <2>1, <2>3
  <2>4. QED
    BY <2>2, <2>3
<1>12. CASE O!Rollback
    BY <1>7, <1>12 DEF O!Rollback, O!Type
<1>13. ASSUME NEW file \in DOMAIN o_copies, NEW emergency \in BOOLEAN, O!Restore(file, emergency)
       PROVE  CopiesInv'
    BY <1>8, <1>13 DEF O!Restore, O!Type
<1>14. CASE O!RestoreAgain
  <2>1. O!KeptElsewhere \in DOMAIN o_copies
    BY DEF HostInv, DataTypes
  <2>2. QED
    BY <1>8, <1>14, <2>1 DEF O!RestoreAgain
<1>15. QED
    BY <1>9, <1>10, <1>11, <1>12, <1>13, <1>14 DEF O!Command

\* A restoration.
LEMMA RestoringKeepsCopies ==
    ASSUME O!HostAssumption, HostInv, CopiesInv, O!RestoreStep
    PROVE  CopiesInv'
<1> DEFINE r == run["operator"]
<1>1. "operator" \in O!Procs /\ r \in HostTask(git.branch) /\ TaskIsSound(r, o_now, o_up)
    BY OperatorFacts
<1>2. UNCHANGED <<git, image, previous, o_copies, o_now>>
    BY DEF O!RestoreStep, O!StopApp, O!Drop, O!CreateDatabase, O!CopyIn, O!Load, O!Remove, O!Unpack
<1>3. /\ 0 \in Schemas /\ O!Schema(image') \in Schemas /\ db.schema \in Schemas /\ dump.schema \in Schemas
      /\ r.work.db.schema \in Schemas
    BY <1>1, <1>2, SchemasAre
<1>4. EmptySteps \cup {"stop", "up"} \subseteq HostSteps /\ "idle" \notin EmptySteps \cup {"stop"}
    BY DEF HostSteps, EmptySteps
<1>5. O!Idle.at = "idle"
    BY DEF O!Idle, O!Task
<1>6. r.at \in EmptySteps \cup {"stop"} => r.cmd = "restore" /\ r # O!Idle
    BY <1>1, <1>4, <1>5 DEF TaskIsSound
<1>7. TaskIsTrue(r, db, pki, dump)
    BY <1>1 DEF CopiesInv, TasksAreSound
<1>8. ASSUME NEW a \in EmptySteps \cup {"up"}, O!Goto("operator", a), r # O!Idle,
             db'.schema \in Schemas, dump'.schema \in Schemas,
             /\ a = "load" => dump' = r.work.db
             /\ a \in {"remove", "unpack", "up"} => db' = r.work.db
             /\ a = "up" => pki' = r.work.pki
      PROVE  CopiesInv'
  <2>1. a \in HostSteps /\ a \notin CopySteps /\ a \notin {"record", "offsite", "prune"}
    BY <1>4, <1>8 DEF EmptySteps, CopySteps
  <2>2. QED
    BY <1>1, <1>2, <1>3, <1>8, <2>1, GoingOn
<1>9. {"drop", "create", "copyin", "load", "remove", "unpack"} \subseteq EmptySteps
    BY DEF EmptySteps
<1> HIDE DEF r
<1>10. CASE O!StopApp
  <2>1. r.at = "stop" /\ O!Goto("operator", "drop") /\ UNCHANGED <<db, dump>>
    BY <1>10 DEF O!StopApp, r
  <2>2. QED
    BY <1>3, <1>6, <1>8, <1>9, <2>1
<1>11. CASE O!Drop
  <2>1. r.at = "drop" /\ O!Goto("operator", "create") /\ db' = O!NoDatabase /\ UNCHANGED dump
    BY <1>11 DEF O!Drop, r
  <2>2. db'.schema = 0
    BY <2>1 DEF O!NoDatabase, O!Db
  <2>3. QED
    BY <1>3, <1>6, <1>8, <1>9, <2>1, <2>2
<1>12. CASE O!CreateDatabase
  <2>1. r.at = "create" /\ O!Goto("operator", "copyin") /\ db' = O!Empty /\ UNCHANGED dump
    BY <1>12 DEF O!CreateDatabase, r
  <2>2. db'.schema = 0
    BY <2>1 DEF O!Empty, O!Db
  <2>3. QED
    BY <1>3, <1>6, <1>8, <1>9, <2>1, <2>2
<1>13. CASE O!CopyIn
  <2>1. r.at = "copyin" /\ O!Goto("operator", "load") /\ dump' = r.work.db /\ UNCHANGED db
    BY <1>13 DEF O!CopyIn, r
  <2>2. QED
    BY <1>3, <1>6, <1>8, <1>9, <2>1
<1>14. CASE O!Load
  <2>1. r.at = "load" /\ O!Goto("operator", "remove") /\ db' = dump /\ UNCHANGED dump
    BY <1>14 DEF O!Load, r
  <2>2. dump = r.work.db
    BY <1>6, <1>7, <1>9, <2>1 DEF TaskIsTrue
  <2>3. QED
    BY <1>3, <1>6, <1>8, <1>9, <2>1, <2>2
<1>15. CASE O!Remove
  <2>1. r.at = "remove" /\ O!Goto("operator", "unpack") /\ dump' = O!NoDatabase /\ UNCHANGED db
    BY <1>15 DEF O!Remove, r
  <2>2. db = r.work.db /\ dump'.schema = 0
    BY <1>6, <1>7, <1>9, <2>1 DEF TaskIsTrue, O!NoDatabase, O!Db
  <2>3. QED
    BY <1>3, <1>6, <1>8, <1>9, <2>1, <2>2
<1>16. CASE O!Unpack
  <2>1. r.at = "unpack" /\ O!Goto("operator", "up") /\ pki' = r.work.pki /\ UNCHANGED <<db, dump>>
    BY <1>16 DEF O!Unpack, r
  <2>2. db = r.work.db
    BY <1>6, <1>7, <1>9, <2>1 DEF TaskIsTrue
  <2>3. QED
    BY <1>3, <1>6, <1>8, <1>9, <2>1, <2>2
<1>17. QED
    BY <1>10, <1>11, <1>12, <1>13, <1>14, <1>15, <1>16 DEF O!RestoreStep

LEMMA FailingKeepsCopies ==
    ASSUME O!HostAssumption, HostInv, CopiesInv, NEW p \in O!Procs, O!Fail(p)
    PROVE  CopiesInv'
<1>1. /\ O!Done(p) /\ UNCHANGED <<image, previous, o_copies, o_now>>
      /\ db' = O!Db("partial", dump.data, dump.schema) \/ db' = db
      /\ dump' = O!NoDatabase \/ dump' = dump
      /\ run[p].at # "idle"
    BY DEF O!Fail
<1>2. run[p] # O!Idle
    BY <1>1 DEF O!Idle, O!Task
<1>3. db'.schema \in Schemas /\ dump'.schema \in Schemas /\ O!Schema(image') \in Schemas
    BY <1>1, SchemasAre DEF O!NoDatabase, O!Db
<1>4. QED
    BY <1>1, <1>2, <1>3, Ending

\* The file is written: with what was dumped before the minute was over.
LEMMA PackKeepsCopies ==
    ASSUME O!HostAssumption, HostInv, CopiesInv, NEW p \in O!Procs, O!Pack(p), UNCHANGED o_now
    PROVE  CopiesInv'
<1> DEFINE r == run[p]
           a == IF r.cmd = "restore" THEN "stop" ELSE "prune"
           n == [r EXCEPT !.at = a]
           f == r.made
<1>1. /\ r \in HostTask(git.branch) /\ TaskIsOfNow(r, o_now, DOMAIN o_copies)
    BY HostFacts DEF CopiesInv, TasksAreSound
<1>2. /\ r.at = "pack" /\ run' = [run EXCEPT ![p] = n] /\ UNCHANGED <<db, image, previous, dump>>
      /\ o_copies' = [g \in DOMAIN o_copies \cup {f} |-> IF g = f THEN [db |-> r.got, pki |-> pki] ELSE o_copies[g]]
    BY DEF O!Pack, O!Goto
<1>3. /\ 0 \in Schemas /\ O!Schema(image) \in Schemas /\ db.schema \in Schemas /\ dump.schema \in Schemas
      /\ r.got.schema \in Schemas /\ r.work.db.schema \in Schemas
      /\ \A g \in DOMAIN o_copies : o_copies[g].db.schema \in Schemas
    BY SchemasAre
<1>4. Alone(p)
  <2>1. r # O!Idle
    BY <1>2 DEF O!Idle, O!Task
  <2>2. QED
    BY <2>1, WorkerIsAlone
<1> HIDE DEF r
<1>5. f = [kind |-> IF r.cmd = "restore" THEN "emergency" ELSE "daily", at |-> o_now]
    BY <1>1, <1>2 DEF TaskIsOfNow, CopySteps
<1>6. n.at = a /\ n.cmd = r.cmd /\ n.made = f /\ n.got = r.got /\ n.work = r.work
  <2>1. a \in HostSteps
    BY DEF HostSteps, TimerSteps
  <2>2. QED
    BY <1>1, <2>1, TaskAt
<1>7. DOMAIN o_copies' = DOMAIN o_copies \cup {f}
    BY <1>2
<1> HIDE DEF n
<1>8. GoesOn(p, n)
  <2>1. TaskIsTrue(n, db', pki', dump')
    BY <1>6 DEF TaskIsTrue
  <2>2. TaskIsOfNow(n, o_now', DOMAIN o_copies')
    BY <1>5, <1>6, <1>7 DEF TaskIsOfNow, CopySteps
  <2>3. QED
    BY <1>2, <1>4, <2>1, <2>2 DEF GoesOn
<1>9. TasksAreSound'
    BY <1>8, TasksSound
<1>10. FilesArePast'
  <2>1. \A g \in DOMAIN o_copies' : g.at <= o_now
    BY <1>5, <1>7, FilesFacts
  <2>2. QED
    BY <2>1, <1>2 DEF CopiesInv, FilesArePast
<1>11. ASSUME NEW g \in DOMAIN o_copies'
       PROVE  o_copies'[g].db = IF g = f THEN r.got ELSE o_copies[g].db
    BY <1>2, <1>7
<1>12. RecordedIsNew'
  <2>1. \A g \in DOMAIN o_copies' : o_copies'[g].db.schema \in Schemas
    BY <1>3, <1>7, <1>11
  <2>2. O!Schema(image') \in Schemas
    BY <1>2, <1>3
  <2>3. \A k \in Schemas' : k \in Schemas
    BY <1>2, <1>3, <1>6, <1>8, <2>1, <2>2, SchemasStay
  <2>4. QED
    BY <1>2, <2>3 DEF CopiesInv, RecordedIsNew, O!Schema
<1>13. O!UpdateCanGoBack'
  <2> DEFINE x == previous.file
  <2>1. SUFFICES ASSUME x # O!Missing
                 PROVE  IF x \in DOMAIN o_copies' THEN o_copies'[x].db.schema <= O!Schema(previous.rev)
                        ELSE Cardinality({g \in DOMAIN o_copies' : g.kind = x.kind /\ g.at > x.at}) >= Keep
    BY <1>2, SameSize DEF O!UpdateCanGoBack, O!Newer, O!Schema
  <2>2. CASE x = f
    <3>1. x.at = o_now
      BY <1>5, <2>2
    <3>2. r.got.schema <= O!Schema(previous.rev)
      BY <1>3, <2>1, <3>1 DEF CopiesInv, RecordedIsNew
    <3>3. QED
      BY <1>7, <1>11, <2>2, <3>2
  <2>3. CASE x # f /\ x \in DOMAIN o_copies
    BY <1>7, <1>11, <2>1, <2>3 DEF CopiesInv, O!UpdateCanGoBack
  <2>4. CASE x # f /\ x \notin DOMAIN o_copies
    <3> DEFINE S == O!Newer(x)
               W == {g \in DOMAIN o_copies' : g.kind = x.kind /\ g.at > x.at}
    <3>1. S \subseteq W
      BY <1>7 DEF O!Newer
    <3>2. IsFiniteSet(W)
      <4>1. IsFiniteSet(DOMAIN o_copies')
        BY <1>7, FS_AddElement, FilesFacts
      <4>2. QED
        BY <4>1, FS_Subset
    <3>3. Cardinality(S) >= Keep
      BY <2>1, <2>4, SameSize DEF CopiesInv, O!UpdateCanGoBack
    <3> HIDE DEF S, W
    <3>4. Cardinality(S) <= Cardinality(W) /\ IsFiniteSet(S)
      BY <3>1, <3>2, FS_Subset
    <3>5. Cardinality(S) \in Nat /\ Cardinality(W) \in Nat /\ Keep \in Nat
      BY <3>2, <3>4, FS_CardinalityType, FilesFacts
    <3>6. Cardinality(W) >= Keep
      BY <3>3, <3>4, <3>5
    <3>7. QED
      BY <1>7, <2>4, <3>6 DEF W
  <2>5. QED
    BY <2>2, <2>3, <2>4
<1>14. QED
    BY <1>9, <1>10, <1>12, <1>13 DEF CopiesInv

\* Old files go: not the one of this minute, nor more than leaves enough newer ones.
LEMMA PruneKeepsCopies ==
    ASSUME O!HostAssumption, HostInv, CopiesInv, NEW p \in O!Procs, O!Prune(p), UNCHANGED o_now
    PROVE  CopiesInv'
<1> DEFINE r == run[p]
           n == [r EXCEPT !.at = "offsite"]
           K == {f \in DOMAIN o_copies : f = O!KeptElsewhere \/
                   Cardinality(O!Newer(f)) < IF f.kind = "daily" THEN Keep ELSE KeepEmergency}
<1>1. /\ r \in HostTask(git.branch) /\ TaskIsOfNow(r, o_now, DOMAIN o_copies)
    BY HostFacts DEF CopiesInv, TasksAreSound
<1>2. /\ r.at = "prune" /\ run' = [run EXCEPT ![p] = n] /\ UNCHANGED <<db, image, previous, dump>>
      /\ o_copies' = [f \in K |-> o_copies[f]]
    BY SameSize DEF O!Prune, O!Goto, O!Restrict
<1>3. /\ 0 \in Schemas /\ O!Schema(image) \in Schemas /\ db.schema \in Schemas /\ dump.schema \in Schemas
      /\ r.got.schema \in Schemas /\ r.work.db.schema \in Schemas
      /\ \A g \in DOMAIN o_copies : o_copies[g].db.schema \in Schemas
    BY SchemasAre
<1>4. Alone(p)
  <2>1. r # O!Idle
    BY <1>2 DEF O!Idle, O!Task
  <2>2. QED
    BY <2>1, WorkerIsAlone
<1>5. /\ Keep \in Nat /\ Keep >= 1 /\ o_now \in Nat /\ IsFiniteSet(DOMAIN o_copies)
      /\ \A f \in DOMAIN o_copies : f.at \in Nat /\ f.at <= o_now
    BY FilesFacts
<1>6. /\ K \subseteq DOMAIN o_copies
      /\ \A f \in DOMAIN o_copies : f.kind = "daily" /\ f.at = o_now => f \in K
      /\ \A f \in DOMAIN o_copies : f.kind = "daily" /\ f \notin K => Cardinality(O!Newer(f)) >= Keep
  <2>1. \A f \in DOMAIN o_copies : IsFiniteSet(O!Newer(f)) /\ Cardinality(O!Newer(f)) \in Nat
    <3>1. \A f \in DOMAIN o_copies : O!Newer(f) \subseteq DOMAIN o_copies
      BY DEF O!Newer
    <3>2. QED
      BY <1>5, <3>1, FS_Subset, FS_CardinalityType
  <2>2. ASSUME NEW f \in DOMAIN o_copies, f.kind = "daily", f.at = o_now PROVE f \in K
    <3>1. O!Newer(f) = {}
      BY <1>5, <2>2 DEF O!Newer
    <3>2. Cardinality(O!Newer(f)) = 0
      BY <3>1, FS_EmptySet
    <3>3. QED
      BY <1>5, <2>2, <3>2
  <2>3. \A f \in DOMAIN o_copies : f.kind = "daily" /\ f \notin K => Cardinality(O!Newer(f)) >= Keep
    BY <1>5, <2>1
  <2>4. QED
    BY <2>2, <2>3
<1> HIDE DEF r, K
<1>7. n.at = "offsite" /\ n.cmd = r.cmd /\ n.made = r.made /\ n.got = r.got /\ n.work = r.work
  <2>1. "offsite" \in HostSteps
    BY DEF HostSteps, TimerSteps
  <2>2. QED
    BY <1>1, <2>1, TaskAt
<1> HIDE DEF n
<1>8. GoesOn(p, n)
  <2>1. TaskIsTrue(n, db', pki', dump')
    BY <1>7 DEF TaskIsTrue
  <2>2. DOMAIN o_copies' = K
    BY <1>2
  <2>3. ASSUME r.cmd = "update", r.made # O!Missing
        PROVE  r.made = [kind |-> "daily", at |-> o_now] /\ r.made \in K
    BY <1>1, <1>2, <1>6, <2>3 DEF TaskIsOfNow, OfUpdate
  <2>4. TaskIsOfNow(n, o_now', DOMAIN o_copies')
    BY <1>7, <2>2, <2>3 DEF TaskIsOfNow, CopySteps
  <2>5. QED
    BY <1>2, <1>4, <2>1, <2>4 DEF GoesOn
<1>9. TasksAreSound'
    BY <1>8, TasksSound
<1>10. DOMAIN o_copies' = K /\ \A f \in K : f \in DOMAIN o_copies /\ o_copies'[f] = o_copies[f]
    BY <1>2, <1>6
<1>11. FilesArePast'
    BY <1>2, <1>10 DEF CopiesInv, FilesArePast
<1>12. RecordedIsNew'
  <2>1. \A g \in DOMAIN o_copies' : o_copies'[g].db.schema \in Schemas
    BY <1>3, <1>10
  <2>2. O!Schema(image') \in Schemas
    BY <1>2, <1>3
  <2>3. \A k \in Schemas' : k \in Schemas
    BY <1>2, <1>3, <1>7, <1>8, <2>1, <2>2, SchemasStay
  <2>4. QED
    BY <1>2, <2>3 DEF CopiesInv, RecordedIsNew, O!Schema
<1>13. O!UpdateCanGoBack'
  <2> DEFINE x == previous.file
  <2>1. SUFFICES ASSUME x # O!Missing
                 PROVE  IF x \in K THEN o_copies'[x].db.schema <= O!Schema(previous.rev)
                        ELSE Cardinality({g \in K : g.kind = x.kind /\ g.at > x.at}) >= Keep
    BY <1>2, <1>10, SameSize DEF O!UpdateCanGoBack, O!Newer, O!Schema
  <2>2. CASE x \in K
    BY <1>10, <2>1, <2>2 DEF CopiesInv, O!UpdateCanGoBack
  <2>3. CASE x \notin K
    <3>1. x.kind = "daily" /\ x.at \in Nat
      BY <2>1, FilesFacts DEF CopyFile
    <3>2. Cardinality(O!Newer(x)) >= Keep
      BY <1>6, <2>1, <2>3, <3>1, SameSize DEF CopiesInv, O!UpdateCanGoBack
    <3>3. Cardinality({g \in K : g.kind = x.kind /\ g.at > x.at}) >= Keep
      BY <1>6, <3>1, <3>2, NewerStay
    <3>4. QED
      BY <2>3, <3>3
  <2>4. QED
    BY <2>2, <2>3
<1>14. QED
    BY <1>9, <1>11, <1>12, <1>13 DEF CopiesInv

LEMMA CopyingKeepsCopies ==
    ASSUME O!HostAssumption, HostInv, CopiesInv, NEW p \in O!Procs, O!CopyStep(p)
    PROVE  CopiesInv'
<1> DEFINE r == run[p]
<1>1. r \in HostTask(git.branch) /\ UNCHANGED o_now
    BY HostFacts DEF O!CopyStep
<1>2. /\ 0 \in Schemas /\ O!Schema(image) \in Schemas /\ db.schema \in Schemas /\ dump.schema \in Schemas
      /\ r.got.schema \in Schemas /\ r.work.db.schema \in Schemas
    BY SchemasAre
<1>3. O!Idle.at = "idle"
    BY DEF O!Idle, O!Task
<1>4. O!NoDatabase.schema = 0
    BY DEF O!NoDatabase, O!Db
<1>5. {"dump", "fetch", "clear", "pack"} = CopySteps /\ CopySteps \cup {"record"} \subseteq HostSteps
    BY DEF CopySteps, HostSteps, TimerSteps
<1>6. CASE O!Dump(p)
  <2>1. /\ r.at = "dump" /\ dump' = db /\ O!Goto(p, "fetch") /\ UNCHANGED <<db, image, previous, o_copies>>
    BY <1>6 DEF O!Dump
  <2>2. QED
    BY <1>1, <1>2, <1>3, <1>5, <2>1, GoingOn
<1>7. CASE O!Fetch(p)
  <2> DEFINE n == [cmd |-> r.cmd, at |-> "clear", made |-> r.made, got |-> dump, work |-> r.work]
  <2>1. /\ r.at = "fetch" /\ run' = [run EXCEPT ![p] = n]
        /\ UNCHANGED <<db, pki, image, previous, o_copies, dump, o_now>>
    BY <1>1, <1>7 DEF O!Fetch, O!host
  <2>2. n.at = "clear" /\ n.cmd = r.cmd /\ n.made = r.made /\ n.got = dump /\ n.work = r.work
    OBVIOUS
  <2> HIDE DEF n
  <2>3. Alone(p) /\ TaskIsOfNow(r, o_now, DOMAIN o_copies)
    BY <1>3, <2>1, WorkerIsAlone DEF CopiesInv, TasksAreSound
  <2>4. TaskIsTrue(n, db', pki', dump')
    BY <2>2 DEF TaskIsTrue
  <2>5. TaskIsOfNow(n, o_now', DOMAIN o_copies')
    BY <1>5, <2>1, <2>2, <2>3 DEF TaskIsOfNow, OfUpdate
  <2>6. GoesOn(p, n)
    BY <2>1, <2>3, <2>4, <2>5 DEF GoesOn
  <2>7. QED
    BY <1>2, <2>1, <2>2, <2>6, QuietStep
<1>8. CASE O!Clear(p)
  <2>1. /\ r.at = "clear" /\ dump' = O!NoDatabase /\ O!Goto(p, "pack") /\ UNCHANGED <<db, image, previous, o_copies>>
    BY <1>8 DEF O!Clear
  <2>2. QED
    BY <1>1, <1>2, <1>3, <1>4, <1>5, <2>1, GoingOn
<1>9. CASE O!Offsite(p)
  <2>1. /\ r.at = "offsite" /\ (IF r.cmd = "update" THEN O!Goto(p, "record") ELSE O!Done(p))
        /\ UNCHANGED <<db, pki, image, previous, o_copies, dump, o_now>>
    BY <1>1, <1>9 DEF O!Offsite, O!host
  <2>2. r # O!Idle
    BY <1>3, <2>1
  <2>3. O!Schema(image') \in Schemas /\ db'.schema \in Schemas /\ dump'.schema \in Schemas
    BY <1>2, <2>1
  <2>4. CASE r.cmd = "update"
    <3>1. O!Goto(p, "record") /\ r.at \in OfUpdate /\ "record" \notin CopySteps /\ "record" \in HostSteps
      BY <1>5, <2>1, <2>4 DEF OfUpdate, CopySteps
    <3>2. QED
      BY <2>1, <2>2, <2>3, <2>4, <3>1, GoingOn
  <2>5. CASE r.cmd # "update"
    BY <2>1, <2>2, <2>3, <2>5, Ending
  <2>6. QED
    BY <2>4, <2>5
<1>10. QED
    BY <1>1, <1>6, <1>7, <1>8, <1>9, PackKeepsCopies, PruneKeepsCopies DEF O!CopyStep

\* A step during which nobody works, or by which the time goes on: nothing is of this minute.
LEMMA TimeGoesOn ==
    ASSUME O!HostAssumption, HostInv, CopiesInv, o_now' = o_now + 1, UNCHANGED <<previous, o_copies>>,
           TasksAreSound'
    PROVE  CopiesInv'
<1>1. /\ o_now \in Nat /\ \A f \in DOMAIN o_copies : f.at \in Nat /\ f.at <= o_now
      /\ previous.file # O!Missing => previous.file.kind = "daily" /\ previous.file.at <= o_now
      /\ previous.file.at \in Nat
    BY FilesFacts DEF CopyFile
<1>2. FilesArePast'
    BY <1>1 DEF FilesArePast
<1>3. RecordedIsNew'
  <2>1. previous.file # O!Missing => previous.file.at # o_now'
    BY <1>1
  <2>2. QED
    BY <2>1 DEF RecordedIsNew
<1>4. O!UpdateCanGoBack'
    BY DEF CopiesInv, O!UpdateCanGoBack, O!Newer, O!Schema
<1>5. QED
    BY <1>2, <1>3, <1>4 DEF CopiesInv

\* The record names the code that is checked out, and every database is of that code.
LEMMA RecordKeepsCopies ==
    ASSUME O!HostAssumption, HostInv, HostInv', CopiesInv, O!Record, UNCHANGED o_now
    PROVE  CopiesInv'
<1> DEFINE r == run["operator"]
           n == [r EXCEPT !.at = "pull"]
<1>1. /\ "operator" \in O!Procs /\ r \in HostTask(git.branch) /\ TaskIsOfNow(r, o_now, DOMAIN o_copies)
      /\ git.branch \in Nat /\ O!Schema(git.branch) \in Nat
    BY OperatorFacts, SchemaGrows DEF CopiesInv, TasksAreSound
<1>2. /\ r.at = "record" /\ run' = [run EXCEPT !["operator"] = n]
      /\ UNCHANGED <<db, pki, git, image, o_copies, dump>>
      /\ previous' = [rev |-> git.branch, file |-> r.made]
    BY DEF O!Record, O!Goto
<1>3. Alone("operator")
  <2>1. r # O!Idle
    BY <1>2 DEF O!Idle, O!Task
  <2>2. QED
    BY <1>1, <2>1, WorkerIsAlone
<1> HIDE DEF r
<1>4. n.at = "pull" /\ n.cmd = r.cmd
  <2>1. "pull" \in HostSteps
    BY DEF HostSteps
  <2>2. QED
    BY <1>1, <2>1, TaskAt
<1> HIDE DEF n
<1>5. r.cmd = "update" /\ (r.made = O!Missing \/ (r.made = [kind |-> "daily", at |-> o_now] /\ r.made \in DOMAIN o_copies))
    BY <1>1, <1>2 DEF TaskIsOfNow, OfUpdate
<1>6. GoesOn("operator", n)
  <2>1. TaskIsTrue(n, db', pki', dump')
    BY <1>4, <1>5 DEF TaskIsTrue
  <2>2. TaskIsOfNow(n, o_now', DOMAIN o_copies')
    BY <1>4 DEF TaskIsOfNow, OfUpdate, CopySteps
  <2>3. QED
    BY <1>2, <1>3, <2>1, <2>2 DEF GoesOn
<1>7. TasksAreSound'
    BY <1>1, <1>6, TasksSound
<1>8. FilesArePast'
  <2>1. o_now \in Nat
    BY OperatorFacts
  <2>2. QED
    BY <1>2, <1>5, <2>1 DEF CopiesInv, FilesArePast
<1>9. \A d \in Dbs(git.branch) : d.schema <= O!Schema(git.branch)
    BY <1>1 DEF Dbs
<1>10. RecordedIsNew'
  <2>1. previous'.rev = git.branch
    BY <1>2
  <2>2. ASSUME NEW k \in Schemas' PROVE k <= O!Schema(git.branch)
    <3>1. /\ db' \in Dbs(git.branch) /\ dump' \in Dbs(git.branch)
          /\ \A f \in DOMAIN o_copies' : o_copies'[f].db \in Dbs(git.branch)
          /\ \A p \in O!Procs : run'[p].got \in Dbs(git.branch) /\ run'[p].work.db \in Dbs(git.branch)
      BY <1>2 DEF HostInv, DataTypes, TaskTypes, Archives, HostTask
    <3>2. O!Schema(image') <= O!Schema(git.branch) /\ 0 <= O!Schema(git.branch)
      BY <1>1, <1>2, OperatorFacts
    <3>3. \/ k \in {0, O!Schema(image'), db'.schema, dump'.schema}
          \/ \E f \in DOMAIN o_copies' : k = o_copies'[f].db.schema
          \/ \E q \in O!Procs : k = run'[q].got.schema \/ k = run'[q].work.db.schema
      BY DEF Schemas, O!Schema
    <3>4. QED
      BY <1>9, <3>1, <3>2, <3>3
  <2>3. QED
    BY <2>1, <2>2 DEF RecordedIsNew, O!Schema
<1>11. O!UpdateCanGoBack'
  <2>1. SUFFICES ASSUME r.made # O!Missing
                 PROVE  r.made \in DOMAIN o_copies /\ o_copies[r.made].db.schema <= O!Schema(git.branch)
    BY <1>2 DEF O!UpdateCanGoBack, O!Schema
  <2>2. r.made \in DOMAIN o_copies
    BY <1>5, <2>1
  <2>3. o_copies[r.made].db \in Dbs(git.branch)
    BY <2>2 DEF HostInv, DataTypes, Archives
  <2>4. QED
    BY <1>9, <2>2, <2>3
<1>12. QED
    BY <1>7, <1>8, <1>10, <1>11 DEF CopiesInv

LEMMA UpdatingKeepsCopies ==
    ASSUME O!HostAssumption, HostInv, HostInv', CopiesInv, O!UpdateStep
    PROVE  CopiesInv'
<1> DEFINE r == run["operator"]
<1>1. "operator" \in O!Procs /\ r \in HostTask(git.branch) /\ TaskIsSound(r, o_now, o_up)
    BY OperatorFacts
<1>2. /\ 0 \in Schemas /\ O!Schema(image) \in Schemas /\ db.schema \in Schemas /\ dump.schema \in Schemas
    BY <1>1, SchemasAre
<1>3. O!Idle.at = "idle"
    BY DEF O!Idle, O!Task
<1>4. /\ {"pull", "build", "up", "ask"} \subseteq HostSteps
      /\ {"pull", "build", "ask", "up"} \cap (CopySteps \cup EmptySteps \cup OfUpdate \cup {"stop"}) = {}
      /\ {"record", "pull", "checkout", "build"} = CodeSteps
    BY DEF HostSteps, TimerSteps, CopySteps, EmptySteps, CodeSteps, OfUpdate
<1>5. r.at \in CodeSteps => r.cmd # "restore"
    BY <1>1 DEF TaskIsSound
<1>6. ASSUME O!Goto("operator", "build"), r.at \in CodeSteps, UNCHANGED <<db, image, previous, o_copies, dump, o_now>>
      PROVE  CopiesInv'
  <2>1. r # O!Idle
    BY <1>3, <1>4, <1>6
  <2>2. O!Schema(image') \in Schemas /\ db'.schema \in Schemas /\ dump'.schema \in Schemas
    BY <1>2, <1>6
  <2>3. "build" \notin CopySteps /\ "build" \notin {"record", "offsite", "prune"} /\ "build" \in HostSteps
    BY <1>4 DEF CopySteps
  <2>4. QED
    BY <1>1, <1>5, <1>6, <2>1, <2>2, <2>3, GoingOn
<1>7. CASE O!Record /\ UNCHANGED o_now
    BY <1>7, RecordKeepsCopies
<1>8. CASE O!Pull /\ UNCHANGED o_now
    BY <1>4, <1>6, <1>8 DEF O!Pull
<1>9. CASE O!Checkout /\ UNCHANGED o_now
    BY <1>4, <1>6, <1>9 DEF O!Checkout
<1>10. CASE O!Build /\ o_now' = o_now + 1
  <2> DEFINE n == [r EXCEPT !.at = "up"]
  <2>1. /\ r.at = "build" /\ run' = [run EXCEPT !["operator"] = n] /\ UNCHANGED <<db, pki, previous, o_copies, dump>>
    BY <1>10 DEF O!Build, O!Goto
  <2>2. Alone("operator")
    BY <1>1, <1>3, <2>1, WorkerIsAlone
  <2>3. r.cmd # "restore"
    BY <1>4, <1>5, <2>1
  <2>4. n.at = "up" /\ n.cmd = r.cmd
    BY <1>1, <1>4, TaskAt
  <2> HIDE DEF n
  <2>5. TaskIsTrue(n, db', pki', dump')
    BY <2>3, <2>4 DEF TaskIsTrue
  <2>6. TaskIsOfNow(n, o_now', DOMAIN o_copies')
    BY <2>4 DEF TaskIsOfNow, OfUpdate, CopySteps
  <2>7. GoesOn("operator", n)
    BY <2>1, <2>2, <2>5, <2>6 DEF GoesOn
  <2>8. TasksAreSound'
    BY <1>1, <2>7, TasksSound
  <2>9. QED
    BY <1>10, <2>1, <2>8, TimeGoesOn
<1>11. CASE O!Up /\ UNCHANGED o_now
  <2>1. /\ r.at = "up" /\ UNCHANGED <<pki, image, previous, o_copies, dump>>
        /\ db' = O!Db(IF db.is = "empty" THEN "whole" ELSE db.is, db.data, O!Schema(image))
        /\ \/ O!Goto("operator", "ask") /\ r.cmd = "rollback"
           \/ O!Done("operator")
    BY <1>11 DEF O!Up
  <2>2. r # O!Idle
    BY <1>3, <2>1
  <2>3. O!Schema(image') \in Schemas /\ db'.schema \in Schemas /\ dump'.schema \in Schemas
    BY <1>2, <2>1 DEF O!Db
  <2>4. "ask" \in HostSteps /\ "ask" \notin CopySteps /\ "ask" \notin {"record", "offsite", "prune"}
    BY <1>4 DEF CopySteps
  <2>5. CASE O!Goto("operator", "ask") /\ r.cmd = "rollback"
    BY <1>1, <1>11, <2>1, <2>2, <2>3, <2>4, <2>5, GoingOn
  <2>6. CASE O!Done("operator")
    BY <1>1, <1>11, <2>1, <2>2, <2>3, <2>6, Ending
  <2>7. QED
    BY <2>1, <2>5, <2>6
<1>12. CASE O!Ask /\ UNCHANGED o_now
  <2>1. r.at = "ask" /\ UNCHANGED <<db, pki, image, previous, o_copies, dump>>
    BY <1>12 DEF O!Ask, O!host
  <2>2. r # O!Idle
    BY <1>3, <2>1
  <2>3. O!Schema(image') \in Schemas /\ db'.schema \in Schemas /\ dump'.schema \in Schemas
    BY <1>2, <2>1
  <2>4. CASE O!Done("operator")
    BY <1>1, <1>12, <2>1, <2>2, <2>3, <2>4, Ending
  <2>5. CASE previous.file \in DOMAIN o_copies
             /\ run' = [run EXCEPT !["operator"] = O!Restoring(previous.file, TRUE)]
    <3> DEFINE n == O!Restoring(previous.file, TRUE)
    <3>1. /\ TaskIsTrue(n, db, pki, dump) /\ TaskIsOfNow(n, o_now, DOMAIN o_copies)
          /\ n.got.schema \in Schemas /\ n.work.db.schema \in Schemas
      BY <2>5, RestoringIsSound
    <3>2. run' = [run EXCEPT !["operator"] = n]
      BY <2>5
    <3> HIDE DEF n
    <3>3. GoesOn("operator", n)
      BY <1>1, <1>12, <2>1, <2>2, <3>1, <3>2, WorkerIsAlone DEF GoesOn
    <3>4. QED
      BY <1>1, <1>12, <2>1, <2>3, <3>1, <3>3, QuietStep
  <2>6. QED
    BY <1>12, <2>4, <2>5 DEF O!Ask
<1>13. QED
    BY <1>7, <1>8, <1>9, <1>10, <1>11, <1>12 DEF O!UpdateStep

LEMMA CopiesStep ==
    ASSUME O!HostAssumption, ~Together, HostInv, HostInv', CopiesInv, [O!Next]_(O!vars)
    PROVE  CopiesInv'
<1>1. ASSUME UNCHANGED <<db, pki, image, previous, o_copies, dump, run, o_now>> PROVE CopiesInv'
  <2>1. TasksAreSound' /\ FilesArePast'
    BY <1>1 DEF CopiesInv, TasksAreSound, FilesArePast
  <2>2. RecordedIsNew' /\ O!UpdateCanGoBack'
    BY <1>1 DEF CopiesInv, RecordedIsNew, Schemas, O!UpdateCanGoBack, O!Newer, O!Schema
  <2>3. QED
    BY <2>1, <2>2 DEF CopiesInv
<1>2. CASE O!BackupEnable
    BY <1>1, <1>2 DEF O!BackupEnable
<1>3. CASE O!SwitchBack
    BY <1>1, <1>3 DEF O!SwitchBack
<1>4. CASE O!Publish
    BY <1>1, <1>4 DEF O!Publish
<1>5. CASE UNCHANGED O!vars
    BY <1>1, <1>5 DEF O!vars, O!host
<1>6. CASE O!Tick
  <2>1. /\ \A p \in O!Procs : run[p] = O!Idle
        /\ o_now' = o_now + 1 /\ UNCHANGED <<db, pki, image, previous, o_copies, dump, run>>
    BY <1>6 DEF O!Tick, O!host
  <2>2. \A p \in O!Procs : run'[p] = O!Idle
    BY <2>1
  <2>3. TasksAreSound'
    BY <2>2, IdleIsSound DEF TasksAreSound, O!Procs
  <2>4. QED
    BY <2>1, <2>3, TimeGoesOn
<1>7. CASE O!Write
  <2>1. /\ o_up # 0 /\ db' = [db EXCEPT !.data = db.data + 1]
        /\ UNCHANGED <<image, previous, o_copies, dump, run, o_now>>
    BY <1>7 DEF O!Write
  <2>2. db'.schema = db.schema
  <3>1. db \in Dbs(git.branch)
    BY DEF HostInv, DataTypes
  <3>2. QED
    BY <2>1, <3>1 DEF Dbs
  <2>3. ASSUME NEW p \in O!Procs PROVE TaskIsTrue(run'[p], db', pki', dump')
    <3>1. /\ TaskIsSound(run[p], o_now, o_up) /\ TaskIsTrue(run[p], db, pki, dump)
      BY DEF HostInv, TaskTypes, CopiesInv, TasksAreSound
    <3>2. run[p].cmd = "restore" => run[p].at \notin EmptySteps \cup {"up"}
      BY <2>1, <3>1 DEF TaskIsSound
    <3>3. QED
      BY <2>1, <3>2 DEF TaskIsTrue, EmptySteps
  <2>4. TasksAreSound'
    BY <2>1, <2>3 DEF CopiesInv, TasksAreSound
  <2>5. FilesArePast'
    BY <2>1 DEF CopiesInv, FilesArePast
  <2>6. RecordedIsNew'
    BY <2>1, <2>2 DEF CopiesInv, RecordedIsNew, Schemas, O!Schema
  <2>7. O!UpdateCanGoBack'
    BY <2>1 DEF CopiesInv, O!UpdateCanGoBack, O!Newer, O!Schema
  <2>8. QED
    BY <2>4, <2>5, <2>6, <2>7 DEF CopiesInv
<1>8. QED
    BY <1>2, <1>3, <1>4, <1>5, <1>6, <1>7, CommandKeepsCopies, CopyingKeepsCopies, FailingKeepsCopies,
       UpdatingKeepsCopies, RestoringKeepsCopies DEF O!Next

\* Host: while the timer waits for the operator, a restoration brings back the copy that was asked
\* for, and the copy that .previous-rev names can be read by the code it names, until as many
\* newer daily copies as are kept have taken its place (backup.restore, prune, Ocm.update,
\* rollback).  With both at work at once it does not hold: both use the one /tmp/ocm.dump.
THEOREM CopiesCanBeGoneBackTo ==
    ASSUME O!HostAssumption, ~Together
    PROVE  O!Spec => []DataIsThere
<1>1. O!Init => HostInv /\ CopiesInv
  <2> SUFFICES ASSUME O!Init PROVE CopiesInv
    BY ServerStarts
  <2> USE DEF O!Init
  <2>1. TasksAreSound
    <3>1. \A p \in O!Procs : run[p] = O!Idle
      OBVIOUS
    <3>2. QED
      BY <3>1, IdleIsSound DEF TasksAreSound, O!Procs
  <2>2. previous.file = O!Missing
    BY DEF O!NoRecord
  <2>3. FilesArePast
    <3>1. DOMAIN o_copies = {O!KeptElsewhere} /\ O!KeptElsewhere.at = 0
      BY DEF O!KeptElsewhere
    <3>2. QED
      BY <2>2, <3>1 DEF FilesArePast
  <2>4. RecordedIsNew /\ O!UpdateCanGoBack
    BY <2>2 DEF RecordedIsNew, O!UpdateCanGoBack
  <2>5. QED
    BY <2>1, <2>3, <2>4 DEF CopiesInv
<1>2. HostInv /\ CopiesInv /\ [O!Next]_(O!vars) => HostInv' /\ CopiesInv'
    BY HostStep, CopiesStep
<1>3. HostInv /\ CopiesInv => DataIsThere
  <2> SUFFICES ASSUME HostInv, CopiesInv PROVE DataIsThere
    OBVIOUS
  <2>1. "operator" \in O!Procs
    BY DEF O!Procs
  <2>2. O!RestoredIsTheCopy
    BY <2>1 DEF CopiesInv, TasksAreSound, TaskIsTrue, O!RestoredIsTheCopy
  <2>3. QED
    BY <2>2 DEF HostInv, CopiesInv, DataIsThere
<1>4. QED
    BY <1>1, <1>2, <1>3, PTL DEF O!Spec

----------------------------------------------------------------------------
\* NodeAccess.

\* A dispatcher is busy with an event that is owed, and few users lapse at a time.
AccessJob == [at : {"idle", "compare", "publish", "kick"}, desired : SUBSET Users]
Dispatching == {k \in Dispatchers : n_work[k] # N!Idle}
EventsCoverJobs ==
    /\ IsFiniteSet(lapsed)
    /\ IsFiniteSet(Dispatching) /\ Cardinality(Dispatching) <= owed
AccessInv == N!TypeOK /\ EventsCoverJobs

LEMMA AccessCounts ==
    ASSUME AccessInv
    PROVE  /\ Cardinality(lapsed) \in Nat /\ Cardinality(Dispatching) \in Nat /\ owed \in Nat
           /\ n_work \in [N!Workers -> AccessJob] /\ Dispatchers \subseteq N!Workers
           /\ n_wanted \subseteq Users /\ lapsed \subseteq Users
           /\ N!Idle \in AccessJob /\ N!Idle.at = "idle"
           /\ N!Busy \cap Dispatchers = Dispatching /\ \A S : N!Cardinality(S) = Cardinality(S)
<1>1. Cardinality(lapsed) \in Nat /\ Cardinality(Dispatching) \in Nat
    BY FS_CardinalityType DEF AccessInv, EventsCoverJobs
<1>2. /\ n_work \in [N!Workers -> AccessJob] /\ Dispatchers \subseteq N!Workers /\ owed \in Nat
      /\ n_wanted \subseteq Users /\ lapsed \subseteq Users
    BY DEF AccessInv, N!TypeOK, AccessJob, N!Workers
<1>3. N!Idle \in AccessJob /\ N!Idle.at = "idle"
    BY DEF N!Idle, AccessJob
<1>4. N!Busy \cap Dispatchers = Dispatching
    BY <1>2 DEF N!Busy, Dispatching
<1>5. \A S : N!Cardinality(S) = Cardinality(S)
    BY DEF N!Cardinality, Cardinality
<1>6. QED
    BY <1>1, <1>2, <1>3, <1>4, <1>5

\* A worker goes on: more events than dispatchers are owed before, and as many after.
LEMMA WorkerStep ==
    ASSUME AccessInv, NEW k \in N!Workers, NEW todo \in AccessJob, n_work' = [n_work EXCEPT ![k] = todo],
           UNCHANGED lapsed, owed' \in Nat,
           owed' # owed => owed' = owed - 1 /\ k \in Dispatching /\ todo = N!Idle,
           k \in Dispatchers /\ n_work[k] = N!Idle /\ todo # N!Idle => Cardinality(Dispatching) < owed
    PROVE  n_work' \in [N!Workers -> AccessJob] /\ EventsCoverJobs'
<1>1. /\ Cardinality(Dispatching) \in Nat /\ owed \in Nat /\ Cardinality(Dispatching) <= owed
      /\ n_work \in [N!Workers -> AccessJob] /\ Dispatchers \subseteq N!Workers /\ IsFiniteSet(Dispatching)
    BY AccessCounts DEF AccessInv, EventsCoverJobs
<1>2. n_work' \in [N!Workers -> AccessJob]
    BY <1>1
<1>3. \A q \in Dispatchers : n_work'[q] = IF q = k THEN todo ELSE n_work[q]
    BY <1>1
<1>4. CASE k \in Dispatchers /\ todo # N!Idle
  <2>1. Dispatching' = Dispatching \cup {k}
    BY <1>3, <1>4 DEF Dispatching
  <2>2. /\ IsFiniteSet(Dispatching \cup {k})
        /\ Cardinality(Dispatching \cup {k}) = IF k \in Dispatching THEN Cardinality(Dispatching)
                                               ELSE Cardinality(Dispatching) + 1
    BY <1>1, FS_AddElement
  <2>3. k \notin Dispatching => Cardinality(Dispatching) < owed
    BY <1>4 DEF Dispatching
  <2>4. owed' = owed
    BY <1>4
  <2>5. QED
    BY <1>1, <1>2, <2>1, <2>2, <2>3, <2>4 DEF AccessInv, EventsCoverJobs
<1>5. CASE k \in Dispatchers /\ todo = N!Idle
  <2>1. Dispatching' = Dispatching \ {k}
    BY <1>3, <1>5 DEF Dispatching
  <2>2. /\ IsFiniteSet(Dispatching \ {k})
        /\ Cardinality(Dispatching \ {k}) = IF k \in Dispatching THEN Cardinality(Dispatching) - 1
                                            ELSE Cardinality(Dispatching)
    BY <1>1, FS_RemoveElement
  <2>3. QED
    BY <1>1, <1>2, <2>1, <2>2 DEF AccessInv, EventsCoverJobs
<1>6. CASE k \notin Dispatchers
  <2>1. Dispatching' = Dispatching
    BY <1>3, <1>6 DEF Dispatching
  <2>2. owed' = owed
    BY <1>6 DEF Dispatching
  <2>3. QED
    BY <1>1, <1>2, <2>1, <2>2 DEF AccessInv, EventsCoverJobs
<1>7. QED
    BY <1>4, <1>5, <1>6

LEMMA AccessStep ==
    ASSUME N!NodeAccessAssumption, AccessInv, [N!Next]_(N!vars)
    PROVE  AccessInv'
<1> USE DEF N!database, N!node
<1>1. /\ Cardinality(lapsed) \in Nat /\ Cardinality(Dispatching) \in Nat /\ owed \in Nat
      /\ n_work \in [N!Workers -> AccessJob] /\ n_wanted \subseteq Users /\ lapsed \subseteq Users
      /\ N!Idle \in AccessJob /\ N!Idle.at = "idle" /\ IsFiniteSet(lapsed)
    BY AccessCounts DEF AccessInv, EventsCoverJobs
<1>2. /\ allowed \in (SUBSET Users) \cup {N!Missing} /\ online \subseteq Users /\ n_up \in BOOLEAN
      /\ n_changes \in Nat /\ n_outages \in Nat /\ n_edits \in Nat
    BY DEF AccessInv, N!TypeOK, N!counters
<1>3. ASSUME n_wanted' \subseteq Users, lapsed' \subseteq Users, owed' \in Nat, allowed' \in (SUBSET Users) \cup {N!Missing},
             online' \subseteq Users, n_up' \in BOOLEAN, n_work' \in [N!Workers -> AccessJob],
             n_changes' \in Nat, n_outages' \in Nat, n_edits' \in Nat
      PROVE  N!TypeOK'
    BY <1>3 DEF N!TypeOK, N!counters, AccessJob, N!Missing
<1>4. ASSUME UNCHANGED n_work, owed' \in Nat, owed' >= owed, IsFiniteSet(lapsed') PROVE EventsCoverJobs'
  <2>1. Dispatching' = Dispatching
    BY <1>4 DEF Dispatching, N!Idle
  <2>2. QED
    BY <1>1, <1>4, <2>1 DEF AccessInv, EventsCoverJobs
<1>5. ASSUME NEW u \in Users, N!Change(u) PROVE AccessInv'
  <2>1. /\ n_changes' = n_changes + 1 /\ n_wanted' \subseteq Users /\ lapsed' = lapsed \ {u} /\ owed' = owed + 1
        /\ UNCHANGED <<allowed, online, n_up, n_outages, n_edits, n_work>>
    BY <1>1, <1>5 DEF N!Change
  <2>2. IsFiniteSet(lapsed')
    BY <1>1, <2>1, FS_RemoveElement
  <2>3. QED
    BY <1>1, <1>2, <1>3, <1>4, <2>1, <2>2 DEF AccessInv
<1>6. ASSUME NEW u \in Users, N!Lapse(u) PROVE AccessInv'
  <2>1. /\ n_changes' = n_changes + 1 /\ n_wanted' = n_wanted \ {u} /\ lapsed' = lapsed \cup {u}
        /\ UNCHANGED <<owed, allowed, online, n_up, n_outages, n_edits, n_work>>
    BY <1>6 DEF N!Lapse
  <2>2. IsFiniteSet(lapsed')
    BY <1>1, <2>1, FS_AddElement
  <2>3. QED
    BY <1>1, <1>2, <1>3, <1>4, <2>1, <2>2 DEF AccessInv
<1>7. CASE N!ExpireDue
  <2>1. /\ lapsed' = {} /\ owed' = owed + Cardinality(lapsed)
        /\ UNCHANGED <<n_wanted, n_changes, allowed, online, n_up, n_outages, n_edits, n_work>>
    BY <1>7, AccessCounts DEF N!ExpireDue
  <2>2. IsFiniteSet(lapsed')
    BY <2>1, FS_EmptySet
  <2>3. QED
    BY <1>1, <1>2, <1>3, <1>4, <2>1, <2>2 DEF AccessInv
<1>8. ASSUME NEW k \in N!Workers, N!ReadWanted(k) PROVE AccessInv'
  <2> DEFINE n == [at |-> "compare", desired |-> n_wanted]
  <2>1. /\ n_work[k] = N!Idle /\ (k \in Dispatchers => Cardinality(Dispatching) < owed)
        /\ n_work' = [n_work EXCEPT ![k] = n]
        /\ UNCHANGED <<n_wanted, lapsed, owed, n_changes, allowed, online, n_up, n_outages, n_edits>>
    BY <1>8, AccessCounts DEF N!ReadWanted, N!SetWork
  <2>2. n \in AccessJob
    BY <1>1 DEF AccessJob
  <2> HIDE DEF n
  <2>3. n_work' \in [N!Workers -> AccessJob] /\ EventsCoverJobs'
    BY <1>1, <2>1, <2>2, WorkerStep
  <2>4. QED
    BY <1>1, <1>2, <1>3, <2>1, <2>3 DEF AccessInv
<1>9. ASSUME NEW k \in N!Workers, NEW a \in {"publish", "kick"}, n_work' = [n_work EXCEPT ![k] = [n_work[k] EXCEPT !.at = a]],
             n_work[k].at # "idle", UNCHANGED <<lapsed, owed>>
      PROVE  n_work' \in [N!Workers -> AccessJob] /\ EventsCoverJobs'
  <2> DEFINE n == [n_work[k] EXCEPT !.at = a]
  <2>1. n_work[k] \in AccessJob /\ n_work[k] # N!Idle
    BY <1>1, <1>9
  <2>2. n \in AccessJob
    BY <2>1 DEF AccessJob
  <2>3. n_work' = [n_work EXCEPT ![k] = n]
    BY <1>9
  <2> HIDE DEF n
  <2>4. QED
    BY <1>1, <1>9, <2>1, <2>2, <2>3, WorkerStep
<1>10. ASSUME NEW k \in N!Workers, N!Compare(k) PROVE AccessInv'
  <2>1. \E a \in {"publish", "kick"} : n_work' = [n_work EXCEPT ![k] = [n_work[k] EXCEPT !.at = a]]
    BY <1>10 DEF N!Compare, N!SetWork
  <2>2. /\ n_work[k].at # "idle"
        /\ UNCHANGED <<n_wanted, lapsed, owed, n_changes, allowed, online, n_up, n_outages, n_edits>>
    BY <1>10 DEF N!Compare
  <2>3. QED
    BY <1>1, <1>2, <1>3, <1>9, <2>1, <2>2 DEF AccessInv
<1>11. ASSUME NEW k \in N!Workers, N!Publish(k) PROVE AccessInv'
  <2>1. /\ n_work' = [n_work EXCEPT ![k] = [n_work[k] EXCEPT !.at = "kick"]] /\ n_work[k].at # "idle"
        /\ allowed' = n_work[k].desired
        /\ UNCHANGED <<n_wanted, lapsed, owed, n_changes, online, n_up, n_outages, n_edits>>
    BY <1>11 DEF N!Publish, N!SetWork
  <2>2. n_work[k].desired \in SUBSET Users
    BY <1>1 DEF AccessJob
  <2>3. QED
    BY <1>1, <1>2, <1>3, <1>9, <2>1, <2>2 DEF AccessInv
<1>12. ASSUME NEW k \in N!Workers, N!Kick(k) PROVE AccessInv'
  <2>1. /\ n_work[k].at = "kick" /\ online' = online \cap n_work[k].desired
        /\ n_work' = [n_work EXCEPT ![k] = N!Idle] /\ owed' = (IF k \in Dispatchers THEN owed - 1 ELSE owed)
        /\ UNCHANGED <<n_wanted, lapsed, n_changes, allowed, n_up, n_outages, n_edits>>
    BY <1>12 DEF N!Kick, N!SetWork
  <2>2. k \in Dispatchers => k \in Dispatching
    BY <1>1, <2>1 DEF Dispatching
  <2>3. k \in Dispatchers => Cardinality(Dispatching) >= 1 /\ Cardinality(Dispatching) <= owed
    <3>1. IsFiniteSet(Dispatching) /\ Cardinality(Dispatching) <= owed
      BY DEF AccessInv, EventsCoverJobs
    <3>2. k \in Dispatching => Cardinality(Dispatching) # 0
      BY <3>1, FS_EmptySet
    <3>3. QED
      BY <1>1, <2>2, <3>1, <3>2
  <2>4. owed' \in Nat
    BY <1>1, <2>1, <2>3
  <2>5. n_work' \in [N!Workers -> AccessJob] /\ EventsCoverJobs'
    BY <1>1, <2>1, <2>2, <2>4, WorkerStep
  <2>6. QED
    BY <1>1, <1>2, <1>3, <2>1, <2>4, <2>5 DEF AccessInv
<1>13. ASSUME NEW k \in N!Workers, N!GiveUp(k) PROVE AccessInv'
  <2>1. /\ n_work' = [n_work EXCEPT ![k] = N!Idle]
        /\ UNCHANGED <<n_wanted, lapsed, owed, n_changes, allowed, online, n_up, n_outages, n_edits>>
    BY <1>13 DEF N!GiveUp, N!SetWork
  <2>2. n_work' \in [N!Workers -> AccessJob] /\ EventsCoverJobs'
    BY <1>1, <2>1, WorkerStep
  <2>3. QED
    BY <1>1, <1>2, <1>3, <2>1, <2>2 DEF AccessInv
<1>14. ASSUME allowed' \in (SUBSET Users) \cup {N!Missing}, online' \subseteq Users, n_up' \in BOOLEAN,
              n_outages' \in Nat, n_edits' \in Nat, UNCHANGED <<n_wanted, lapsed, owed, n_changes, n_work>>
       PROVE  AccessInv'
    BY <1>1, <1>2, <1>3, <1>4, <1>14 DEF AccessInv
<1>15. ASSUME NEW u \in Users, N!Connect(u) \/ N!Leave(u) PROVE AccessInv'
    BY <1>2, <1>14, <1>15 DEF N!Connect, N!Leave
<1>16. CASE N!Stop
  <2>1. /\ online' = {} /\ n_outages' = n_outages + 1 /\ n_up' = FALSE
        /\ UNCHANGED <<n_wanted, lapsed, owed, n_changes, allowed, n_edits, n_work>>
    BY <1>16 DEF N!Stop
  <2>2. n_up' \in BOOLEAN
    BY <2>1
  <2>3. QED
    BY <1>2, <1>14, <2>1, <2>2
<1>17. CASE N!StartUp
    BY <1>2, <1>14, <1>17 DEF N!StartUp
<1>18. CASE N!EditByHand
    BY <1>2, <1>14, <1>18 DEF N!EditByHand
<1>19. CASE UNCHANGED N!vars
    BY <1>2, <1>14, <1>19 DEF N!vars
<1>20. QED
    BY <1>5, <1>6, <1>7, <1>8, <1>10, <1>11, <1>12, <1>13, <1>15, <1>16, <1>17, <1>18, <1>19
    DEF N!Next, N!Sync

\* NodeAccess: whatever stops, lapses or is edited by hand, no more events are settled than are
\* owed, so that no change of access is forgotten (sync_node_access, reconcile_node).
THEOREM AccessIsTyped ==
    ASSUME N!NodeAccessAssumption
    PROVE  N!Spec => []N!TypeOK
<1>1. N!Init => AccessInv
  <2> SUFFICES ASSUME N!Init PROVE AccessInv
    OBVIOUS
  <2> USE DEF N!Init
  <2>1. N!TypeOK
    BY DEF N!TypeOK, N!counters, N!Idle
  <2>2. Dispatching = {}
    BY DEF Dispatching, N!Workers
  <2>3. EventsCoverJobs
    BY <2>2, FS_EmptySet DEF EventsCoverJobs
  <2>4. QED
    BY <2>1, <2>3 DEF AccessInv
<1>2. AccessInv /\ [N!Next]_(N!vars) => AccessInv'
    BY AccessStep
<1>3. AccessInv => N!TypeOK
    BY DEF AccessInv
<1>4. QED
    BY <1>1, <1>2, <1>3, PTL DEF N!Spec
=============================================================================
