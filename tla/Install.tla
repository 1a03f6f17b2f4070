------------------------------ MODULE Install ------------------------------
(***************************************************************************)
(* The installer (deploy/installer: install.py, steps.py, checks.py).  A   *)
(* run looks at the server, asks, and goes through the steps; each step    *)
(* does something to the server and is then marked in .install-state.  A   *)
(* run may end anywhere: a command fails, perhaps with a part of its       *)
(* effect, or the process dies between the effect and the mark.  The       *)
(* operator then runs it again, and marked steps are skipped.              *)
(*                                                                         *)
(* Passwords, keys and secrets are numbers of their own, never used again; *)
(* of the answers the domain stands for all that goes into .env.  The      *)
(* steps that prepare the host (swap, docker, build) are kept as steps     *)
(* without an effect that another step looks at, language, prompts and     *)
(* dry runs are left out.                                                  *)
(*                                                                         *)
(* An operator X_Y is X with the slip Y, as in SubscriptionState.          *)
(***************************************************************************)
EXTENDS Integers, Sequences, FiniteSets

CONSTANTS Domains,        \* answers; their DNS records are there
          StopsOnHint,    \* the operator stops what holds the ports, as check_ports says
          MaxFailures     \* bound of the model: runs that end before their last step

InstallAssumption ==
    Domains # {} /\ StopsOnHint \in BOOLEAN /\ MaxFailures \in Nat

Steps == <<"env", "swap", "docker", "build", "infra", "pki", "admin", "stack", "certs",
           "ocm", "backup", "doctor">>
Names == {Steps[i] : i \in 1 .. Len(Steps)}

VARIABLES done,      \* .install-state
          env,       \* .env: the secret of the database and the domain
          volume,    \* the secret the volume of the database was made with
          ca, admin, key,   \* the CA, the password of the first administrator, the key of copies
          ports,     \* a container of ours holds 80 and 443
          wizard,    \* the run: question or step, what was answered, notes for its end
          known,     \* passwords and keys the operator typed or was shown
          fresh,     \* the next number
          failures

server == <<done, env, volume, ca, admin, key, ports>>
vars == <<server, wizard, known, fresh, failures>>

None == 0
NoEnv == [secret |-> None, domain |-> None]
Off == [at |-> "off", step |-> 1, values |-> NoEnv, reuse |-> FALSE, password |-> None,
        generated |-> FALSE, backup |-> FALSE, notes |-> {}]
Asking(at) == wizard.at = at

----------------------------------------------------------------------------
\* run_all: the ports are not looked at once the step stack is marked.
PortsBusy == ports /\ "stack" \notin done
Look ==
    /\ Asking("off") /\ ~PortsBusy
    /\ wizard' = [Off EXCEPT !.at = "choose"]
    /\ UNCHANGED <<server, known, fresh, failures>>

\* The hint of check_ports: stop the process that holds the port.
StopContainers ==
    /\ Asking("off") /\ PortsBusy /\ StopsOnHint
    /\ ports' = FALSE
    /\ UNCHANGED <<done, env, volume, ca, admin, key, wizard, known, fresh, failures>>

ReuseEnv ==
    /\ env # NoEnv
    /\ wizard' = [wizard EXCEPT !.at = "domains", !.values = env, !.reuse = TRUE]
    /\ UNCHANGED fresh
\* Answers, and secrets that were not there before.
AskValues ==
    /\ env # NoEnv => "infra" \notin done
    /\ \E d \in Domains :
         wizard' = [wizard EXCEPT !.at = "domains", !.values = [secret |-> fresh, domain |-> d]]
    /\ fresh' = fresh + 1
ChooseEnv ==
    /\ Asking("choose")
    /\ ReuseEnv \/ AskValues
    /\ UNCHANGED <<server, known, failures>>

\* The records are there (Domains); without them the run stops.
CheckDomains ==
    /\ Asking("domains")
    /\ wizard' = [wizard EXCEPT !.at = "admin?"]
    /\ UNCHANGED <<server, known, fresh, failures>>

AskAdmin ==
    /\ Asking("admin?")
    /\ IF "admin" \in done
       THEN wizard' = [wizard EXCEPT !.at = "backup?"] /\ UNCHANGED <<fresh, known>>
       ELSE /\ \E generated \in BOOLEAN :
                 /\ wizard' = [wizard EXCEPT !.at = "backup?", !.password = fresh,
                                             !.generated = generated]
                 /\ known' = IF generated THEN known ELSE known \cup {fresh}
            /\ fresh' = fresh + 1
    /\ UNCHANGED <<server, failures>>

AskBackup ==
    /\ Asking("backup?")
    /\ \E yes \in BOOLEAN : wizard' = [wizard EXCEPT !.at = "steps", !.backup = yes]
    /\ UNCHANGED <<server, known, fresh, failures>>

----------------------------------------------------------------------------
\* The steps: what each does to the server (the mark comes with RunStep).
KeepDatabase == UNCHANGED volume
KeepApp == UNCHANGED <<ca, admin, ports>>
KeepKey == UNCHANGED <<key, fresh>>

WriteEnv ==
    /\ env' = IF wizard.reuse THEN env ELSE wizard.values
    /\ KeepDatabase /\ KeepApp /\ KeepKey
Swap == UNCHANGED <<env, volume, ca, admin, ports, key, fresh>>
Docker == UNCHANGED <<env, volume, ca, admin, ports, key, fresh>>
BuildImages == UNCHANGED <<env, volume, ca, admin, ports, key, fresh>>
\* postgres takes the secret of .env when its volume is new.
Infra ==
    /\ volume' = IF volume = None THEN env.secret ELSE volume
    /\ UNCHANGED env /\ KeepApp /\ KeepKey
Opens == volume # None /\ volume = env.secret

Tolerate_Strict(there) == ~there
\* "already there" is no error.
Tolerate(there) == TRUE
Pki ==
    /\ Tolerate(ca) /\ ca' = TRUE
    /\ UNCHANGED <<env, admin, ports>> /\ KeepDatabase /\ KeepKey
Admin ==
    /\ Opens /\ Tolerate(admin # None)
    /\ admin' = IF admin = None THEN wizard.password ELSE admin
    /\ UNCHANGED <<env, ca, ports>> /\ KeepDatabase /\ KeepKey
Stack ==
    /\ Opens /\ ports' = TRUE
    /\ UNCHANGED <<env, ca, admin>> /\ KeepDatabase /\ KeepKey
\* Caddy takes the domains of .env, the installer waits for those of its answers.
Certs ==
    /\ ports /\ env.domain = wizard.values.domain
    /\ UNCHANGED env /\ KeepDatabase /\ KeepApp /\ KeepKey
Ocm == UNCHANGED <<env, volume, ca, admin, ports, key, fresh>>
EnsureKey_Anew ==
    /\ key' = fresh /\ fresh' = fresh + 1
    /\ UNCHANGED env /\ KeepDatabase /\ KeepApp
EnsureKey ==
    /\ IF key = None THEN key' = fresh /\ fresh' = fresh + 1 ELSE KeepKey
    /\ UNCHANGED env /\ KeepDatabase /\ KeepApp
BackupKey == IF wizard.backup THEN EnsureKey ELSE UNCHANGED <<env, volume, ca, admin, ports, key, fresh>>
Doctor == UNCHANGED <<env, volume, ca, admin, ports, key, fresh>>

Effect(step) ==
    CASE step = "env" -> WriteEnv [] step = "swap" -> Swap [] step = "docker" -> Docker
      [] step = "build" -> BuildImages [] step = "infra" -> Infra [] step = "pki" -> Pki
      [] step = "admin" -> Admin [] step = "stack" -> Stack [] step = "certs" -> Certs
      [] step = "ocm" -> Ocm [] step = "backup" -> BackupKey [] step = "doctor" -> Doctor

\* A step that was not wanted is not marked.
Marked(step) == IF step = "backup" /\ ~wizard.backup THEN done ELSE done \cup {step}
Running == Asking("steps") /\ wizard.step <= Len(Steps)
Name == Steps[wizard.step]
\* The new key is a note for the final screen.
Noted == IF Name = "backup" /\ key' # key THEN {key'} ELSE {}

Skips_NotEnv(step) == step \in done /\ (step = "env" => wizard.reuse)
Skips(step) == step \in done

SkipStep ==
    /\ Running /\ Skips(Name)
    /\ wizard' = [wizard EXCEPT !.step = @ + 1]
    /\ UNCHANGED <<server, known, fresh, failures>>

RunStep_MarkedFirst ==
    /\ Running /\ ~Skips(Name)
    /\ \/ done' = Marked(Name) /\ wizard' = Off /\ failures < MaxFailures
          /\ failures' = failures + 1
          /\ UNCHANGED <<env, volume, ca, admin, key, ports, fresh, known>>
       \/ /\ Effect(Name) /\ done' = Marked(Name)
          /\ wizard' = [wizard EXCEPT !.step = @ + 1, !.notes = @ \cup Noted]
          /\ UNCHANGED <<known, failures>>
RunStep ==
    /\ Running /\ ~Skips(Name)
    /\ Effect(Name) /\ done' = Marked(Name)
    /\ wizard' = [wizard EXCEPT !.step = @ + 1, !.notes = @ \cup Noted]
    /\ UNCHANGED <<known, failures>>

\* The effect is there, wholly or as far as others look at it, and the run is over:
\* `up -d' starts Caddy and fails with another service, the process dies before the mark.
Interrupted ==
    /\ Running /\ ~Skips(Name) /\ failures < MaxFailures
    /\ Effect(Name)
    /\ wizard' = Off /\ failures' = failures + 1
    /\ UNCHANGED <<done, known>>

Fail ==
    /\ wizard.at \notin {"off", "finished"} /\ failures < MaxFailures
    /\ wizard' = Off /\ failures' = failures + 1
    /\ UNCHANGED <<server, known, fresh>>

\* CERT_TIMEOUT_S has passed and the chain of the domain that was answered is not valid.
CertTimeout ==
    /\ Running /\ Name = "certs" /\ ~Skips(Name)
    /\ env.domain # wizard.values.domain
    /\ wizard' = Off
    /\ UNCHANGED <<server, known, fresh, failures>>

FinalScreen ==
    /\ Asking("steps") /\ wizard.step > Len(Steps)
    /\ known' = known \cup wizard.notes \cup
                (IF wizard.generated THEN {wizard.password} ELSE {})
    /\ wizard' = [Off EXCEPT !.at = "finished"]
    /\ UNCHANGED <<server, fresh, failures>>

Init ==
    /\ done = {} /\ env = NoEnv /\ volume = None
    /\ ca = FALSE /\ admin = None /\ key = None /\ ports = FALSE
    /\ wizard = Off /\ known = {} /\ fresh = 1 /\ failures = 0

Ask == Look \/ ChooseEnv \/ CheckDomains \/ AskAdmin \/ AskBackup
Go == SkipStep \/ RunStep \/ CertTimeout \/ FinalScreen
Next == Ask \/ Go \/ StopContainers \/ Interrupted \/ Fail

\* The operator runs the installer until it is finished, and does what it asks for.
Fairness == WF_vars(Ask) /\ WF_vars(Go) /\ WF_vars(StopContainers)

Spec == Init /\ [][Next]_vars
FairSpec == Spec /\ Fairness

----------------------------------------------------------------------------
\* The types; a marked step has had its effect, whatever the runs were that came to it.
TypeOK ==
    /\ done \subseteq Names
    /\ wizard.at \in {"off", "choose", "domains", "admin?", "backup?", "steps", "finished"}
    /\ wizard.step \in 1 .. Len(Steps) + 1
    /\ "env" \in done => env # NoEnv
    /\ "infra" \in done => volume # None
    /\ "pki" \in done => ca
    /\ "admin" \in done => admin # None
    /\ "stack" \in done => ports
    /\ "backup" \in done => key # None
    /\ known \subseteq 1 .. fresh

\* Of _choose_env: the volume of the database keeps the secret it was made with; no later
\* run, whatever is answered, leaves an .env that does not open it.
DatabaseOpens == volume # None => volume = env.secret

\* The CA, the first administrator and the key of copies are made once: clients hold
\* certificates of the one, copies are encrypted with the other.
MadeOnce ==
    [][/\ ca => ca'
       /\ admin # None => admin' = admin
       /\ key # None => key' = key]_vars

\* "The installation goes on from this step": a run that was interrupted anywhere can be
\* repeated until the final screen.
InstallFinishes == <>Asking("finished")

\* The operator knows the password of the first administrator when the installation is
\* finished: typed it, or the final screen has shown the one that was generated.
PasswordIsKnown ==
    Asking("finished") => admin \in known
============================================================================
