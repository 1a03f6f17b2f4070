-------------------------------- MODULE Host --------------------------------
(***************************************************************************)
(* `ocm' on the server (deploy/installer/ocm.py, backup.py): copies, their *)
(* restoration, the update of the code and the way back from it.  Every    *)
(* docker, git or file command is a step; each may fail, and the process   *)
(* may be killed before it (Fail), which leaves what was done so far.      *)
(*                                                                         *)
(* Two processes run ocm: the operator, one command at a time, and the     *)
(* systemd timer, which only makes copies.  No lock keeps them apart, and  *)
(* both use the file /tmp/ocm.dump of the postgres container.              *)
(*                                                                         *)
(* The database is what it holds (a number, one more with each change) and *)
(* the number of migrations it has; the CA changes with it.  The unit of   *)
(* the clock is a minute: the names of copies have no seconds.  Left out   *)
(* are the .env, a second copy on another server (its failure is Fail at   *)
(* the step "offsite") and what is printed.                                *)
(*                                                                         *)
(* An operator X_Y is X with the slip Y, as in SubscriptionState.          *)
(***************************************************************************)
EXTENDS Integers, FiniteSets, Functions

CONSTANTS Keep, KeepEmergency,           \* copies of each kind that prune leaves
          Migrations,                    \* revisions of the code that bring a migration
          Together,                      \* the timer may run beside the operator
          MaxRev, MaxData, MaxNow,       \* bounds of the model
          MaxCommands,                   \* bound of the model: what the operator types
          MaxFailures                    \* bound of the model: steps that fail

HostAssumption ==
    /\ Keep \in Nat \ {0} /\ KeepEmergency \in Nat \ {0} /\ Migrations \subseteq Nat
    /\ MaxRev \in Nat \ {0} /\ MaxData \in Nat \ {0}
    /\ {MaxNow, MaxCommands, MaxFailures} \subseteq Nat
    /\ Together \in BOOLEAN

VARIABLES db, pki,    \* the database; the volume of the CA
          git,        \* the branch, its remote, and the commit checked out instead (or 0)
          image, up,  \* the revision of the images; the revision the app runs (or 0)
          enabled,    \* the key of copies and the timer are there
          previous,   \* deploy/.previous-rev
          copies,     \* the files of backup_dir, and what each holds
          dump,       \* /tmp/ocm.dump
          run,        \* each process: its command, its next step, its files
          now, typed, failures

host == <<db, pki, git, image, up, enabled, previous, copies, dump>>
vars == <<host, run, now, typed, failures>>

Schema(rev) == Cardinality({m \in Migrations : m <= rev})
Db(is, data, schema) == [is |-> is, data |-> data, schema |-> schema]
NoDatabase == Db("gone", 0, 0)
Empty == Db("empty", 0, 0)
Missing == [kind |-> "none", at |-> 0]
Nothing == [db |-> NoDatabase, pki |-> 0]
NoRecord == [rev |-> 0, file |-> Missing]
Task(cmd, at, made, work) ==
    [cmd |-> cmd, at |-> at, made |-> made, got |-> NoDatabase, work |-> work]
Idle == Task("none", "idle", Missing, Nothing)
Procs == {"operator", "timer"}

Head == IF git.at = 0 THEN git.branch ELSE git.at
KeptElsewhere == [kind |-> "elsewhere", at |-> 0]
Daily == [kind |-> "daily", at |-> now]
Emergency == [kind |-> "emergency", at |-> now]
Newer(f) == {g \in DOMAIN copies : g.kind = f.kind /\ g.at > f.at}

----------------------------------------------------------------------------
\* Commands.
Begin(p, task) ==
    /\ run[p] = Idle /\ (Together \/ \A q \in Procs : run[q] = Idle)
    /\ run' = [run EXCEPT ![p] = task]
    /\ UNCHANGED <<host, now, failures>>
Type(task) == typed < MaxCommands /\ typed' = typed + 1 /\ Begin("operator", task)

\* The key is made once; writing the units again changes nothing.
BackupEnable ==
    /\ run["operator"] = Idle /\ ~enabled
    /\ enabled' = TRUE
    /\ UNCHANGED <<db, pki, git, image, up, previous, copies, dump, run, now, typed, failures>>

MakingCopy(cmd) == Task(cmd, "dump", Daily, Nothing)
Backup == enabled /\ Type(MakingCopy("backup"))
TimerBackup == enabled /\ Begin("timer", MakingCopy("backup")) /\ UNCHANGED typed

\* Refused on a commit that was checked out, and when there is nothing new.
Update ==
    /\ git.at = 0 /\ git.branch < git.remote
    /\ Type(IF enabled THEN MakingCopy("update") ELSE Task("update", "record", Missing, Nothing))

\* extract comes before any change, so that the file is not needed any more.
Restoring(file, emergency) ==
    Task("restore", IF emergency THEN "dump" ELSE "stop", Emergency, copies[file])
Restore(file, emergency) == enabled /\ file \in DOMAIN copies /\ Type(Restoring(file, emergency))

\* A restoration was interrupted: the operator repeats it, as the message says.
RestoreAgain ==
    /\ enabled /\ db.is # "whole"
    /\ Begin("operator", Restoring(KeptElsewhere, FALSE)) /\ UNCHANGED typed

Rollback == previous # NoRecord /\ Type(Task("rollback", "checkout", Missing, Nothing))

\* git switch, as the rollback tells.
SwitchBack ==
    /\ run["operator"] = Idle /\ git.at # 0
    /\ git' = [git EXCEPT !.at = 0]
    /\ UNCHANGED <<db, pki, image, up, enabled, previous, copies, dump, run, now, typed, failures>>

----------------------------------------------------------------------------
\* A step of process p: what it does to the server, and the step after it.
Goto(p, at) == run' = [run EXCEPT ![p].at = at]
Done(p) == run' = [run EXCEPT ![p] = Idle]

\* backup.create: pg_dump into the container, out of the container, rm; then the CA and the file.
CanDump == db.is # "gone"
Dump(p) ==
    /\ run[p].at = "dump" /\ CanDump
    /\ dump' = db
    /\ Goto(p, "fetch")
    /\ UNCHANGED <<db, pki, git, image, up, enabled, previous, copies>>

Fetch(p) ==
    /\ run[p].at = "fetch" /\ dump # NoDatabase
    /\ run' = [run EXCEPT ![p] = [cmd |-> @.cmd, at |-> "clear", made |-> @.made, got |-> dump,
                                  work |-> @.work]]
    /\ UNCHANGED host

Clear(p) ==
    /\ run[p].at = "clear"
    /\ dump' = NoDatabase
    /\ Goto(p, "pack")
    /\ UNCHANGED <<db, pki, git, image, up, enabled, previous, copies>>

Pack(p) ==
    /\ run[p].at = "pack"
    /\ copies' = [f \in DOMAIN copies \cup {run[p].made} |->
                    IF f = run[p].made THEN [db |-> run[p].got, pki |-> pki] ELSE copies[f]]
    /\ Goto(p, IF run[p].cmd = "restore" THEN "stop" ELSE "prune")
    /\ UNCHANGED <<db, pki, git, image, up, enabled, previous, dump>>

Prune_AllAlike(p) ==
    LET Rank(kind) == CASE kind = "daily" -> 1 [] kind = "emergency" -> 2 [] OTHER -> 3
        Later(f) == {g \in DOMAIN copies \ {KeptElsewhere} :
                       Rank(g.kind) > Rank(f.kind) \/ (g.kind = f.kind /\ g.at > f.at)}
    IN  /\ run[p].at = "prune"
        /\ copies' = Restrict(copies, {f \in DOMAIN copies :
                         f = KeptElsewhere \/ Cardinality(Later(f)) < Keep})
        /\ Goto(p, "offsite")
        /\ UNCHANGED <<db, pki, git, image, up, enabled, previous, dump>>
\* record_success, and prune: both kinds of copies, each by its own number.
Prune(p) ==
    LET Number(f) == IF f.kind = "daily" THEN Keep ELSE KeepEmergency
    IN  /\ run[p].at = "prune"
        /\ copies' = Restrict(copies, {f \in DOMAIN copies :
                         f = KeptElsewhere \/ Cardinality(Newer(f)) < Number(f)})
        /\ Goto(p, "offsite")
        /\ UNCHANGED <<db, pki, git, image, up, enabled, previous, dump>>

Offsite(p) ==
    /\ run[p].at = "offsite"
    /\ IF run[p].cmd = "update" THEN Goto(p, "record") ELSE Done(p)
    /\ UNCHANGED host

----------------------------------------------------------------------------
\* The update and the rollback.
Record ==
    /\ run["operator"].at = "record"
    /\ previous' = [rev |-> git.branch, file |-> run["operator"].made]
    /\ Goto("operator", "pull")
    /\ UNCHANGED <<db, pki, git, image, up, enabled, copies, dump>>

Pull ==
    /\ run["operator"].at = "pull"
    /\ git' = [git EXCEPT !.branch = git.remote]
    /\ Goto("operator", "build")
    /\ UNCHANGED <<db, pki, image, up, enabled, previous, copies, dump>>

Checkout_Branch ==
    /\ run["operator"].at = "checkout"
    /\ git' = [git EXCEPT !.branch = previous.rev]
    /\ Goto("operator", "build")
    /\ UNCHANGED <<db, pki, image, up, enabled, previous, copies, dump>>
Checkout ==
    /\ run["operator"].at = "checkout"
    /\ git' = [git EXCEPT !.at = previous.rev]
    /\ Goto("operator", "build")
    /\ UNCHANGED <<db, pki, image, up, enabled, previous, copies, dump>>

Build ==
    /\ run["operator"].at = "build"
    /\ image' = Head
    /\ Goto("operator", "up")
    /\ UNCHANGED <<db, pki, git, up, enabled, previous, copies, dump>>

\* up -d: alembic upgrade head first, which fails on a database with migrations that the
\* image does not know; then the app.
CanStart == db.is # "gone" /\ db.schema <= Schema(image)
Up ==
    /\ run["operator"].at = "up" /\ CanStart
    /\ db' = Db(IF db.is = "empty" THEN "whole" ELSE db.is, db.data, Schema(image))
    /\ up' = image
    /\ IF run["operator"].cmd = "rollback" /\ previous.file # Missing
       THEN Goto("operator", "ask") ELSE Done("operator")
    /\ UNCHANGED <<pki, git, image, enabled, previous, copies, dump>>

\* The question of rollback about the data: no, or yes and the file is still there.
Ask ==
    /\ run["operator"].at = "ask"
    /\ \/ Done("operator")
       \/ /\ previous.file \in DOMAIN copies
          /\ run' = [run EXCEPT !["operator"] = Restoring(previous.file, TRUE)]
    /\ UNCHANGED host

----------------------------------------------------------------------------
\* backup.restore, after the emergency copy.
StopApp_Skipped ==
    /\ run["operator"].at = "stop"
    /\ Goto("operator", "drop")
    /\ UNCHANGED host
StopApp ==
    /\ run["operator"].at = "stop"
    /\ up' = 0
    /\ Goto("operator", "drop")
    /\ UNCHANGED <<db, pki, git, image, enabled, previous, copies, dump>>

Drop_Existing ==
    /\ run["operator"].at = "drop" /\ db.is # "gone"
    /\ db' = NoDatabase
    /\ Goto("operator", "create")
    /\ UNCHANGED <<pki, git, image, up, enabled, previous, copies, dump>>
\* DROP DATABASE IF EXISTS.
Drop ==
    /\ run["operator"].at = "drop"
    /\ db' = NoDatabase
    /\ Goto("operator", "create")
    /\ UNCHANGED <<pki, git, image, up, enabled, previous, copies, dump>>

CreateDatabase ==
    /\ run["operator"].at = "create"
    /\ db' = Empty
    /\ Goto("operator", "copyin")
    /\ UNCHANGED <<pki, git, image, up, enabled, previous, copies, dump>>

CopyIn ==
    /\ run["operator"].at = "copyin"
    /\ dump' = run["operator"].work.db
    /\ Goto("operator", "load")
    /\ UNCHANGED <<db, pki, git, image, up, enabled, previous, copies>>

Load_Lenient ==
    /\ run["operator"].at = "load" /\ dump # NoDatabase
    /\ \/ db' = dump
       \/ db' = Db("partial", dump.data, dump.schema)
    /\ Goto("operator", "remove")
    /\ UNCHANGED <<pki, git, image, up, enabled, previous, copies, dump>>
\* pg_restore --exit-on-error.
Load ==
    /\ run["operator"].at = "load" /\ dump # NoDatabase
    /\ db' = dump
    /\ Goto("operator", "remove")
    /\ UNCHANGED <<pki, git, image, up, enabled, previous, copies, dump>>

Remove ==
    /\ run["operator"].at = "remove"
    /\ dump' = NoDatabase
    /\ Goto("operator", "unpack")
    /\ UNCHANGED <<db, pki, git, image, up, enabled, previous, copies>>

Unpack ==
    /\ run["operator"].at = "unpack"
    /\ pki' = run["operator"].work.pki
    /\ Goto("operator", "up")
    /\ UNCHANGED <<db, git, image, up, enabled, previous, copies, dump>>

----------------------------------------------------------------------------
\* The step cannot be done: pg_dump of no database, a dump that is not there, a newer schema.
Impossible(p) ==
    \/ run[p].at = "dump" /\ ~CanDump
    \/ run[p].at \in {"fetch", "load"} /\ dump = NoDatabase
    \/ run[p].at = "up" /\ ~CanStart

\* The command ends before the step; pg_restore may have done a part of it, and a copy
\* that failed removes its dump.
Fail(p) ==
    /\ run[p].at \notin {"idle", "ask"}
    /\ \/ Impossible(p) /\ UNCHANGED failures
       \/ failures < MaxFailures /\ failures' = failures + 1
    /\ Done(p)
    /\ db' = IF run[p].at = "load" /\ dump # NoDatabase /\ db = Empty
             THEN Db("partial", dump.data, dump.schema) ELSE db
    /\ dump' = IF run[p].at \in {"fetch", "clear"} THEN NoDatabase ELSE dump
    /\ UNCHANGED <<pki, git, image, up, enabled, previous, copies, now, typed>>

\* The app changes the database and the CA.
Write ==
    /\ up # 0 /\ db.is = "whole" /\ db.data < MaxData
    /\ db' = [db EXCEPT !.data = @ + 1] /\ pki' = db.data + 1
    /\ UNCHANGED <<git, image, up, enabled, previous, copies, dump, run, now, typed, failures>>

Publish ==
    /\ git.remote < MaxRev
    /\ git' = [git EXCEPT !.remote = @ + 1]
    /\ UNCHANGED <<db, pki, image, up, enabled, previous, copies, dump, run, now, typed, failures>>

\* Other commands take less than a minute.
Tick ==
    /\ now < MaxNow /\ (\A p \in Procs : run[p] = Idle) /\ now' = now + 1
    /\ UNCHANGED <<host, run, typed, failures>>

Init ==
    /\ db = Db("whole", 1, Schema(1)) /\ pki = 1
    /\ git = [branch |-> 1, remote |-> 1, at |-> 0] /\ image = 1 /\ up = 1
    /\ enabled = FALSE /\ previous = NoRecord
    /\ copies = [f \in {KeptElsewhere} |-> [db |-> Db("whole", 0, 0), pki |-> 0]]
    /\ dump = NoDatabase
    /\ run = [p \in Procs |-> Idle]
    /\ now = 1 /\ typed = 0 /\ failures = 0

CopyStep(p) ==
    /\ Dump(p) \/ Fetch(p) \/ Clear(p) \/ Pack(p) \/ Prune(p) \/ Offsite(p)
    /\ UNCHANGED <<now, typed, failures>>
UpdateStep ==
    \/ (Record \/ Pull \/ Checkout \/ Up \/ Ask) /\ UNCHANGED <<now, typed, failures>>
    \* Images take longer than a minute to build.
    \/ Build /\ now' = now + 1 /\ UNCHANGED <<typed, failures>>
RestoreStep ==
    /\ StopApp \/ Drop \/ CreateDatabase \/ CopyIn \/ Load \/ Remove \/ Unpack
    /\ UNCHANGED <<now, typed, failures>>

Command ==
    \/ Backup \/ Update \/ Rollback
    \/ \E file \in DOMAIN copies, emergency \in BOOLEAN : Restore(file, emergency)

Next ==
    \/ Command \/ RestoreAgain \/ TimerBackup \/ BackupEnable \/ SwitchBack
    \/ \E p \in Procs : CopyStep(p) \/ Fail(p)
    \/ UpdateStep \/ RestoreStep
    \/ Write \/ Publish \/ Tick

\* Commands come to an end, and the operator repeats a restoration that was interrupted,
\* at some moment when the timer is not at work.
Fairness ==
    /\ \A p \in Procs : WF_vars(CopyStep(p)) /\ WF_vars(Impossible(p) /\ Fail(p))
    /\ WF_vars(UpdateStep \/ RestoreStep)
    /\ SF_vars(RestoreAgain)

Spec == Init /\ [][Next]_vars
FairSpec == Spec /\ Fairness

----------------------------------------------------------------------------
\* The types; the branch never falls behind what was built from it, no copy is of no database.
TypeOK ==
    /\ db.is \in {"whole", "empty", "partial", "gone"}
    /\ db.data \in 0 .. MaxData /\ pki \in 0 .. MaxData
    /\ db.schema \in 0 .. Schema(MaxRev)
    /\ git.branch \in 1 .. git.remote /\ git.at \in 0 .. git.branch
    /\ image \in 1 .. git.branch /\ up \in 0 .. git.branch
    /\ previous.rev \in 0 .. git.branch
    /\ \A f \in DOMAIN copies : copies[f].db.is # "gone"
    /\ \A p \in Procs : run[p].at \in {"dump", "fetch", "clear", "pack"} => run[p].made.at \in 1 .. now

\* Of restore: the database and the CA come back from the copy; the dump that is loaded may
\* not be another one, nor a part of it.
RestoredIsTheCopy ==
    run["operator"].at = "up" /\ run["operator"].cmd = "restore" =>
        db = run["operator"].work.db /\ pki = run["operator"].work.pki

\* The app runs only on a database with exactly the migrations of its revision, through
\* updates, rollbacks and restorations that are interrupted anywhere: it never sees the
\* database dropped or filled under it.
AppKnowsItsSchema ==
    up # 0 => db.is \notin {"gone", "empty"} /\ db.schema = Schema(up)

\* The copy that .previous-rev names can be read by the code it names, and prune gives it up
\* only for as many newer daily copies as are kept, however many emergency copies there are.
UpdateCanGoBack ==
    previous.file # Missing =>
        IF previous.file \in DOMAIN copies
        THEN copies[previous.file].db.schema <= Schema(previous.rev)
        ELSE Cardinality(Newer(previous.file)) >= Keep

\* A restoration interrupted between any two steps can be repeated until the data is back.
RestoreIsFinished == []<>(db.is = "whole")
============================================================================
