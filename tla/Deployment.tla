------------------------------ MODULE Deployment ------------------------------
(***************************************************************************)
(* Releasing a version over the served database: the migration sequence of *)
(* deploy.sh (lib.sh), the backups of backup.sh (by cron, and the kept     *)
(* ones the two other scripts take) and restore.sh, while the application  *)
(* of before or of after serves, commands fail and scripts are killed.     *)
(*                                                                         *)
(* A database is a record of its tables, so that its fingerprint           *)
(* (fingerprint.sql: a count and a digest per table) is the record itself  *)
(* and two fingerprints are compared table by table.                       *)
(***************************************************************************)
EXTENDS Naturals, FiniteSets, Sequences

CONSTANTS
    None,          \* no such database, nothing recorded
    Absent,        \* a table that does not exist
    PairRows,      \* rows of the historical model that 003 deletes
    CardRows,      \* requirements 001 converts, and 003 refuses to lose
    Starts,        \* the databases the first release may find, each with how many events may
                   \* happen: daily backups, writes, commands that fail, wrong archives, kills
    MaxRuns        \* deployments and restorations

Scripts == {"cron", "operator"}
Migrations == {"001", "002", "003", "004", "005", "006", "006/c"}

\* What a table holds, as far as the scripts tell it apart.
Lines == PairRows \cup CardRows
Users == [rows : Nat, role : {"plain", "user", "admin"}]
FlagRows == [hopt : {"null", "true", "false"}, profile : BOOLEAN, choice : {"plain", "yes", "no"}]
Bases == [kept : Nat \cup {Absent}, users : Users \cup {Absent}, flags : FlagRows \cup {Absent},
          decks : {"stale", "current", "lost", Absent}, groups : {"plain", "builtin", Absent},
          legacy : {Absent} \cup SUBSET Lines, requirements : {Absent} \cup SUBSET Lines,
          journal : {Absent} \cup SUBSET Migrations]
Tables == {"kept", "users", "flags", "decks", "groups", "legacy", "requirements", "journal"}
Empty == [t \in Tables |-> Absent]

\* The schema creates its tables together: a base has them all or is empty.
Whole(b) == \A t \in {"kept", "users", "flags", "decks"} : b[t] # Absent
Sound(b) == b \in Bases /\ (b = Empty \/ Whole(b))

ASSUME DeploymentAssumption ==
    /\ \A s \in Starts : Sound(s.base) /\ s.events \in Nat
    /\ None \notin Bases
    /\ Absent \notin Nat /\ Absent \notin Users /\ Absent \notin FlagRows
    /\ Absent \notin {"stale", "current", "lost"} /\ \A ids \in SUBSET Migrations : Absent # ids
    /\ MaxRuns \in Nat

Files == <<"schema", "001", "002", "004", "005", "006">>
AfterPurge == <<"schema", "004", "005", "006">>

VARIABLES
    db,         \* the databases of the cluster: "served", "verify", "staging", "previous"
    app,        \* the application's container: which image, running or not
    archives,   \* every archive written, with its .sha256 and its .fingerprint
    pc,         \* where each script is
    bk,         \* what a backup remembers: its archive, the fingerprint of before
    run,        \* what the operator's script remembers
    owed,       \* history: databases a script has altered or replaced
    agreed,     \* history: the rows the operator was shown and accepted to lose
    disturbed,  \* history: somebody wrote while the operator's script was running
    chosen,     \* history: the last choice made by an application that knows choices
    events, runs
history == <<owed, agreed, disturbed, chosen>>
budget == <<events, runs>>
deploymentVars == <<db, app, archives, pc, bk, run, history, budget>>

-----------------------------------------------------------------------------
(* The database and the migrations.                                        *)

Kept == {"kept", "users"}
TouchedBy003 == {"journal", "flags", "legacy", "requirements"}
MigratedBy006 == {"flags", "groups", "decks"}

Differ(a, b) == {t \in Tables : a[t] # b[t]}
Journal(b) == IF b.journal = Absent THEN {} ELSE b.journal
LegacyRows(b) == IF b.legacy = Absent THEN {} ELSE b.legacy
Created(b, t, value) == IF b[t] = Absent THEN value ELSE b[t]

\* The schema creates what is missing; the historical objects only as long as 003 has not run.
Schema(b) ==
    [b EXCEPT !.kept = Created(b, "kept", 0),
              !.users = Created(b, "users", [rows |-> 0, role |-> "plain"]),
              !.flags = Created(b, "flags", [hopt |-> "null", profile |-> FALSE, choice |-> "plain"]),
              !.decks = Created(b, "decks", "stale"),
              !.legacy = IF "003" \in Journal(b) THEN b.legacy ELSE Created(b, "legacy", {})]

Journaled(b, id) == [b EXCEPT !.journal = Journal(b) \cup {id}]
Migrate001(b) ==
    LET made == [b EXCEPT !.requirements = Created(b, "requirements", {})]
    IN  IF "001" \in Journal(b) THEN made
        ELSE Journaled([made EXCEPT !.requirements = LegacyRows(b) \cap CardRows, !.decks = "stale"], "001")
Migrate002(b) ==
    LET made == [b EXCEPT !.groups = Created(b, "groups", "plain")]
    IN  IF "002" \in Journal(b) THEN made ELSE Journaled([made EXCEPT !.decks = "stale"], "002")
Migrate005(b) ==
    Journaled([b EXCEPT !.users.role = IF @ = "plain" THEN "user" ELSE @], "005")

\* 006: its definitions are replayed every time, its data migrated once, under a second marker:
\* afterwards "false" is a choice of the account and a summary may be current.
Choices(b) == [b EXCEPT !.flags.choice = IF @ = "plain" THEN "no" ELSE @]
MigrateData(b) ==
    Journaled([b EXCEPT !.flags.hopt = IF @ = "false" THEN "null" ELSE @,
                        !.flags.choice = IF b.flags.profile THEN "yes" ELSE "no",
                        !.groups = "builtin",
                        !.decks = "stale"], "006/c")
Migrate006(b) ==
    LET made == Choices(b)
    IN  Journaled(IF "006/c" \in Journal(b) THEN made ELSE MigrateData(made), "006")

Refused(b, file) ==
    \/ file = "002" /\ "001" \notin Journal(b)
    \/ file = "006" /\ ~({"002", "005"} \subseteq Journal(b))
Replayed(b, file) ==
    CASE file = "schema" -> Schema(b)
      [] file = "001" -> Migrate001(b)
      [] file = "002" -> Migrate002(b)
      [] file = "004" -> Journaled(b, "004")
      [] file = "005" -> Migrate005(b)
      [] file = "006" -> Migrate006(b)

\* 003: what it would delete line by line, whose digest the operator accepts; what makes it
\* refuse; and the database after it.
Report(b) == [purged |-> LegacyRows(b) \ CardRows, converted |-> b.requirements]
Reappeared(b) == b.legacy # Absent \/ b.requirements # Absent
Unconverted(b) == ~(LegacyRows(b) \cap CardRows \subseteq b.requirements)
Refuses003(b) ==
    IF "003" \in Journal(b) THEN Reappeared(b)
    ELSE \/ ~({"001", "002"} \subseteq Journal(b))
         \/ b.legacy = Absent \/ b.requirements = Absent
         \/ Unconverted(b)
Purged(b) == Journaled([b EXCEPT !.legacy = Absent, !.requirements = Absent], "003")

-----------------------------------------------------------------------------
(* Scripts: where they begin and end, commands that fail.                  *)

NoRun == [op |-> "none", archive |-> 0, early |-> FALSE, before |-> None, middle |-> None, journal |-> {},
          counts |-> None, todo |-> <<>>, report |-> None, code |-> 0]
NoBackup == [archive |-> 0, before |-> None]

DeploymentInit ==
    /\ \E s \in Starts :
          /\ db = [served |-> s.base, verify |-> None, staging |-> None, previous |-> None]
          /\ events = s.events
    /\ app = [image |-> "old", running |-> TRUE]
    /\ archives = <<>>
    /\ pc = [p \in Scripts |-> "idle"]
    /\ bk = [p \in Scripts |-> NoBackup]
    /\ run = NoRun
    /\ owed = {} /\ agreed = {} /\ disturbed = FALSE /\ chosen = None
    /\ runs = 0

OperatorAt(place) == pc.operator = place
Goes(p, place) == pc' = [pc EXCEPT ![p] = place]
Happens == events > 0 /\ events' = events - 1 /\ UNCHANGED runs
Fails == Happens
Works == UNCHANGED budget

\* The operator's script ends; the code tells how.
Exit(code) == Goes("operator", "idle") /\ run' = [NoRun EXCEPT !.code = code]

\* `dc start app` starts the container there is, whatever its image; `dc up -d` the new image.
StartContainer == app' = [app EXCEPT !.running = TRUE]
StartNewApp == app' = [image |-> "new", running |-> TRUE]

-----------------------------------------------------------------------------
(* backup.sh: by cron while the application serves, or kept, for the       *)
(* operator's script. Both verify in the same scratch database.            *)

Own(p) == archives[bk[p].archive]
Noted(p, archive) == archives' = [archives EXCEPT ![bk[p].archive] = archive]

\* After the backup: the operator's script goes on, or gives up and starts what it stopped.
BackupEnds(p, verified, base) ==
    /\ bk' = [bk EXCEPT ![p] = NoBackup]
    /\ \/ p = "cron" /\ Goes(p, "idle") /\ db' = base /\ UNCHANGED <<app, run>>
       \/ /\ p = "operator" /\ verified /\ run.op = "deploy"
          /\ Goes(p, "archive") /\ run' = [run EXCEPT !.archive = bk[p].archive]
          /\ db' = base /\ UNCHANGED app
       \/ /\ p = "operator" /\ verified /\ run.op = "restore"
          /\ Goes(p, "drop")
          /\ db' = base /\ UNCHANGED <<app, run>>
       \/ /\ p = "operator" /\ ~verified
          /\ StartContainer /\ Exit(1)
          /\ db' = IF run.op = "restore" THEN [base EXCEPT !.staging = None] ELSE base

Cron ==
    /\ pc.cron = "idle" /\ Happens
    /\ Goes("cron", "before")
    /\ UNCHANGED <<db, app, archives, bk, run, history>>

\* The fingerprint of the served database before the export; without one the archive is still made.
Before(p) ==
    /\ pc[p] = "before"
    /\ \/ Works /\ bk' = [bk EXCEPT ![p].before = db.served]
       \/ Fails /\ UNCHANGED bk
    /\ Goes(p, "dump")
    /\ UNCHANGED <<db, app, archives, run, history>>

Wrong(b) == [b EXCEPT !.decks = IF @ = Absent THEN @ ELSE "lost"]
Dump(p) ==
    /\ pc[p] = "dump"
    /\ \/ /\ db.served # None
          /\ \E good \in BOOLEAN :
                /\ IF good THEN Works ELSE Fails
                /\ archives' = Append(archives,
                     [holds |-> IF good THEN db.served ELSE Wrong(db.served), began |-> bk[p].before,
                      kept |-> p = "operator", here |-> TRUE, sum |-> FALSE, fingerprint |-> None,
                      moved |-> {}, crossed |-> FALSE, judged |-> FALSE])
          /\ bk' = [bk EXCEPT ![p].archive = Len(archives) + 1]
          /\ Goes(p, "sum")
          /\ UNCHANGED <<db, app, run>>
       \/ /\ IF db.served = None THEN Works ELSE Fails
          /\ BackupEnds(p, FALSE, db)
          /\ UNCHANGED archives
    /\ UNCHANGED history

\* Only the daily archives grow old; those kept aside do not.
\* Mutant: the kept archives grow old too.
ExpiredWhereverKept(p) == SUBSET {i \in DOMAIN archives : i # bk[p].archive}
Expired(p) == SUBSET {i \in DOMAIN archives : ~archives[i].kept /\ i # bk[p].archive}
Sum(p) ==
    /\ pc[p] = "sum"
    /\ Works
    /\ \E old \in IF p = "cron" THEN Expired(p) ELSE {{}} :
          archives' = [i \in DOMAIN archives |->
                         CASE i = bk[p].archive -> [archives[i] EXCEPT !.sum = TRUE]
                           [] i \in old -> [archives[i] EXCEPT !.here = FALSE]
                           [] OTHER -> archives[i]]
    /\ IF p = "operator" /\ bk[p].before = None
       THEN BackupEnds(p, FALSE, db)
       ELSE Goes(p, "verify") /\ UNCHANGED <<db, app, bk, run>>
    /\ UNCHANGED history

\* The archive restored in the scratch database, which is dropped first, whoever was using it.
Verify(p) ==
    /\ pc[p] = "verify"
    /\ \/ Works /\ db' = [db EXCEPT !.verify = Own(p).holds] /\ Goes(p, "read") /\ UNCHANGED <<app, bk, run>>
       \/ Fails /\ BackupEnds(p, FALSE, [db EXCEPT !.verify = None])
    /\ UNCHANGED <<archives, history>>

Read(p) ==
    /\ pc[p] = "read"
    /\ LET dropped == [db EXCEPT !.verify = None] IN
       \/ /\ Works /\ db.verify # None
          /\ Noted(p, [Own(p) EXCEPT !.fingerprint = db.verify, !.crossed = db.verify # Own(p).holds])
          /\ IF bk[p].before = None THEN BackupEnds(p, TRUE, dropped)
             ELSE Goes(p, "compare") /\ db' = dropped /\ UNCHANGED <<app, bk, run>>
       \/ /\ IF db.verify = None THEN Works ELSE Fails
          /\ BackupEnds(p, FALSE, dropped)
          /\ UNCHANGED archives
    /\ UNCHANGED history

\* Mutant: an archive found wrong keeps the fingerprint it was given.
JudgedAnyway(p, moved, good) ==
    [Own(p) EXCEPT !.judged = TRUE, !.moved = moved]
Judged(p, moved, good) ==
    [Own(p) EXCEPT !.judged = TRUE, !.moved = moved, !.fingerprint = IF good THEN @ ELSE None]

\* The fingerprint of the archive against that of the base before the export, but for the tables
\* that moved meanwhile, of which a kept archive tolerates none. An archive found wrong loses its
\* fingerprint.
Compare(p) ==
    /\ pc[p] = "compare"
    /\ \/ /\ Works /\ db.served # None
          /\ LET moved == Differ(bk[p].before, db.served)
                 good == /\ p = "operator" => moved = {}
                         /\ Differ(bk[p].before, Own(p).fingerprint) \subseteq moved
             IN  /\ Noted(p, Judged(p, moved, good))
                 /\ BackupEnds(p, good, db)
       \/ /\ IF db.served = None THEN Works ELSE Fails
          /\ Noted(p, [Own(p) EXCEPT !.fingerprint = None])
          /\ BackupEnds(p, FALSE, db)
    /\ UNCHANGED history

Backup(p) == Before(p) \/ Dump(p) \/ Sum(p) \/ Verify(p) \/ Read(p) \/ Compare(p)

-----------------------------------------------------------------------------
(* deploy.sh, its sequence of migrations                                   *)

Deploy ==
    /\ OperatorAt("idle") /\ runs < MaxRuns /\ runs' = runs + 1
    /\ Goes("operator", "stop") /\ run' = [NoRun EXCEPT !.op = "deploy"]
    /\ disturbed' = FALSE /\ agreed' = {}
    /\ UNCHANGED <<db, app, archives, bk, owed, chosen, events>>

\* Before anything is altered, as after one of the files was refused: the container that was
\* stopped is started again.
Abort == StartContainer /\ Exit(1) /\ UNCHANGED <<db, archives, bk, history>>

Stop ==
    /\ OperatorAt("stop")
    /\ \/ /\ Works /\ app' = [app EXCEPT !.running = FALSE]
          /\ Goes("operator", IF run.op = "deploy" THEN "fingerprint" ELSE "before")
          /\ UNCHANGED <<db, archives, bk, run, history>>
       \/ Fails /\ run.op = "deploy" /\ Abort
       \/ Fails /\ run.op = "restore" /\ Exit(1) /\ UNCHANGED <<db, app, archives, bk, history>>

Fingerprint ==
    /\ OperatorAt("fingerprint")
    /\ \/ /\ Works /\ db.served # None
          /\ run' = [run EXCEPT !.before = db.served]
          /\ Goes("operator", "before")
          /\ UNCHANGED <<db, app, archives, bk, history>>
       \/ (IF db.served = None THEN Works ELSE Fails) /\ Abort

\* What 006 is about to transform, noted before the replay as long as its data are not migrated.
Counts(b) == [chosen |-> b.flags # Absent /\ b.flags.hopt = "true", profiled |-> b.flags # Absent /\ b.flags.profile]

\* The archive must be of the base fingerprinted at first. The files to replay depend on the
\* journal: 001 and 002 no more once 003 is in it.
Inventory ==
    /\ OperatorAt("archive")
    /\ LET journal == Journal(db.served) IN
       \/ /\ Works /\ Differ(run.before, archives[run.archive].fingerprint) = {}
          /\ run' = [run EXCEPT !.journal = journal,
                                !.counts = IF "006/c" \in journal THEN None ELSE Counts(db.served),
                                !.todo = IF "003" \in journal THEN AfterPurge ELSE Files]
          /\ Goes("operator", "replay")
          /\ UNCHANGED <<db, app, archives, bk, history>>
       \/ (IF Differ(run.before, archives[run.archive].fingerprint) # {} THEN Works ELSE Fails) /\ Abort

\* One file, one transaction.
Replay ==
    /\ OperatorAt("replay") /\ run.todo # <<>>
    /\ LET file == Head(run.todo) IN
       \/ /\ Works /\ ~Refused(db.served, file)
          /\ db' = [db EXCEPT !.served = Replayed(@, file)]
          /\ run' = [run EXCEPT !.todo = Tail(@)]
          /\ owed' = IF disturbed THEN owed ELSE owed \cup {run.before}
          /\ UNCHANGED <<app, archives, pc, bk, agreed, disturbed, chosen>>
       \/ (IF Refused(db.served, file) THEN Works ELSE Fails) /\ Abort

ReplayEnds ==
    /\ OperatorAt("replay") /\ run.todo = <<>>
    /\ \/ /\ Works
          /\ run' = [run EXCEPT !.middle = db.served]
          /\ Goes("operator", "simulate")
          /\ UNCHANGED <<db, app, archives, bk, history>>
       \/ Fails /\ Abort

\* Without 003, because it is refused, fails, or its report is: the new application, on what the
\* other files have made of the base.
WithoutPurge(code) == StartNewApp /\ Exit(code) /\ UNCHANGED <<db, archives, bk, history>>

Already(b) == "003" \in Journal(b) /\ ~Reappeared(b)
Simulate ==
    /\ OperatorAt("simulate")
    /\ \/ /\ Works /\ ~Refuses003(db.served)
          /\ run' = [run EXCEPT !.report = Report(db.served)]
          /\ Goes("operator", CASE Already(db.served) -> "check"
                                [] ~Already(db.served) /\ Report(db.served).purged = {} -> "apply"
                                [] OTHER -> "accept")
          /\ UNCHANGED <<db, app, archives, bk, history>>
       \/ (IF Refuses003(db.served) THEN Works ELSE Fails) /\ WithoutPurge(1)

\* OUI at the terminal, or the fingerprint given with --accept is that of the report.
Accept ==
    /\ OperatorAt("accept") /\ Works
    /\ Goes("operator", "apply")
    /\ agreed' = run.report.purged
    /\ UNCHANGED <<db, app, archives, bk, run, owed, disturbed, chosen>>
Decline == OperatorAt("accept") /\ Works /\ WithoutPurge(3)

\* In the transaction of the purge, the report is made again and compared with the one accepted;
\* with none accepted there must be nothing to delete.
\* Mutant: any report accepted is good enough.
AcceptedUnread(b) == Report(b).purged # {} => run.report.purged # {}
Accepted(b) == Report(b).purged # {} => run.report.purged # {} /\ Report(b) = run.report
Apply ==
    /\ OperatorAt("apply")
    /\ LET b == db.served
           refused == Refuses003(b) \/ (~Already(b) /\ ~Accepted(b))
       IN
       \/ /\ Works /\ ~refused
          /\ db' = [db EXCEPT !.served = IF Already(b) THEN b ELSE Purged(b)]
          /\ Goes("operator", "check")
          /\ UNCHANGED <<app, archives, bk, run, history>>
       \/ (IF refused THEN Works ELSE Fails) /\ WithoutPurge(1)

\* The checks after the migration: the journal and the objects, the tables that had to stay as they
\* were at first, those 003 had no business with, and, table by table, what 006 has done.
ObjectsAreThere(b) == Migrations \subseteq Journal(b) /\ ~Reappeared(b) /\ b.groups = "builtin"
KeptTables(b) ==
    IF run.before = Empty THEN b.kept = 0 /\ b.users.rows = 0
    ELSE LET reshaped == "005" \notin run.journal IN
         /\ reshaped => b.users.rows = run.before.users.rows /\ b.users.role = "user"
         /\ Differ(run.before, b) \cap (IF reshaped THEN Kept \ {"users"} ELSE Kept) = {}
Check006(b) ==
    IF run.counts # None
    THEN /\ b.flags.hopt # "false"
         /\ (b.flags.hopt = "true") = run.counts.chosen
         /\ (b.flags.choice = "yes") = run.counts.profiled
         /\ b.decks = "stale"
    ELSE run.before # Empty /\ "003" \in run.journal => Differ(run.before, b) \cap MigratedBy006 = {}
ChecksPass(b) ==
    /\ ObjectsAreThere(b)
    /\ KeptTables(b)
    /\ Differ(run.middle, b) \subseteq TouchedBy003
    /\ Check006(b)

\* A failed check leaves the application stopped.
Check ==
    /\ OperatorAt("check")
    /\ \/ /\ Works /\ ChecksPass(db.served)
          /\ Goes("operator", "start") /\ UNCHANGED run
       \/ (IF ChecksPass(db.served) THEN Fails ELSE Works) /\ Exit(2)
    /\ UNCHANGED <<db, app, archives, bk, history>>

-----------------------------------------------------------------------------
(* restore.sh                                                              *)

\* The controls that come before anything is touched: the sum of the archive, its fingerprint
\* unless the operator does without, and the archive restored in the staging database.
Restorable(a, blind) ==
    /\ a.here /\ a.sum
    /\ a.fingerprint = None => blind
    /\ a.fingerprint # None => a.fingerprint = a.holds
Restore ==
    /\ OperatorAt("idle") /\ runs < MaxRuns /\ runs' = runs + 1
    /\ \E i \in DOMAIN archives, blind \in BOOLEAN :
          /\ Restorable(archives[i], blind)
          /\ db' = [db EXCEPT !.staging = archives[i].holds]
          /\ run' = [NoRun EXCEPT !.op = "restore", !.archive = i, !.early = blind \/ ~archives[i].judged,
                              !.before = archives[i].holds]
    /\ Goes("operator", "stop")
    /\ disturbed' = FALSE /\ agreed' = {}
    /\ UNCHANGED <<app, archives, bk, owed, chosen, events>>

\* A command of the exchange fails: what is served is in place, and served again.
GiveUp(base) ==
    /\ db' = [base EXCEPT !.staging = None]
    /\ StartContainer /\ Exit(1)
    /\ UNCHANGED <<archives, bk, history>>

DropPrevious ==
    /\ OperatorAt("drop")
    /\ \/ /\ Works /\ db' = [db EXCEPT !.previous = None]
          /\ Goes("operator", "rename")
          /\ UNCHANGED <<app, archives, bk, run, history>>
       \/ Fails /\ GiveUp(db)

Rename ==
    /\ OperatorAt("rename")
    /\ \/ /\ Works /\ db' = [db EXCEPT !.previous = db.served, !.served = None]
          /\ owed' = IF disturbed THEN owed ELSE owed \cup {db.served}
          /\ Goes("operator", "swap")
          /\ UNCHANGED <<app, archives, bk, run, agreed, disturbed, chosen>>
       \/ Fails /\ GiveUp(db)

Swap ==
    /\ OperatorAt("swap")
    /\ \/ /\ Works /\ db' = [db EXCEPT !.served = db.staging, !.staging = None]
          /\ chosen' = None
          /\ Goes("operator", "reread")
          /\ UNCHANGED <<app, archives, bk, run, owed, agreed, disturbed>>
       \/ Fails /\ GiveUp([db EXCEPT !.served = db.previous, !.previous = None])

Reread ==
    /\ OperatorAt("reread")
    /\ \/ /\ Works /\ db.served = run.before
          /\ Goes("operator", "start") /\ UNCHANGED run
       \/ (IF db.served = run.before THEN Fails ELSE Works) /\ Exit(1)
    /\ UNCHANGED <<db, app, archives, bk, history>>

\* Both end with the application: the new image after a release, the container there was after
\* a restoration.
Start ==
    /\ OperatorAt("start")
    /\ \/ Works /\ Exit(0) /\ IF run.op = "deploy" THEN StartNewApp ELSE StartContainer
       \/ Fails /\ Exit(1) /\ UNCHANGED app
    /\ UNCHANGED <<db, archives, bk, history>>

-----------------------------------------------------------------------------
(* The users, somebody at a terminal, disks and kills.                     *)

Serving == db.served # None /\ db.served.kept # Absent
Write ==
    /\ app.running /\ Serving /\ Happens
    /\ app.image = "new" => "006" \in Journal(db.served)
    /\ \/ db' = [db EXCEPT !.served.kept = @ + 1] /\ UNCHANGED chosen
       \/ db' = [db EXCEPT !.served.decks = "current"] /\ UNCHANGED chosen
       \/ \E hopt \in {"true", "false"} :
             /\ db' = [db EXCEPT !.served.flags.hopt = hopt]
             /\ chosen' = IF app.image = "new" /\ "006/c" \in Journal(db.served) THEN hopt ELSE None
    /\ UNCHANGED <<app, archives, pc, bk, run, owed, agreed, disturbed>>

Stray ==
    /\ ~OperatorAt("idle") /\ Serving /\ Happens
    /\ \/ db' = [db EXCEPT !.served.kept = @ + 1] /\ UNCHANGED chosen
       \/ /\ db.served.users.role # "plain"
          /\ db' = [db EXCEPT !.served.users.role = "admin"] /\ UNCHANGED chosen
       \/ \E r \in PairRows \cup CardRows :
             db' = [db EXCEPT !.served.legacy = LegacyRows(db.served) \cup {r}] /\ UNCHANGED chosen
       \/ db' = [db EXCEPT !.served.flags.hopt = "true"] /\ chosen' = None
    /\ disturbed' = TRUE
    /\ UNCHANGED <<app, archives, pc, bk, run, owed, agreed>>

\* An archive altered on its disk: its sum no longer holds.
Spoil ==
    /\ Fails
    /\ \E i \in DOMAIN archives :
          /\ archives[i].sum
          /\ archives' = [archives EXCEPT ![i].holds = Wrong(@), ![i].sum = FALSE]
    /\ UNCHANGED <<db, app, pc, bk, run, history>>

Kill(p) ==
    /\ pc[p] # "idle" /\ Fails
    /\ Goes(p, "idle")
    /\ bk' = [bk EXCEPT ![p] = NoBackup]
    /\ run' = IF p = "operator" THEN [NoRun EXCEPT !.code = 1] ELSE run
    /\ UNCHANGED <<db, app, archives, history>>

DeploymentNext ==
    \/ Cron \/ \E p \in Scripts : Backup(p) \/ Kill(p)
    \/ Deploy \/ Stop \/ Fingerprint \/ Inventory \/ Replay \/ ReplayEnds
    \/ Simulate \/ Accept \/ Decline \/ Apply \/ Check \/ Start
    \/ Restore \/ DropPrevious \/ Rename \/ Swap \/ Reread
    \/ Write \/ Stray \/ Spoil
DeploymentSpec == DeploymentInit /\ [][DeploymentNext]_deploymentVars

-----------------------------------------------------------------------------
(* Properties                                                              *)

\* Whatever a script has altered or replaced can be had back: it is still a database of the
\* cluster, or an archive restore.sh accepts restores exactly that (unless the disk spoilt it, or
\* two verifications at once have read each other's scratch database). Through commands that fail,
\* kills, a second release, a restoration of a restoration, and the retention of archives.
Held(base) ==
    \/ base \in {db.served, db.previous}
    \/ \E i \in DOMAIN archives :
          LET a == archives[i] IN
          a.here /\ a.fingerprint = base /\ (a.holds = base \/ ~a.sum \/ a.crossed)
NothingIsLost == \A base \in owed : Held(base)

\* A restoration that ends well serves what the archive was made of: table by table the database
\* its backup began with, but for the tables that moved during a daily one. Unless the operator
\* does without the fingerprint, or takes an archive its backup has not judged (killed, still
\* comparing, or without a fingerprint to compare with).
RestoresExactly ==
    [][OperatorAt("reread") /\ pc'.operator = "start" =>
          LET a == archives[run.archive] IN
          run.early \/ Differ(db.served, a.began) \subseteq a.moved]_deploymentVars

\* A release that reaches its start has kept every account, deck and card, purged exactly the rows
\* the operator was shown, and left the choices as they were, the first time those of before read
\* as 006 says; somebody writing meanwhile stops it, in any table 006 does not migrate.
Reads(old, new) ==
    /\ new.profile = old.profile
    /\ new.hopt = IF "006/c" \notin run.journal /\ old.hopt = "false" THEN "null" ELSE old.hopt
ReleasesWhatWasThere ==
    [][/\ OperatorAt("apply") /\ pc'.operator = "check" => LegacyRows(db.served) \ CardRows \subseteq agreed
       /\ OperatorAt("check") /\ pc'.operator = "start" =>
             LET old == run.before
                 new == db.served
             IN  /\ Migrations \subseteq new.journal /\ new.legacy = Absent /\ new.requirements = Absent
                 /\ old # Empty => new.kept = old.kept /\ new.users.rows = old.users.rows
                 /\ old = Empty => new.kept = 0 /\ new.users.rows = 0
                 /\ old # Empty /\ ~disturbed => Reads(old.flags, new.flags)]_deploymentVars

\* What the new application's users have chosen since 006 stays chosen, however often the files
\* are replayed, and whatever makes a release stop in the middle.
ChoicesSurvive == chosen # None /\ db.served # None => db.served.flags.hopt = chosen

\* Neither a database nor a choice made in it is taken back by the scripts.
NothingIsTakenBack == NothingIsLost /\ ChoicesSurvive
=============================================================================
