----------------------------- MODULE ProjectStore -----------------------------
(***************************************************************************)
(* The project database: create_project, open_project_database with its    *)
(* migrations, and the imports of media, routes and official features      *)
(* (src-tauri/src/project_store.rs, route_import.rs, gis_import.rs).       *)
(*                                                                         *)
(* Every command opens the database anew: it reads the version, migrates   *)
(* in one transaction when the version is old, reads the recorded version  *)
(* and the project, and then works.  Nothing keeps a second instance of    *)
(* the application from opening the same project.                          *)
(*                                                                         *)
(* SQLite is a copy of the database that a transaction changes statement   *)
(* by statement and publishes when it commits; one transaction writes at a *)
(* time, and one that waits too long for its turn ends with an error.      *)
(*                                                                         *)
(* A schema is the set of the migration scripts whose tables and columns   *)
(* are there.  Rows: a job [type, status, subject] and the media asset,    *)
(* route or feature source that is its subject [table, status, rows,       *)
(* declared], with the number of points or features stored for it.         *)
(***************************************************************************)
EXTENDS SourceFiles

CONSTANTS Instances,
          Databases,      \* the projects of earlier releases a launch may find
          RouteFiles, Datasets, GisRequests,
          StoreFaults     \* "disk": a statement fails; "busy": the lock is not had in
                          \* time; "crash"

Current == 8
Scripts == 1..(Current - 1)
JobTypes == {"proxy", "valhalla", "gis", "cv", "gpstitch"}
Imports == {"media", "route", "source"}
Operations == {"load", "proxy"} \union Imports

\* Identities: the rows of an earlier release, the rows its migration adds, and the
\* rows of the import of an instance.
OldJobs == {"legacy-" \o type : type \in JobTypes}
OldSubjects == {"legacy-media", "legacy-route", "legacy-source"}
JobIds == OldJobs \union Instances
SubjectIds == OldSubjects \union Instances
NoSubject == "blank"

NoJobRow == [type |-> "none", status |-> "none", subject |-> NoSubject]
NoRow == [table |-> "none", status |-> "none", rows |-> 0, declared |-> 0]

RowStatuses == {"none", "queued", "running", "complete", "failed"}

Contents ==
    [version : 0..Current, recorded : 0..Current, scripts : SUBSET Scripts, project : BOOLEAN,
     jobs : [JobIds -> [type : JobTypes \union {"none"}, status : RowStatuses,
                        subject : SubjectIds \union {NoSubject}]],
     subjects : [SubjectIds -> [table : Imports \union {"none"}, status : RowStatuses,
                                rows : Nat, declared : Nat]],
     points : Nat, features : Nat]

\* import_gpx and import_gis read and parse the source before they open the project, and
\* import_route_at validates what they found
Parsed(operation) ==
    CASE operation = "route"  ->
            {r \in {RoutePoints(f) : f \in {g \in RouteFiles : GpxIsValid(g)}} :
                RoutePointsAreValid(r)}
      [] operation = "source" -> UNION {Normalized(d, r) : d \in Datasets, r \in GisRequests}
      [] OTHER                -> {NoRows}

\* the type of the job that an import queues, and the migration that gives the jobs of
\* that type a column for their subject
JobTypeOf(operation) ==
    CASE operation = "media" -> "proxy" [] operation = "route" -> "valhalla" [] OTHER -> "gis"

ColumnScript(table) == CASE table = "media" -> 2 [] table = "route" -> 3 [] OTHER -> 4

Refers(db, j) == db.jobs[j].subject # NoSubject

\* an imported subject has all its rows and its job
IsWhole(db, s) ==
    db.subjects[s] # NoRow =>
        /\ db.subjects[s].rows = db.subjects[s].declared
        /\ db.jobs[s].subject = s

\* a job refers to a row of its own table, once the column is there
RefersToItsTable(db, j, next) ==
    Refers(db, j) =>
        LET table == db.subjects[db.jobs[j].subject].table
        IN  table \in Imports /\ db.jobs[j].type = JobTypeOf(table) /\ ColumnScript(table) < next

\* a job that waits or runs and the row of its subject say the same
SubjectAgrees(db, j) ==
    Refers(db, j) /\ db.jobs[j].status \in {"queued", "running"} =>
        db.subjects[db.jobs[j].subject].status = db.jobs[j].status

\* a media asset has one proxy
OwnSubject(db, j) ==
    Refers(db, j) /\ db.jobs[j].type = "proxy" =>
        \A k \in JobIds : db.jobs[k].subject = db.jobs[j].subject => k = j

\* What the rows of a database keep to whose next migration script is "next".
RowsAreSound(db, next) ==
    /\ \A s \in Instances : IsWhole(db, s)
    /\ \A j \in JobIds : /\ RefersToItsTable(db, j, next)
                         /\ SubjectAgrees(db, j)
                         /\ OwnSubject(db, j)
    /\ db.subjects["legacy-route"].table \in {"none", "route"}
    /\ db.subjects["legacy-source"].table \in {"none", "source"}

\* A project an earlier release has created, migrated and worked in.
IsOfRelease(db) ==
    /\ db \in Contents
    /\ db.project /\ db.version # 0 /\ db.recorded = db.version
    /\ db.scripts = 1..(db.version - 1)
    /\ RowsAreSound(db, db.version)

ASSUME StoreAssumption ==
    /\ \A db \in Databases : IsOfRelease(db)
    /\ Instances \intersect (OldJobs \union OldSubjects \union {NoSubject, "none"}) = {}

\* a source has finitely many points or features
ASSUME SourceAssumption ==
    \A operation \in Imports : \A rows \in Parsed(operation) : Len(rows) \in Nat

VARIABLES
    database,  \* what is committed
    writer,    \* the instance whose transaction writes
    work,      \* its copy
    pc,        \* where the command of an instance stands
    op,        \* its command
    seen,      \* local: the version it read
    source,    \* local: what the import stores, one entry for each point or feature
    ran,       \* history: the jobs an instance works on
    refused    \* history: unfinished jobs that nobody works on and a start refused

storeVars == <<database, writer, work, pc, op, seen, source, ran, refused>>

\* A database file before create_project, and one of this release without rows.
Nothing == [version |-> 0, recorded |-> 0, scripts |-> {}, project |-> FALSE,
            jobs |-> [j \in JobIds |-> NoJobRow],
            subjects |-> [s \in SubjectIds |-> NoRow],
            points |-> 0, features |-> 0]

StoreInit ==
    /\ database \in Databases \union {Nothing}
    /\ writer = "none" /\ work = Nothing
    /\ pc = [i \in Instances |-> "idle"]
    /\ op = [i \in Instances |-> "load"]
    /\ seen = [i \in Instances |-> 0]
    /\ source = [i \in Instances |-> NoRows]
    /\ ran = [i \in Instances |-> {}]
    /\ refused = {}

-----------------------------------------------------------------------------
Moves(i, from, to) ==
    /\ pc[i] = from
    /\ pc' = [pc EXCEPT ![i] = to]

locals == <<op, seen, source>>
history == <<ran, refused>>

Creating == {"schema", "tables", "info", "project"}

-----------------------------------------------------------------------------
(* create_project: the batch of the schema begins with user_version; the   *)
(* version row and the project row follow.                                 *)

Create(i) ==
    /\ database = Nothing /\ \A k \in Instances : pc[k] = "idle"
    /\ Moves(i, "idle", "schema")
    /\ UNCHANGED <<database, writer, work, locals, history>>

CreateStep(i) ==
    /\ \/ /\ Moves(i, "schema", "tables")
          /\ database' = [database EXCEPT !.version = Current]
       \/ /\ Moves(i, "tables", "info")
          /\ database' = [database EXCEPT !.scripts = Scripts]
       \/ /\ Moves(i, "info", "project")
          /\ database' = [database EXCEPT !.recorded = Current]
       \/ /\ Moves(i, "project", "idle")
          /\ database' = [database EXCEPT !.project = TRUE]
    /\ UNCHANGED <<writer, work, locals, history>>

\* an error removes the directory
CreateFails(i) ==
    /\ "disk" \in StoreFaults /\ pc[i] \in Creating
    /\ Moves(i, pc[i], "idle")
    /\ database' = Nothing
    /\ UNCHANGED <<writer, work, locals, history>>

-----------------------------------------------------------------------------
(* Transactions.                                                           *)

Begin(i) == writer = "none" /\ writer' = i /\ work' = database /\ UNCHANGED database

\* mutant: every statement is a transaction of its own
StatementAlone(i, db) == writer = i /\ work' = db /\ database' = db /\ UNCHANGED writer

Statement(i, db) == writer = i /\ work' = db /\ UNCHANGED <<database, writer>>

Commit(i, db) == writer = i /\ database' = db /\ writer' = "none" /\ work' = Nothing

\* the transaction is dropped with its connection
RollBack(i) ==
    /\ writer' = IF writer = i THEN "none" ELSE writer
    /\ work' = IF writer = i THEN Nothing ELSE work
    /\ UNCHANGED database

\* the command ends with an error
EndWithError(i) ==
    /\ Moves(i, pc[i], "idle")
    /\ RollBack(i)
    /\ UNCHANGED <<locals, ran>>

\* a statement fails, or its turn to write does not come in time
Fail(i) ==
    /\ pc[i] \notin Creating \union {"idle"}
    /\ \/ "disk" \in StoreFaults
       \/ "busy" \in StoreFaults /\ writer \notin {i, "none"} /\ pc[i] \in {"begin", "import"}
    /\ EndWithError(i) /\ UNCHANGED refused

-----------------------------------------------------------------------------
(* The migration scripts.  A script that creates a table or adds a column  *)
(* that is there fails; the first one alone tolerates its table.           *)

Requeued(db, types) ==
    [db EXCEPT !.jobs = [j \in JobIds |->
        IF db.jobs[j].type \in types /\ db.jobs[j].status = "running"
        THEN [db.jobs[j] EXCEPT !.status = "queued"] ELSE db.jobs[j]]]

\* anonymous rows of a snapshot get a subject, and the jobs of the type refer to it
Adopted(db, types, subject, table, rows) ==
    IF rows = 0 THEN db
    ELSE [db EXCEPT
            !.subjects[subject] = [table |-> table, status |-> "complete",
                                   rows |-> rows, declared |-> rows],
            !.jobs = [j \in JobIds |->
                IF db.jobs[j].type \in types /\ db.jobs[j].subject = NoSubject
                THEN [db.jobs[j] EXCEPT !.subject = subject] ELSE db.jobs[j]]]

\* mutant: the row of the subject keeps what it says
SubjectsKept(db, types) == db

\* the subjects of queued jobs are queued as well
SubjectsQueued(db, types) ==
    [db EXCEPT !.subjects = [s \in SubjectIds |->
        IF \E j \in JobIds : /\ db.jobs[j].type \in types
                             /\ db.jobs[j].status = "queued"
                             /\ db.jobs[j].subject = s
        THEN [db.subjects[s] EXCEPT !.status = "queued"] ELSE db.subjects[s]]]

MediaRequeued(db) ==
    [db EXCEPT !.subjects = [s \in SubjectIds |->
        IF db.subjects[s].table = "media" /\ db.subjects[s].status = "running"
        THEN [db.subjects[s] EXCEPT !.status = "queued"] ELSE db.subjects[s]]]

\* PROXY_JOB_, ROUTE_ASSET_, FEATURE_SOURCE_, CV_SCAN_ and GPSTITCH_RENDER_MIGRATION_SQL;
\* the scripts 1 and 5 only add tables
Migrated(db, script) ==
    CASE script = 2 -> MediaRequeued(Requeued(db, {"proxy"}))
      [] script = 3 ->
            LET adopted == Adopted(db, {"valhalla"}, "legacy-route", "route", db.points)
            IN  SubjectsQueued([Requeued(adopted, {"valhalla"}) EXCEPT !.points = 0],
                               {"valhalla"})
      [] script = 4 ->
            LET adopted == Adopted(db, {"gis"}, "legacy-source", "source", db.features)
            IN  SubjectsQueued([Requeued(adopted, {"gis"}) EXCEPT !.features = 0], {"gis"})
      [] script = 6 -> Requeued(db, {"cv"})
      [] script = 7 -> Requeued(db, {"gpstitch"})
      [] OTHER -> db

WithScript(db, script) == [Migrated(db, script) EXCEPT !.scripts = @ \union {script}]

-----------------------------------------------------------------------------
(* open_project_database, the first call of every command.                 *)

Open(i, operation) ==
    /\ database # Nothing /\ \A k \in Instances : pc[k] \notin Creating
    /\ Moves(i, "idle", "version")
    /\ operation \in Imports => database.subjects[i] = NoRow
    /\ op' = [op EXCEPT ![i] = operation]
    /\ \E rows \in Parsed(operation) : source' = [source EXCEPT ![i] = rows]
    /\ UNCHANGED <<database, writer, work, seen, history>>

\* outside the transaction that migrates
ReadVersion(i) ==
    /\ Moves(i, "version", IF database.version < Current THEN "begin" ELSE "check")
    /\ seen' = [seen EXCEPT ![i] = database.version]
    /\ UNCHANGED <<database, writer, work, op, source, history>>

BeginMigration(i) ==
    /\ Moves(i, "begin", "migrate")
    /\ Begin(i)
    /\ UNCHANGED <<locals, history>>

\* the next script after the version that was read
NextScript(i) == seen[i]

RunScript(i) ==
    /\ pc[i] = "migrate" /\ seen[i] < Current
    /\ NextScript(i) \notin work.scripts \/ NextScript(i) = 1
    /\ Statement(i, WithScript(work, NextScript(i)))
    /\ seen' = [seen EXCEPT ![i] = @ + 1]
    /\ UNCHANGED <<pc, op, source, history>>

\* another instance has migrated since the version was read
ScriptFails(i) ==
    /\ pc[i] = "migrate" /\ seen[i] < Current
    /\ NextScript(i) \in work.scripts /\ NextScript(i) # 1
    /\ EndWithError(i) /\ UNCHANGED refused

CommitMigration(i) ==
    /\ seen[i] = Current
    /\ Moves(i, "migrate", "check")
    /\ Commit(i, [work EXCEPT !.version = Current, !.recorded = Current])
    /\ UNCHANGED <<locals, history>>

\* the recorded version and the identity of the project
Check(i) ==
    /\ database.recorded = Current /\ database.project
    /\ Moves(i, "check", CASE op[i] = "proxy" -> "start"
                          [] op[i] \in Imports -> "import"
                          [] OTHER -> "idle")
    /\ UNCHANGED <<database, writer, work, locals, history>>

CheckFails(i) ==
    /\ pc[i] = "check" /\ ~(database.recorded = Current /\ database.project)
    /\ EndWithError(i) /\ UNCHANGED refused

-----------------------------------------------------------------------------
(* ProxyWorkerManager::start: the status is read through the media of the  *)
(* job; the claim of a thread takes a job that is neither complete nor     *)
(* running.                                                                *)

Proxies == {j \in JobIds : database.jobs[j].type = "proxy"}

StatusIsRead(j) == database.jobs[j].subject # NoSubject

CanBeClaimed(j) == database.jobs[j].status \notin {"complete", "running"}

SetStatus(db, j, status) ==
    LET s == db.jobs[j].subject
    IN  [db EXCEPT !.jobs[j].status = status,
                   !.subjects = [@ EXCEPT ![s].status = status]]

StartsProxy(i, j) ==
    /\ Moves(i, "start", "idle")
    /\ writer = "none"
    /\ j \in Proxies /\ StatusIsRead(j) /\ CanBeClaimed(j)
    /\ database' = SetStatus(database, j, "running")
    /\ ran' = [ran EXCEPT ![i] = @ \union {j}]
    /\ UNCHANGED <<writer, work, locals, refused>>

StartRefused(i, j) ==
    /\ Moves(i, "start", "idle")
    /\ j \in Proxies /\ ~(StatusIsRead(j) /\ CanBeClaimed(j))
    /\ refused' = IF \/ database.jobs[j].status = "complete"
                     \/ \E k \in Instances : j \in ran[k]
                  THEN refused ELSE refused \union {j}
    /\ UNCHANGED <<database, writer, work, locals, ran>>

-----------------------------------------------------------------------------
(* import_media_at, import_route_at, import_feature_source_at: the subject,*)
(* its rows and the queued job in one transaction.                         *)

TableOf(operation) == operation

InsertSubject(i) ==
    /\ Moves(i, "import", "begun")
    /\ Begin(i)
    /\ UNCHANGED <<locals, history>>

InsertRow(i) ==
    /\ Moves(i, "begun", "rows")
    /\ Statement(i, [work EXCEPT !.subjects[i] =
                        [table |-> TableOf(op[i]), status |-> "queued", rows |-> 0,
                         declared |-> Len(source[i])]])
    /\ UNCHANGED <<locals, history>>

\* two features of one identity violate the key, whatever else they are; the points of a
\* route are numbered
SameKey(i, k, n) == op[i] = "source" /\ source[i][k].id = source[i][n].id

\* a point of the route or a feature
InsertNext(i) ==
    /\ pc[i] = "rows" /\ work.subjects[i].rows < Len(source[i])
    /\ LET n == work.subjects[i].rows + 1
       IN  /\ \A k \in 1..(n - 1) : ~SameKey(i, k, n)
           /\ Statement(i, [work EXCEPT !.subjects[i].rows = n])
    /\ UNCHANGED <<pc, locals, history>>

InsertFails(i) ==
    /\ pc[i] = "rows" /\ work.subjects[i].rows < Len(source[i])
    /\ LET n == work.subjects[i].rows + 1
       IN  \E k \in 1..(n - 1) : SameKey(i, k, n)
    /\ EndWithError(i) /\ UNCHANGED refused

InsertJob(i) ==
    /\ work.subjects[i].rows = Len(source[i])
    /\ Moves(i, "rows", "commit")
    /\ Statement(i, [work EXCEPT !.jobs[i] = [type |-> JobTypeOf(op[i]), status |-> "queued",
                                              subject |-> i]])
    /\ UNCHANGED <<locals, history>>

CommitImport(i) ==
    /\ Moves(i, "commit", "idle")
    /\ Commit(i, work)
    /\ UNCHANGED <<locals, history>>

-----------------------------------------------------------------------------
\* an instance ends; its threads end with it, and its transaction is rolled back
Crash(i) ==
    /\ "crash" \in StoreFaults
    /\ pc[i] # "idle" \/ ran[i] # {}
    /\ pc' = [pc EXCEPT ![i] = "idle"]
    /\ ran' = [ran EXCEPT ![i] = {}]
    /\ RollBack(i)
    /\ UNCHANGED <<locals, refused>>

StoreNext ==
    \E i \in Instances :
        \/ Create(i) \/ CreateStep(i) \/ CreateFails(i)
        \/ \E operation \in Operations : Open(i, operation)
        \/ ReadVersion(i) \/ BeginMigration(i) \/ RunScript(i) \/ ScriptFails(i)
        \/ CommitMigration(i) \/ Check(i) \/ CheckFails(i)
        \/ \E j \in Proxies : StartsProxy(i, j) \/ StartRefused(i, j)
        \/ InsertSubject(i) \/ InsertRow(i) \/ InsertNext(i) \/ InsertFails(i)
        \/ InsertJob(i) \/ CommitImport(i)
        \/ Fail(i) \/ Crash(i)

StoreSpec == StoreInit /\ [][StoreNext]_storeVars

-----------------------------------------------------------------------------
\* The variables hold what the schema and the commands allow.
StoreTypeOK ==
    /\ database \in Contents /\ work \in Contents
    /\ writer \in Instances \union {"none"}
    /\ pc \in [Instances -> Creating \union {"idle", "version", "begin", "migrate", "check",
                                           "start", "import", "begun", "rows", "commit"}]
    /\ op \in [Instances -> Operations] /\ seen \in [Instances -> 0..Current]
    /\ DOMAIN source = Instances /\ \A i \in Instances : Len(source[i]) \in Nat
    /\ ran \in [Instances -> SUBSET JobIds] /\ refused \subseteq JobIds

(* The schema is always that of one version: a migration that fails half-  *)
(* way, an instance that ends in it or two that migrate at once leave no   *)
(* tables without their version; and a command goes on only in a project   *)
(* of this release that was created to the end.                            *)
SchemaIsOneVersion ==
    /\ database.project =>
          /\ database.recorded = database.version
          /\ database.scripts = 1..(database.version - 1)
    /\ \A i \in Instances :
          pc[i] \in {"start", "import", "begun", "rows", "commit"} =>
              database.project /\ database.version = Current

(* An import is stored with every row of its source and with its queued    *)
(* job, or not at all, and nothing refers to rows that are not there.      *)
ImportIsWhole ==
    \A s \in SubjectIds :
        /\ database.subjects[s] # NoRow /\ s \in Instances =>
              /\ database.subjects[s].rows = database.subjects[s].declared
              /\ database.jobs[s].subject = s
        /\ \A j \in JobIds : database.jobs[j].subject = s => database.subjects[s] # NoRow

(* In an opened project a job that waits or runs and the row of its        *)
(* subject say the same, whatever release left them.                       *)
OpenedRowsAgree ==
    database.version = Current =>
        \A j \in JobIds :
            LET job == database.jobs[j]
            IN  job.subject # NoSubject /\ job.status \in {"queued", "running"}
                    => database.subjects[job.subject].status = job.status

(* A proxy job that has not ended and that nobody works on can be started  *)
(* (docs/superpowers/specs/2026-07-10-ffmpeg-proxy-worker-design.md).      *)
UnfinishedProxyStarts == refused = {}
=============================================================================
