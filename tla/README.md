# RoadWatcher: formal models

TLA+ models of RoadWatcher, the desktop workstation that turns bicycle-ride video,
GPX tracks and official GIS layers into reviewed road-safety evidence. The program
is a Tauri 2 application: a Rust backend (`src-tauri/src`) that owns SQLite, files
and child processes, and a React frontend (`src/`) that owns the editable session.
This directory holds the specifications, the TLC configurations that check them on
small instances, and TLAPS proofs of the results that matter most.

## The system

### Threads and processes

* **Main thread.** Every Tauri command is a synchronous function, so commands run
  one at a time on the main thread. A command that starts slow work returns as soon
  as a background thread is spawned.
* **Worker threads.** Each manager (`ProxyWorkerManager`, `RouteMatcherManager`,
  `GisProjectorManager`, `CvWorkerManager`, `GpstitchWorkerManager`,
  `DependencyManager`) spawns a plain thread per accepted start. Threads meet the
  main thread and each other in SQLite rows, in files, in a manager's mutexes and
  in cancellation flags.
* **Child processes.** FFmpeg, ffprobe, GDAL, uv, Valhalla, the CV scanner and
  GPStitch run as children of a worker thread, most of them through
  `bounded_process`.
* **Launches.** Nothing of a thread, token or mutex survives the end of the
  application; rows and files do. Two components have a recovery step: the dependency
  manager at launch (`DependencyManager::load`) and the exports when a project is loaded
  (`recover_stale_exports`). Opening a project migrates it, and only a migration ever
  requeues the rows of jobs.

### Components

| Component | State | Operations | What makes it correct |
|---|---|---|---|
| Project store (`project_store.rs`) | SQLite schema 8: projects, snapshots, media, jobs, routes, features, exports, CV scans, renders | create, save, load, import, and queue / claim / progress / complete / fail for each kind of job; migration; stale-export recovery | each operation is one transaction; a job is claimed at most once; what a row advertises exists |
| FFmpeg proxy worker (`proxy_worker.rs`) | cancellations map, execution mutex, partial and published files | start, cancel, run, publish | a ready asset has a whole proxy; cancel and panic end in a terminal row; complete is final |
| Route matcher (`route_import.rs`, `route_matcher.rs`) | active-job slot, execution mutex, matched points | import GPX, match through Valhalla or OSRM | matched points belong to their route; fallback is recorded; raw points survive |
| GIS projector (`gis_import.rs`, `gdal_adapter.rs`, `gis_projector.rs`) | active-job slot, projected features | import, project onto the route | a projection is made from one route, whole or not at all |
| CV scanner (`cv_worker.rs`, `sidecars/roadwatcher-cv`) | active set, findings | queue, scan, review | findings appear with their scan; only a complete scan is reviewed |
| GPStitch renderer (`gpstitch_worker.rs`) | active set, staging and final overlay | queue, render, publish | an overlay is published once and never overwritten |
| Evidence export (`native_export.rs`) | manifest row, staging and final directory | begin, stage, rename, complete, recover | a completed export is whole and immutable |
| Dependency manager (`dependency_manager.rs`) | jobs map, cancellations, job records, component directories | start, cancel, remove, install, persist, recover | a component is replaced whole or kept; job state survives a restart |
| Component payloads (`dependency_manager.rs`) | the staging directory, a download | request, resume, restart, hash, unpack, run programs, validate, seal | only verified bytes and programs that succeeded make a component |
| Managed environments (`managed_runtime.rs`) | versioned environment directories | prepare, promote, roll back | an owned environment is never lost to a failed update; *ready* is said of what works |
| Bounded processes (`bounded_process.rs`) | a child, two readers | run with timeout, output limit, cancellation | the child is reaped and the readers joined on every path |
| Runtime preflight, paths (`runtime_preflight.rs`, `runtime_paths.rs`) | none | probe, resolve | read-only |
| Command layer (`lib.rs`) | managed state | argument conversion | thin |
| Workstation state (`src/features/workstation`, `timeline`, `project`, `jobs`) | the session: media, jobs, timeline, export | reducer actions, snapshot save and load | every native result is reconciled once; an edit invalidates the export |
| Native bridge (`src/features/native`) | polling timers | command DTO validation | strict parsing |
| Build and packaging (`build.rs`, `scripts/`, `sidecars/`) | none at run time | asset builders, verifiers | outside the running program |

### Where it is hard

The list, with source lines and the properties that cover each entry, is in
`PROJECT.json` under `hazards`. In short: publication by several renames that a
crash can separate; rows that say *running* after the process that ran them is
gone; a cancellation that arrives between the last look at the token and the end;
a panic that poisons a mutex other workers wait for; two threads that write the
same record file; a failure that is reported after the work was published.

## The modules

Parameters are CONSTANTS with named assumptions, an operation is one action (or one per
point at which something else can come in between), and no module that is proved about
reaches a `RECURSIVE` operator. `MC<module>` instantiates a module for TLC. The theorems
are in `ProjectProof` (`ProxyJobs` and `ProjectStore`, both of `project_store.rs`),
`DependencyManagerProof` (`DependencyInstall` and `JobRecord`), `ComponentPayloadProof`
(`ComponentPayload`, `BoundedProcess` and `DependencyCatalog`), and elsewhere in
`<module>Proof`.

| Module | What it models | State |
|---|---|---|
| `DurableJob` | the abstract promise of every background job | refined by `ProxyJobs`, `RouteAnalysis` and `MediaAnalysis`, proved |
| `ProxyJobs` | the proxy worker with its rows, files, mutex, cancellation, panics and restarts | checked and proved |
| `RouteAnalysis` | route matching and GIS projection: two managers over shared route rows | checked and proved |
| `MediaAnalysis` | CV scan with its review and its poll, GPStitch render: managers without a panic guard | checked and proved |
| `ProjectStore` | creation, opening and migration of a project and its three imports, by two instances | checked and proved |
| `SourceFiles` | which GPX and GIS files are accepted and what they give; below `ProjectStore` | checked with it, its proofs need only that a file is finite |
| `NativeExport` | manifest rows and directories under crashes, power loss and a second instance | checked and proved |
| `JobRecord` | the record file of an installation, written by two threads | checked and proved |
| `DependencyInstall` | jobs, installation, promotion, removal and restart of managed components | checked and proved |
| `DependencyCatalog` | which catalogs and requests are accepted, and the search for cycles | checked and proved with `ComponentPayload` |
| `ComponentPayload` | how the thread of an installation makes one component: download, unpacking, programs, validation | checked and proved |
| `BoundedProcess` | a program with a time limit, an output limit and a cancellation; composed below `ComponentPayload` | checked and proved |
| `ManagedRuntime` | preparation of the Python environments and the preflight | checked and proved |
| `Workstation` | the open session beside its native project: handlers that await commands, polling, the export shown | checked and proved |

`ComponentPayload` extends `DependencyCatalog` and `BoundedProcess`; it is the inside of
the steps `Fetch` and `Unpack` that `DependencyInstall` takes as one step each that
succeeds or fails. `ProjectStore` extends `SourceFiles`. Work that is left, in the order
of its use: a refinement that joins `ComponentPayload` to `DependencyInstall`; the four
other monitors of `Workstation`; that `NativeExport` implements an atomic publication
when no export is contested or stranded.

## How the models correspond to the code

Every module takes its parameters as CONSTANTS and a set `Faults` (in `Workstation`:
`Failing`) that names what the environment may do: an error
of SQLite (`store`), of a file call (`disk`), a child process that fails, a panic, a
crash followed by a new launch, a power loss. An action is a handler, or the part of one
between two points where another thread, another process or a crash can be seen: a
transaction, a file call, a look at a token, the acquisition of a mutex. Bytes, names,
percentages and texts are reduced to what the control flow tells apart. Definitions
marked *mutant* are plausible bugs; nothing uses them in the specification.

### DurableJob: the promise of a job

`status` and `advertised`, four steps: a job is created queued, claimed, completed
(its artifact is advertised in the same step) or aborted. `Claimable` and `Abortable`
are the two sets in which the workers of the program differ. `ProxyJobs` implements
it with a job claimable from *queued*, *blocked*, *failed* and *cancelled*, abortable
from *running*, and an artifact advertised when the media asset is *ready* and both
output files are on disk.

### ProxyJobs: `proxy_worker.rs` and the proxy functions of `project_store.rs`

| State | Code |
|---|---|
| `status`, `bound`, `progress`, `cancelRequested` | columns of the row in `jobs` |
| `media` | `media_assets.proxy_status` |
| `partial`, `partialThumbs`, `proxy`, `thumbs` | the four output paths, each with the attempt that wrote it |
| `active`, `token` | `ProxyWorkerManager.active` and its `AtomicBool`s |
| `lock`, `poisoned` | `execution_lock` |
| `phase`, `failure` | where `run_proxy_job` of the thread stands, and its error |
| `cancelling` | the job whose `cancel` is between the token and the row |
| `opened` | whether this launch has opened the project |

`StartProxy`, `CancelToken` / `CancelRecord` and `ImportMedia` are the commands; the
other actions are the thread in the order of `run_proxy_job`. `Restart` keeps rows and
files and drops threads, tokens and the mutex. Fairness: `FairSpec` asks weak fairness
of each thread and of a cancellation the main thread has begun. Threads are scheduled
by the operating system and wait only for children, which `spawn_progress` polls, and
for the mutex; the fairness is weak because a thread that holds the mutex leaves it in
a bounded number of steps. Nothing is assumed of the user.

### JobRecord: `update_job`, `persist_job`, `recover_interrupted_state`

`memory` is the status in the jobs map; `files` what the temporary, final and previous
record files hold; `handle`, `step`, `copy` where each of the two threads stands in
`persist_job`; `outcome` and `interfered` (the user cancelled, or a file call failed)
are history. Every file call is one action, and an open handle follows its file through
a rename, as on a POSIX file system. A write over the text of the other thread gives
either text or a mixture. One job is enough because jobs share no file.

### DependencyInstall: `start`, `cancel`, `remove`, `run_job`, `install_one`, `promote_owned_directory`, `load`

`status`, `pending`, `phase`, `cancelled` are the job, the rest of its request, the
position of its thread and the cancellations set. `target[c]` and `backup[c][j]` say
what the directory of a component, and the backup of a promotion beside it, hold: the
payload of a job, the component installed before, a foreign directory, or one that
lost its marker or its files to an incomplete removal. `expected` (installed and not
removed since) and `disturbed` (a rollback failed, a removal stopped half-way or the
application ended inside a promotion: the cases in which no step of the program puts a
component back) are history. Promotion is one action per rename and look. Fairness: weak,
of each thread, as children have deadlines and retries are counted. Two things are not
bounded, and are not assumed to be: the requests and reads of a download have no timeout and
look at no cancellation while they wait (`dependency_manager.rs:2009-2020`, `2114`), and
nothing catches a panic of the thread. Either leaves the job unfinished until the next
launch (`Hangs`, phase *stuck*), and `JobSettles` says that nothing else does.

### RouteAnalysis: `route_matcher.rs`, `gis_projector.rs` and their functions of `project_store.rs`

| State | Code |
|---|---|
| `status`, `asset` | `jobs.status`; `route_assets.match_status` or `feature_sources.projection_status` |
| `matcher` | `route_assets.matcher_used`, set with the matched points |
| `bound`, `projected` | `route_id` of a projection; the route and the points its features lie on |
| `slot` | `active_job` of a manager of an instance |
| `phase`, `request`, `verdict` | where `execute_route_match` or `execute_gis_projection` stands, what it was asked, the status its error will be recorded with |
| `basis` | the matcher that answered, or the one behind the points a projection has read |
| `poisoned` | the execution mutex of the route matcher |

Each transaction is a step, and several instances may have the project open. A start
takes the slot without a look at the row's status, so a refused claim is an ordinary
error, which `fail_*` records in a row that may be running in the other instance; the
thread there then finds its row no longer running. The updates of the progress matter
only as looks at the row (`StillRunning`). `InvalidRoutePoints` cannot happen (the import
refuses shorter routes), and nothing in a projection can panic, so only the matcher's
mutex is ever poisoned. Fairness: weak, of each thread; HTTP calls and the managed
Valhalla process have timeouts.

### MediaAnalysis: `cv_worker.rs`, `gpstitch_worker.rs` and their functions of `project_store.rs`

| State | Code |
|---|---|
| `status`, `rowStatus`, `request` | `jobs.status`; the row of `cv_scans` or `gpstitch_renders` with its own status |
| `findings`, `findingCount`, `reviewRequired` | `cv_findings.review_status` in order; the two aggregates of `cv_scans` |
| `recorded` | `gpstitch_renders` names an output |
| `copied`, `staging`, `overlay` | the three paths of a render below `proxies/<media>/gpstitch` |
| `active`, `phase`, `error`, `answer` | `active_jobs` of both managers; where the thread stands, the error it met, what the scanner printed |
| `poll` | what `read_cv_scan_status` has read in its first statement |
| `refused`, `abandoned` | history: renders whose completion was refused, jobs a thread left as they were |

A start inserts both rows under new ids, so a job is named by its id and started once.
The main thread runs one command at a time, and a poll holds it between its two reads;
the threads commit in between. The two ways to a renderer's input differ in the copy
that an alignment by file time needs; every error path says which of the three files it
leaves. Nothing catches a panic of these threads. Fairness: weak, of each thread; the
processes have deadlines (`bounded_process`).

### ProjectStore and SourceFiles: opening, migration and imports

`database` is what is committed, `work` the copy of the one transaction that writes
(`writer`), `pc`, `op`, `seen`, `source` the command of each instance: what it does, the
version it read, what its import stores. A schema is the set of migration scripts whose
tables are there, so a half-applied chain is visible. `create_project` is a step per
statement that is committed by itself; a migration reads the version before it begins
its transaction, as the code does, so two instances may both find the old one. The rows
are those that migrations touch: jobs, and the media asset, route or feature source they
refer to, with the number of points or features. `SourceFiles` gives what a GPX file or a
GIS dataset becomes before the project is opened: which points, which identities and
kinds, or a refusal. `ran` and `refused` are history.

### ManagedRuntime: `managed_runtime.rs`, `runtime_preflight.rs`, the commands of `lib.rs`

`directory[place]`, `staging[e]` and `quarantine[e]` are what the directories hold:
nothing, something without the marker, an environment of an earlier preparation, what uv
makes now. An environment has a place of its own; Valhalla has a second one, the managed
component. `Prepare` starts a thread for each environment, `Join` answers when all are
done; `phase`, `hadTarget`, `result` are a thread in `prepare_one` and
`rollback_failed_promotion`, one action per probe, uv call, rename and removal. A probe
that fails need not mean a bad environment (`probe`), and uv may build one that works
only where it was built (`pinned`). The preparation compares both lines of the answer of a
probe, the module and the Python (`Verdicts`), the preflight the first one only
(`PreflightVerdicts`), so an environment of another Python is refused by the one and *ready*
for the other. `before`, `confirmed` and `disturbed` are history.
`Preflight` is the report over the two required environments, the packaged sources and
tools. There is no fairness: every step is bounded, and no property needs it.

### DependencyCatalog, ComponentPayload and BoundedProcess: the inside of an installation

`DependencyCatalog` is `validate_catalog` and the checks of `start` as operators, and
`visit_dependencies` as steps: `stack` holds the calls that have not returned, the
running one first, each with the dependency it is at; the code's `visiting` is the set
of their ids, and `searched` counts the components it was called for. The outcome is
compared with a definition that knows no search, by the order of installation
(`CatalogIsSound`). In `ComponentPayload` `pending`, `steps` and `phase` are the
request, what is left to do for its first component and where the thread stands;
`served`, `etag`, `resumes`, `restarts`, `hashed`, `total`, `file` the download: a body
is a sequence of blocks of one of two versions, because a server may replace what the
catalog pins between two requests. `staging`, `kept`, `ran` are the staging directory,
the verified downloads and the programs that have ended. Each install strategy is the
sequence of its downloads, file steps and programs. `BoundedProcess` is
`run_bounded_process_cancellable`: the program, the processes that hold its pipes, the
two reader threads, the deadline, and the polling caller with its kill and its joins.
Its variables are variables of `ComponentPayload`, and a program of an installation is a
call of it. Fairness: weak, of the thread, of the readers and of time; a program need
not end by itself, and a server need not answer: a download may wait for ever
(`FallsSilent`), which `InstallEnds` names beside a thread that has panicked and a child
that holds a pipe.

### NativeExport: `native_export.rs` and the export functions of `project_store.rs`

`row` and `recorded` are the row of `export_manifests`; `at`, `files`, `sealed`,
`durableAt` the directory of an export, its whole files, whether its entries were
synced, and the name a power loss leaves it; `place` is where the project is now.
`phase`, `current`, `written`, `stale` are the command an instance is executing,
`reported` the exports whose success was returned. `contested` (a load failed the
export of a live instance), `stranded` (a discarded error, an exit between publication
and row, a move or a power loss put the directory out of the reach of recovery) and
`due` are history. Two instances are two processes with the same project open: no
single-instance guard is registered in `lib.rs`. The directory syncs have their effect
as on Unix; on Windows `sync_directory` does nothing, and the model makes no claim
about a power loss there.

### Workstation: the handlers and effects of `App.tsx` over `workstationState.ts`

| State | Code |
|---|---|
| `ui.session` | the reducer's state: `projectId`, `jobs`, and the edited fields as one `text`; `fromFile` is history |
| `ui.path`, `ui.monitor` | `activeNativeSqlitePath`, `activeProxyJob` |
| `ui.preview`, `ui.shown` | `latestPacket` with `latestProjectSnapshot`; `latestNativeExport` |
| `calls` | the pending promises of `nativeCommandBridge.invoke`, each with what its closure holds; `live` is the `active` flag of an effect, or that the generation of an export is still `exportGenerationRef` |
| `doc`, `created` | whose snapshot a database holds; the projects that exist |
| `home`, `row`, `thread`, `poisoned` | the row of a proxy job, its thread and the mutex of the threads, in less detail than `ProxyJobs` |

A handler is one action up to its `await` and one after it: it reads the session of its
render, and what follows the await uses what the closure kept. A dispatch, the render
and the effects it triggers (`Commit`) belong to the step: nothing else runs between
them that reads the session. Commands are answered in order by the main thread
(`Serve`), and the answers are handled in that order. At a launch rows are as the last one
left them, one that a crash left running among them, and a snapshot may hold an older
status of a job than its row. A start looks at neither (`proxy_worker.rs:187-228`): its
thread ends without a write when the mutex is poisoned, the claim is refused or the
database cannot be written. The four other pollers (route,
GIS, CV, GPStitch) follow the scheme of the proxy's. Fairness: weak, of the main thread,
of the handling of answers, of the polling timer and of each proxy thread; the reviewer
need not do anything.

## What the runs check

| Run | Instance | Checked |
|---|---|---|
| `proxy` | 2 jobs, 2 starts of one; fair; store, disk, panic, crash | ready is published, cancellation reaches the worker, media row follows the job row, an early cancel wins, refinement of `DurableJob`, every accepted start ends |
| `jobrecord` | 1 job, disk, crash | no unfinished job without a thread, no false outcome; with one writer one copy survives and the end of a job is on disk |
| `install` | 2 jobs, 3 components, fair; network, silence, process, payload, disk, crash | an owned payload survives, foreign directories are untouched, a cancellation stops the installation, jobs settle unless their thread is stuck |
| `payload` | 512 dependency graphs of 3 components, 9 mistaken catalogs, 3 that can be installed; 6 requests; fair; network, silence, disk and every fault of a process | an accepted catalog can be installed, a body is of one version, a sealed component is verified, an answer of a process is whole, every installation ends but for three named causes |
| `export` | 2 exports, 2 instances, 2 places, 1 artifact; store, disk, crash, power | a complete export is whole and durable, a failed one leaves nothing, a load closes abandoned rows, closed rows are final |
| `route_analysis` | 1 route, 1 source, 2 instances, 2 kinds of match request, fair; store, corridor, panic, crash | one thread at work per job, rows and stored points agree, a matched projection is never behind its route, starts end, refinement of `DurableJob` |
| `media` | 1 scan, 1 render, 6 answers of the scanner, 3 kinds of render, fair; store, inputs, files, process, panic, crash | findings and counts agree through every review, a complete render has its whole overlay, an overlay without a row has one of two causes, starts end |
| `store` | 2 instances, projects of schema 1, 2, 3, 4, 6 and 8 and none, 4 GPX files, 2 datasets; disk, busy, crash | the schema is that of one version, an import is whole, migrated rows agree |
| `runtime` | 2 preparations of 3 environments, 11 initial places; probe, sync, pinned, disk, panic, crash | a previous environment survives, a failure leaves it in its place, *ready* is true |
| `workstation` | 2 projects (1 known at launch), 1 job, 1 text, 1 awaiting handler beside polls, the load and edits; rows of earlier launches in every status; fair; load, poll, record, panic | what is shown as exported is the session as it is, a session and its database belong together, polling ends unless the row is orphaned |
| `cv_poll` | 1 scan, its poll | violated: the row of a scan and its findings are read in two transactions |
| `store_open` | 1 instance, crash | violated: a running proxy row of the previous process can never be started again |

**Why the bounds are enough.** Two jobs are what a mutex, a record file or a directory
can be contended by; a third waits like the second. In `proxy` one job is started twice,
which gives a second attempt over the outputs and the flag of the first, and is
cancelled at any time, while the other competes, fails and panics (`Bystander`): the
rows and files of the two are separate, so only the mutex and its poison join them. In
`install` three components, one installed, one that needs it and one whose place is
taken by a foreign directory, give a request that replaces and one that installs and
then fails, and two jobs make each of them collide with itself and with the other. In
`payload` the pinned version has two blocks and the other one three, so a body can break
before, between and after them and be too long for its limit; two resumptions and one
restart are the limits of the code; three components are enough for every shape of a
cycle, a diamond's arm and a missing dependency, and one job is enough because several
are the subject of `install`. `OutputLimit = 1` and `MaxOutput = 2` make an output
short, exact and too long. One artifact and the manifest are two files, so an export
directory can be empty, incomplete and whole; `OneMishap` bounds a behaviour of `export`
to one export that is stranded or contested. In `route_analysis` a route and a source
meet in every order in two instances, a third of which would meet the same rows; the two
match requests reach a matcher, its fallback, a failure and a block, and `TwoBusy` lets
two of the four threads be busy at once. In `media` a scan and a render share nothing
but the main thread, and two jobs of one kind share nothing but the id they never have
in common; the answers hold two findings, none, a wrong count, too many, one outside of
its frame and one for another source. In `store` two instances are a migration that
meets another one, an import that meets a migration and two writers; the projects are
those of the migration tests, with jobs that wait, run and have ended. In `runtime` a
second preparation (`MaxPreparations = 2`) finds what the first one left, in each of its
ways to end; the initial places are each kind of directory for each environment. In
`workstation` a handler that awaits its command meets edits, a cleared draft, polls that
were overtaken and the load at launch, which `MaxCalls` does not limit; two awaiting
handlers (`MaxCalls = 2`) are too many states for a regular run. A status in a snapshot is
that of the row, *queued* or *running* (`Outdated`), which is how a start meets a row that
is running or complete. With one text sessions differ by their project and their job, and
an edit still overtakes an export; with two, the two invariants hold of the 1.3 million
states as well, too many for liveness in a regular run, and they are proved for every
`Texts`. `MonitorEnds` was also checked once with two jobs in one project. The proofs
need none of these bounds.

Deadlock is checked in `store` and `runtime`, whose instances can always open a project
or ask for a preflight, and not elsewhere: a user who starts nothing, and a job with no
starts left, are ends the system may reach.

### What the code does otherwise than it says

Two runs expect a violation, each of a sentence of the repository's documents:

* **A poll of a scan mixes two states** (`cv_poll`, `project_store.rs:1987`): the row and
  the findings are read by two statements outside a transaction, so a poll may answer
  *running* with a count of 0 and list findings; the session refuses such an answer and
  stops polling.
* **A stale running row is never requeued** (`store_open`, `project_store.rs:2681`): the
  conversion runs only inside the migrations from schema 1 and 2, and
  `claim_proxy_job` refuses a running row. The design promises it at every opening.

Six more configurations are kept beside the standing runs; TLC finds a counterexample
in each of them:

* `MCJobRecord_race.cfg` (`JobStatePersisted`): the record of an installation can be
  overwritten by an older copy (`dependency_manager.rs:914`), while
  `docs/project-handoff.md:45-46` says that job state is persisted for restart recovery;
* `MCDependencyInstall_crash.cfg` (`ExistingComponentIntact`): a crash inside a promotion
  hides an installed component (`dependency_manager.rs:2682`), as no launch restores a
  backup; `docs/managed-artifact-manifests.md:104-105` says that the existing component
  stays intact;
* `MCNativeExport_shared.cfg` (`CompleteIsAlwaysPublished`): opening a project in a second
  instance damages a live export (`project_store.rs:2734`), while `README.md:166-169`
  promises only complete exports;
* `MCWorkstation_monitor.cfg` (`ShownRunningEnds`): a second proxy start strands the first
  (`App.tsx:1421`): the one monitored job is replaced, so the first stays *running* in
  the session when it ends;
* `MCManagedRuntime_component.cfg` (`ComponentIsReused`): a managed Valhalla component
  whose probe fails once, and answers the next time, is replaced by an environment of the
  preparation (`lib.rs:486`), while `docs/project-handoff.md:851-856` says that a
  preparation reuses it;
* `MCManagedRuntime_python.cfg` (`PreflightIsExact`): the preflight says *ready* of an
  environment of another Python, because it compares the first line of the probe only
  (`runtime_preflight.rs:77-79`, `337-379`), while `docs/project-handoff.md:855-857` says
  that it requires exact package and Python probes.

Seen while modelling, with no configuration of its own:

* temporary inputs and partial outputs of a render are not removed when the alignment of
  the copy or the final rename fails (`AlignmentFails`, `Publish`), although the GPStitch
  integration design says so of every failure (`gpstitch-integration-design.md:24-25`);
* an interrupted scan stays *running* when a project of the present schema is opened,
  although `local-cv-scanning-design.md:28` has it recovered to *queued*;
* a panic stops every later proxy of the launch (`proxy_worker.rs:211`): the mutex stays
  poisoned and the closure of a waiting thread ends before its row is touched, although
  the design says that the thread waits for the mutex "and runs the job";
* a proxy that is started again keeps its failed row until its thread has the mutex; a
  poll before that reads *failed* and ends the monitoring of the attempt
  (`App.tsx:423`);
* the media of an import that answers after another project was opened is appended to
  that session (`App.tsx:946`), and a project that is created adopts the session as it
  was when the button was pressed: an edit made meanwhile is lost (`App.tsx:857-886`);
* the snapshot of another project that is imported while a native project is open is
  shown and not stored: the database refuses its identity, and saves keep failing;
* a cancellation after the last look at the token (`proxy_worker.rs:391`) is answered
  and has no effect on the attempt;
* jobs do not run in the order of their starts: `std::sync::Mutex` promises no order;
* a job migrated from schema 2 has a blank media id until its first claim, and `start`
  looks the media row up first, so it cannot be started (the same sentence of the design
  as in `store_open`);
* a server that accepts the download of a component and falls silent keeps the thread for
  ever, as no request or read has a timeout (`dependency_manager.rs:2009-2020`, `2114`); the
  cancellation of the job is answered and never looked at;
* a start of a proxy whose row a crash left running, or after a panic, is accepted and its
  thread ends without a write: the session polls a row that says *queued* or *running* for
  ever, until the project is left (`App.tsx:432`);
* a start of an installation that cannot persist its record stays in the jobs map as
  *queued* without a thread (`StartRefused`);
* between the renames of `persist_job` a crash leaves only the previous copy, and
  recovery reads only `<job>.json`;
* `promote_owned_directory` reports a failure after it has published the payload when
  the backup cannot be removed, and such backups are never collected;
* a component may be removed while others need it, or while a job that has checked it
  is installing one that needs it;
* a match or projection that is running in one instance is failed by a start of it in
  another, whose refused claim is recorded in the row (`project_store.rs:1563`); the same
  start is what ends a row that a crash left running, and since only a queued row can be
  claimed, a match or projection that has failed can never be run again;
* a panic in a match leaves every later match of the launch queued, without an error
  (`route_matcher.rs:588`), although its slot is freed;
* `update_gis_projection_progress` never commits its transaction
  (`project_store.rs:1144`), so the progress of a projection stays at 1 until it ends;
* a crash between the rename of an export and the completion of its row leaves a whole
  export under its final name beside a row that says its files were removed; a project
  that was moved keeps the staging directory of an abandoned export.

## What is proved

The proofs hold for every value of the constants that satisfies the assumptions named
in the modules, in particular for any number of jobs, components, exports, instances
and overlapping calls and any set of faults; TLC evaluates the assumptions in the runs.

* **`ProjectProof`, the proxy worker**. `IInv` is `TypeOK` and, for each job, the safety
  invariants of the runs with three strengthenings: a thread has an entry in the map
  and, from its claim to its end, a *running* row (`WorkerOwnsRow`); what each phase
  needs on disk is there, from the present attempt (`OutputOfAttempt`); and a
  cancellation between token and row has told the thread (`CancelInFlight`).
  `ReadyMeansPublished` alone is not inductive: `complete_proxy_job` looks at no file
  and at no status, and is right only because the thread that reaches it has published
  both outputs and no second thread of the job exists. From `IInv`: `ReadyIsPublished`,
  `CancelFlagIsSeen`, `RowsAndFilesAgree`, `CompleteStays`, `EarlyCancelNeverPublishes`,
  and the refinement `ProxyRefinesDurableJob`, whose steps map to the abstract ones by
  the same facts.
* **`ProjectProof`, the store**. `StoreInv` says what is committed (`DatabaseInv`: the
  tables are those of the version, or what a creation has left) and what each command
  may rely on. An instance writes exactly between the beginning and the end of its
  transaction (`WriterInv`), so nobody commits in between; a version that was read
  earlier is still the version or is the present one (`CommandInv`), and a migration has
  run the scripts up to the one it stands at, or finds that another instance has run
  them all (`MigrationInv`). An import has changed its own rows only (`ImportInv`). What
  the rows of a project owe to the release that wrote them is `RowsAreSound`, and each
  script turns the rows of one version into those of the next. `StoreAssumption` asks it
  of the projects that are found: releases keep a job and its subject in one
  transaction, which for the present one is `MediaFollowsJob` and `ImportIsWhole`. From
  `StoreInv`: `SchemaStaysOneVersion`, `ImportsAreWhole`, `MigratedRowsAgree`, for any
  number of instances.
* **`DependencyManagerProof`, installations**. Type correctness needs that a thread
  inside `install_one` has a component left (`CurrentExists`), because `Current` is the
  head of a list. That an installed component is never lost needs the bookkeeping of
  promotions: a request has no repetition, a job that has not begun has no backups, and
  a job has a backup of its current component only from its second rename on
  (`NoRepetition`, `Untouched`, `BackupOfCurrent`); then each expected component is in
  its directory or in a backup nobody is about to delete (`Kept`), which is stronger
  than `OwnedPayloadSurvives` and, unlike it, inductive. `ComponentStaysInPlace` follows
  from `Undisturbed`: until a disturbance every directory is whole, and an installed
  component that is not in its place is held by a thread that will publish or roll back.
  `ForeignRespected` says that nobody has passed the marker check for a foreign
  directory; `ForeignUntouched` follows.
* **`DependencyManagerProof`, the record file**. `UnfinishedJobsHaveWorkers` rests on
  who may persist when (`WorkerInv`). `OutcomesAreTrue` needs the same of everything a
  status can be read from: the memory, both copies and all three files (`OutcomeInv`);
  two threads may mix their texts, but a mixture is unreadable. `ACopySurvives` needs
  what the protocol of renames is about: until the user cancels or a call fails one
  thread writes at a time (`SoleWriter`), the temporary file is whole from its write to
  its publication, and the final one when it is moved away (`WholeWhen`); between two
  updates the final file holds what the memory says (`EndInv`). So a cancellation or a
  failing call is the only way to the lost end of `MCJobRecord_race.cfg`.
* **`RouteAnalysisProof`**. A thread that holds a slot has a job of its manager's kind and
  what that job needs (`ThreadsOK`); a thread at work has claimed, so its row is no longer
  queued (`Claimed`), from which `ClaimsExclude` follows because nothing makes a row queued
  again. `RunningHasThread` and `RowsAgree` are inductive over these. That a matched
  projection is current needs the same of the points a thread holds (`BasisIsCurrent`),
  and rests on a match being recorded once: a row that is still running has no matched
  points. `AnalysisRefinesDurableJob` maps each claim, completion and failure.
* **`NativeExportProof`**. `Busy` and `Fresh` tie an instance to its export; `Alone` and
  `Unshared` say that two instances work on one export only when it is contested;
  `Progressing` says for each step of an uncontested export what is on disk before it;
  `Emptied` and `Tended` cover the recovering side and the interval between the rename
  and the row; `FailedIsGone` strengthens `FailureLeavesNothing` to rows whose exporter
  is still there. From them `CompleteIsWhole` and `FailedIsCleanedUp`; `TypeCorrect`,
  `ClosedStaysClosed` and `SuccessLasts` need only `TypeOK` and `Busy`. `LoadClosesRows`
  has an invariant of its own: a row that was staging when a load began and still is, is in
  the list the load has left or is the row in its hands (`Visited`).
* **`MediaAnalysisProof`**. Everything is local to a job, because jobs share only the set
  of active ids: `ScanSound` adds to `FindingsMatchScan` that a thread past the execution
  of the sidecar has its answer; `RenderSound` says what stands under the staging and the
  final name in each phase, so that the transaction, which looks at no phase, is reached
  only behind the rename. `Unmoved` is what every step leaves of another job. From them
  `FindingsMatch`, `OverlaysMatch`, `OverlaysAreNamed` and the refinement
  `MediaRefinesDurableJob`: a scan advertises its complete row, a render its recorded
  overlay.
* **`ComponentPayloadProof`, processes**, for calls that follow one another. A reader that
  came to its end did so when nobody held its pipe (`WholeIsRead`), and nobody can hold it
  again, because only a running program shares a pipe and a running program holds both
  (`RunningHolds`); `CallerKnows` carries this through the kill and the two joins to
  `AnswersAreWhole`. That an installation makes such calls is `InstallCallsInTurn`: it
  implements the specification of a caller, so `InstallSeesWholeOutput`.
* **`ComponentPayloadProof`, payloads**. `DownloadInv`: from the first request to the digest
  the file, the hash and the counter are the first blocks of one version, the connection is
  at the next one, and an ETag that was taken is of that version; so an answer with that
  ETag and that range continues the body, and every other one leads to a restart from
  nothing. Only a hash of the pinned body is kept. `PlanInv`: what is left to do is the end
  of the plan of the component, and what was kept and run is, item by item, what the steps
  before had to leave. From them `BodiesAreOneVersion` and `SealedPayloadsAreVerified`.
* **`ComponentPayloadProof`, catalogs**. A set of components is *finished* when it holds
  the dependencies of its members and each of its subsets has a member that needs
  nothing in that subset (`IsFinished`), which is an order of installation without
  naming one. What a search has visited is finished, and a frame of the stack has every
  earlier dependency visited, or is waiting for the frame above it (`SearchInv`,
  `FrameInv`); so the return from a component adds one whose dependencies are all
  finished. Finished sets that cover the catalog give `AcceptedCatalogsAreSound`. The
  search is a machine with a stack, and not a recursive function, because what a
  recursion computes would need an induction the prover cannot do; the induction is the
  one over its steps.
* **`ManagedRuntimeProof`**. `Sound` is local to an environment: what each phase has in the
  place and in quarantine, relative to what was there when the preparation began. It is
  inductive because environments have places of their own (`PlacesAreApart`) and a step of
  one thread leaves the others `Unmoved`; `AnswersHold` says that what was last said is
  still true, and that a module which answers to the preflight's comparison goes on doing so
  (`AnswersStand`). `PreviousIsNeverLost`, `FailuresKeepPrevious` and `ReadyWorks` follow.
* **`WorkstationProof`**. The argument is about the calls in flight: `CallFits` says what a
  call carries and which answers it may have (an adopted snapshot names the project of its
  database, a loaded one the database it came from); `CallIsCurrent` says what a live call
  agrees with (a load with the open database, an export with the preview). A handler is
  covered by two facts: the state it leaves is `Prepared`, the calls it leaves are `Ready`,
  which is `CallIsCurrent` for the calls that its clean-ups spare. `CommitKeepsInvariant`
  turns these into the invariant. `ShownExportIsCurrent` and `ProjectsKeepTheirDatabases`
  follow.

Each inductive invariant was checked by TLC on the instances of the runs before it was
proved. The type invariants are theorems and not checked by a run again; the same holds
of `ComponentStaysInPlace`, `RunningHasThread`, `NoPartialAfterFailure`, `CompleteIsFinal`,
`ReportedIsComplete` and the refinement of `DurableJob` by `MediaAnalysis`.

**Only model-checked.** Liveness (`AcceptedJobEnds`, `JobSettles`, `InstallEnds`,
`StartedJobEnds`, `MonitorEnds`): fairness and ENABLED are beyond the prover.

## What is abstracted, and what is not modelled

* A write of one file is whole or torn, never a prefix that still parses. SQLite commits
  are atomic and durable. A power loss is modelled in `NativeExport` only; elsewhere a
  crash ends the process and the operating system keeps its files.
* A panic is modelled where the code can reach one while it holds a mutex
  (`spawn_progress`); the child such a thread leaves behind is not.
* In `DependencyInstall` downloading, unpacking and each installation strategy are one
  step that succeeds or fails (the subject of `ComponentPayload`), and the catalog is
  taken as validated (the subject of `DependencyCatalog`); a removal takes effect at one
  moment; a launch finds every job record (the subject of `JobRecord`), without the
  limit of 1000 records.
* In `RouteAnalysis` the exchange with a matcher is its outcome, and the scratch directory
  of a managed match is left out: its name is fresh and nothing reads it later.
* In `Workstation` the awaits on a browser file, the copy of the session in browser
  storage, the readiness check of an export and the list of command attempts are left out.
* In `ComponentPayload` a digest is taken to tell any two bodies apart, and names and
  contents of files are reduced to what a check tells apart.
* In `ManagedRuntime` a directory carries the expected marker or does not; what the
  structure and module checks read of it is *usable* or *broken*.
* In `ProjectStore` a save replaces the rows of a snapshot in one transaction that holds no
  other operation's state, and is left to `Workstation`, where it is one step. A source
  file keeps its content: that it may change between its parsing and its hashing
  (`project_store.rs:742`, the one hazard without a property) has no consequence to state,
  because nothing reads the recorded hash again.

Not modelled, because it is sequential code without shared state or out of a model
checker's reach: the syntax of GPX, GIS, ffprobe and catalog data (`SourceFiles` and
`DependencyCatalog` start from what was parsed), the pure functions of the timeline,
floating-point geometry and browser imports, the construction of command lines, the
materialization of a Valhalla configuration for one match, the arithmetic of paths, the
rendering of the views, and the build scripts, release checks and sidecars, which run
outside of the program.
