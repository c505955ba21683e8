---------------------------- MODULE ComponentPayload ----------------------------
(***************************************************************************)
(* How the thread of an install makes the payload of a component, up to    *)
(* its promotion: install_one with install_strategy, install_bootstrap,    *)
(* download_verified, extract_zip and the checks of what was unpacked      *)
(* (src-tauri/src/dependency_manager.rs), and the programs it runs.  The   *)
(* promotion, and several jobs at once, are the subject of                 *)
(* DependencyInstall.                                                      *)
(*                                                                         *)
(* A body is a sequence of blocks <<version, position>>; a server may have *)
(* replaced the version that the catalog pins by another one, at any       *)
(* request, and says so in a strong ETag if it gives one.  What a pinned   *)
(* archive holds is the constant Published.                                *)
(*                                                                         *)
(* Faults: "network" a connection breaks, a server answers otherwise than  *)
(* asked or has another version; "silence" a server neither answers nor    *)
(* breaks the connection; "disk" a file call fails.                        *)
(***************************************************************************)
EXTENDS DependencyCatalog, BoundedProcess, FiniteSets

CONSTANTS
    Earlier,      \* what earlier launches may have installed
    Requests,     \* components to install, in the order of the request
    Published,    \* id -> what its archive and its manifest hold
    Faults

VARIABLES
    pending,     \* the components that are not installed yet
    ready,       \* those that are
    steps,       \* what is left to do for the first of pending
    phase,       \* where the thread is
    \* the download
    served,      \* what the connection gives: [version, next], or NoValue
    etag,        \* stable_etag
    resumes,
    restarts,
    hashed,      \* the blocks that went into the hash
    total,
    file,        \* the blocks in the file
    \* the staging directory
    staging,     \* it is there
    kept,        \* what was downloaded and verified: name -> blocks
    ran          \* the programs of this component that ended, by their verdict

downloadVars == <<served, etag, resumes, restarts, hashed, total, file>>
stagingVars == <<staging, kept, ran>>
jobVars == <<catalogVars, pending, ready>>
vars == <<jobVars, steps, phase, downloadVars, stagingVars, cancelled, processVars>>

ResumeLimit == 2
Versions == {"pinned", "replaced"}
BodyLength(v) == IF v = "pinned" THEN 2 ELSE 3
Body(v) == [i \in 1 .. BodyLength(v) |-> <<v, i>>]

\* no ETag is taken for a missing one
ASSUME PayloadAssumption == NoValue \notin Versions

Blocks == Versions \X Nat
StepNames ==
    {"artifact", "manifest", "python", "wheel", "marker", "unpack", "hashes", "unpack bounded",
     "payload", "copy", "uv venv", "uv pip install", "module probe", "ffmpeg", "ffprobe",
     "uv python install"}
StepTypes == [kind : {"download", "files", "program"}, of : StepNames]
Phases == {"idle", "work", "read", "restart", "settle", "program", "silent", "dead"}

\* nothing is kept of a download or a program that has ended
NoDownload ==
    /\ served = NoValue /\ etag = NoValue /\ resumes = 0 /\ restarts = 0
    /\ hashed = <<>> /\ total = 0 /\ file = <<>>

Init ==
    /\ CatalogInit
    /\ pending = <<>>
    /\ ready \in Earlier /\ ready \subseteq Ids(catalog)
    /\ steps = <<>>
    /\ phase = "idle"
    /\ NoDownload
    /\ staging = FALSE
    /\ kept = <<>>
    /\ ran = <<>>
    /\ ProcessInit

-----------------------------------------------------------------------------
(* What is done for a component.                                           *)

Download(name) == <<[kind |-> "download", of |-> name]>>
Files(name) == <<[kind |-> "files", of |-> name]>>
Program(name) == <<[kind |-> "program", of |-> name]>>

\* install_uv_wheel_environment
WheelSteps ==
    Files("wheel") \o Program("uv venv") \o Program("uv pip install") \o Files("marker")
        \o Program("module probe")

\* validate_ffmpeg_payload
FfmpegSteps == Files("unpack") \o Files("hashes") \o Program("ffmpeg") \o Program("ffprobe")

ReleaseSteps == Download("manifest") \o Files("manifest") \o Files("unpack bounded") \o Files("payload")

\* install_strategy, and the two forms without a strategy
StrategySteps(c) ==
    CASE c.strategy = "uv-wheel-environment"        -> WheelSteps
      [] c.strategy = "verified-ffmpeg-archive"     -> FfmpegSteps
      [] c.strategy = "roadwatcher-release-archive" -> ReleaseSteps
      [] c.artifact.archive = "file"                -> Files("copy")
      [] OTHER                                      -> Files("unpack")

\* install_bootstrap and install_uv_managed_python
BootstrapSteps(c) ==
    IF c.bootstrap = NoValue THEN <<>>
    ELSE Download("python") \o Program("uv python install") \o Program("python")

Plan(c) == Download("artifact") \o StrategySteps(c) \o BootstrapSteps(c)

\* the probe of an environment is the only program that is not asked to stop
IsCancellable(name) == name # "module probe"

Current == Named(catalog, Head(pending))

-----------------------------------------------------------------------------
(* The manager and its commands.                                           *)

\* start, with the consents that were given; bound: what is ready is not asked for again
Start(request, digests) ==
    /\ loaded = "accepted" /\ phase = "idle" /\ pending = <<>>
    /\ ToSet(request) \intersect ready = {}
    /\ RequestIsAccepted(catalog, request, digests, ready)
    /\ pending' = request
    /\ cancelled' = FALSE
    /\ UNCHANGED <<catalogVars, ready, steps, phase, downloadVars, stagingVars, processVars>>

\* cancel
Cancel ==
    /\ pending # <<>> /\ phase # "dead"
    /\ cancelled' = TRUE
    /\ UNCHANGED <<jobVars, steps, phase, downloadVars, stagingVars, processVars>>

-----------------------------------------------------------------------------
(* The thread.                                                             *)

Goto(from, to) == phase = from /\ phase' = to

\* run_job and install_one: the staging directory
Begin ==
    /\ pending # <<>> /\ ~cancelled
    /\ Goto("idle", "work")
    /\ steps' = Plan(Current)
    /\ staging' = TRUE
    /\ kept' = <<>>
    /\ ran' = <<>>
    /\ UNCHANGED <<jobVars, downloadVars, cancelled, processVars>>

\* every error, and a cancellation: the staging directory is removed as far as it can be
Fail(from) ==
    /\ Goto(from, "idle")
    /\ pending' = <<>>
    /\ steps' = <<>>
    /\ staging' \in (IF "disk" \in Faults THEN {TRUE, FALSE} ELSE {FALSE})
    /\ kept' = <<>> /\ ran' = <<>>
    /\ served' = NoValue /\ etag' = NoValue /\ resumes' = 0 /\ restarts' = 0
    /\ hashed' = <<>> /\ total' = 0 /\ file' = <<>>
    /\ UNCHANGED <<catalogVars, ready>>

BeginIsCancelled ==
    /\ pending # <<>> /\ cancelled
    /\ Fail("idle")
    /\ UNCHANGED <<cancelled, processVars>>

AtStep(kind) == phase = "work" /\ steps # <<>> /\ Head(steps).kind = kind

-----------------------------------------------------------------------------
(* download_verified_with_client.                                          *)

VersionsServed == IF "network" \in Faults THEN Versions ELSE {"pinned"}

\* strong_etag, of a server that takes ranges
ETags(v) == {NoValue, v}

\* a first request, and a restart: the file and the hash begin anew
Accept(v, tag) ==
    /\ served' = [version |-> v, next |-> 1]
    /\ etag' = tag
    /\ hashed' = <<>>
    /\ total' = 0
    /\ file' = <<>>
    /\ resumes' = 0

\* the status is 200
Request ==
    /\ AtStep("download")
    /\ phase' = "read"
    /\ \E v \in VersionsServed : \E tag \in ETags(v) : Accept(v, tag)
    /\ restarts' = 0
    /\ UNCHANGED <<jobVars, steps, stagingVars, cancelled, processVars>>

RequestFails ==
    /\ AtStep("download")
    /\ "network" \in Faults \/ "disk" \in Faults
    /\ Fail("work")
    /\ UNCHANGED <<cancelled, processVars>>

Broken == phase = "read" /\ ~cancelled /\ "network" \in Faults

SizeLimit == IF Head(steps).of = "python" THEN Current.bootstrap.artifact.max
             ELSE IF Head(steps).of = "manifest" THEN Current.manifest.max
             ELSE Current.artifact.max

HasMore == served.next =< BodyLength(served.version)

\* a block is counted, hashed and written
ReadBlock ==
    /\ phase = "read" /\ ~cancelled
    /\ HasMore
    /\ total < SizeLimit
    /\ total' = total + 1
    /\ hashed' = Append(hashed, <<served.version, served.next>>)
    /\ file' = Append(file, <<served.version, served.next>>)
    /\ served' = [served EXCEPT !.next = @ + 1]
    /\ UNCHANGED <<jobVars, steps, phase, etag, resumes, restarts, stagingVars, cancelled, processVars>>

\* cancelled, more than the limit, or a write that fails
ReadStops ==
    /\ phase = "read"
    /\ cancelled \/ (HasMore /\ total = SizeLimit) \/ "disk" \in Faults
    /\ Fail("read")
    /\ UNCHANGED <<cancelled, processVars>>

\* a body may also end early without an error
EndOfBody ==
    /\ Goto("read", "settle")
    /\ ~cancelled
    /\ ~HasMore \/ "network" \in Faults
    /\ UNCHANGED <<jobVars, steps, downloadVars, stagingVars, cancelled, processVars>>

MayResume == etag # NoValue /\ total > 0 /\ resumes < ResumeLimit

\* mutant: the ETag of the answer is not compared
ResumeIsValidAnyVersion(status, tag, first) == status = 206 /\ first = total + 1

\* validate_resume_response
ResumeIsValid(status, tag, first) == status = 206 /\ tag = etag /\ first = total + 1

\* the connection breaks: a resumption is tried, and is taken if the answer is what was asked for
Resume ==
    /\ Broken /\ MayResume
    /\ resumes' = resumes + 1
    /\ \/ \E status \in {200, 206}, v \in Versions, first \in {1, total + 1} :
             \E tag \in ETags(v) :
                 /\ ResumeIsValid(status, tag, first)
                 /\ served' = [version |-> v, next |-> first]
                 /\ UNCHANGED phase
       \/ phase' = "restart" /\ UNCHANGED served
    /\ UNCHANGED <<jobVars, steps, etag, restarts, hashed, total, file, stagingVars, cancelled, processVars>>

BreakOff ==
    /\ Broken /\ ~MayResume
    /\ phase' = "restart"
    /\ UNCHANGED <<jobVars, steps, downloadVars, stagingVars, cancelled, processVars>>

\* once, from the first block
Restart ==
    /\ restarts = 0
    /\ Goto("restart", "read")
    /\ restarts' = 1
    /\ \E v \in VersionsServed : \E tag \in ETags(v) : Accept(v, tag)
    /\ UNCHANGED <<jobVars, steps, stagingVars, cancelled, processVars>>

\* the second break, or a request that is refused
GiveUp ==
    /\ restarts = 1 \/ "network" \in Faults \/ "disk" \in Faults
    /\ Fail("restart")
    /\ UNCHANGED <<cancelled, processVars>>

\* A request and a read wait without a timeout, and nothing ends them from outside: the
\* cancellation is looked at between two reads.
FallsSilent ==
    /\ "silence" \in Faults
    /\ AtStep("download") \/ phase \in {"read", "restart"}
    /\ phase' = "silent"
    /\ UNCHANGED <<jobVars, steps, downloadVars, stagingVars, cancelled, processVars>>

\* mutant: the digest is not compared
NoDigest == TRUE

DigestMatches == hashed = Body("pinned")

\* sync_all, and the digest
Settle ==
    /\ Goto("settle", "work")
    /\ DigestMatches
    /\ kept' = Append(kept, <<Head(steps).of, file>>)
    /\ steps' = Tail(steps)
    /\ served' = NoValue /\ etag' = NoValue /\ resumes' = 0 /\ restarts' = 0
    /\ hashed' = <<>> /\ total' = 0 /\ file' = <<>>
    /\ UNCHANGED <<jobVars, staging, ran, cancelled, processVars>>

SettleFails ==
    /\ ~DigestMatches \/ "disk" \in Faults
    /\ Fail("settle")
    /\ UNCHANGED <<cancelled, processVars>>

-----------------------------------------------------------------------------
(* The checks of what was downloaded, unpacked and installed.              *)

Sum(sizes) == FoldLeft(+, 0, sizes)

\* extract_zip_bounded; extract_zip has no limits
IsUnpacked(archive, maxEntries, maxBytes) ==
    /\ Len(archive.entries) =< maxEntries
    /\ \A i \in DOMAIN archive.entries : archive.entries[i].inside
    /\ Sum([i \in DOMAIN archive.entries |-> archive.entries[i].size]) =< maxBytes

\* the limits of a release, in entries and blocks of this model
MaxEntries == 3
MaxUnpacked == 4

\* validate_roadwatcher_release_manifest: the manifest is of this component and this archive,
\* and says what it was built from
ManifestIsValid(m, c) ==
    /\ m.id = c.id /\ m.kind = c.manifest.kind /\ m.size = c.artifact.size
    /\ m.license = c.license.id
    /\ m.sources # <<>> /\ m.tools # <<>>
    /\ AreDistinct(m.sources) /\ AreDistinct(m.tools)
    /\ \A i \in DOMAIN m.sources : m.sources[i].publisher \/ m.sources[i].retrieval

\* validate_exact_payload_root: these entries and no other, regular and not empty
RootIsExact(root, expected) ==
    /\ Cardinality(root) = Cardinality(expected)
    /\ \A e \in expected : \E r \in root :
           r.name = e.name /\ r.kind = e.kind /\ (r.kind = "file" => r.size > 0)

\* validate_portable_config: the directory of the tiles is filled in later, and no other
\* place is selected
IsPortable(config) == config.tileDir = "token" /\ config.selects = {}

\* validate_york_valhalla_payload and validate_valhalla_tile_tree
TilesAreValid(p) ==
    /\ RootIsExact(p.root, {[name |-> "valhalla.json", kind |-> "file"],
                            [name |-> "tiles", kind |-> "directory"]})
    /\ IsPortable(p.config)
    /\ p.tiles # <<>>
    /\ \A i \in DOMAIN p.tiles : p.tiles[i].kind = "gph" /\ p.tiles[i].size > 0

\* validate_cv_yolo_payload
ModelIsValid(p) ==
    /\ RootIsExact(p.root, {[name |-> "yolo11n.onnx", kind |-> "file"],
                            [name |-> "labels.txt", kind |-> "file"]})
    /\ p.labels # <<>> /\ IsInjective(p.labels)

\* validate_roadwatcher_release_payload
PayloadIsValid(p, id) ==
    CASE id = "york-valhalla-tiles" -> TilesAreValid(p) [] id = "cv-yolo11n" -> ModelIsValid(p)

\* a step that only reads and writes files
FilesAreFine(name) ==
    LET p == Published[Current.id]
    IN  CASE name = "unpack"         -> \A i \in DOMAIN p.entries : p.entries[i].inside
          [] name = "unpack bounded" -> IsUnpacked(p, MaxEntries, MaxUnpacked)
          [] name = "manifest"       -> p.size = Current.artifact.size /\ ManifestIsValid(p.manifest, Current)
          [] name = "payload"        -> PayloadIsValid(p, Current.id)
          [] name = "hashes"         -> p.pinnedFiles
          [] name = "wheel"          -> "uv-python" \in ready
          [] OTHER                   -> TRUE

\* those that look at the cancellation while they work
LooksAtCancel == {"unpack", "unpack bounded", "hashes", "payload"}

DoFiles ==
    /\ AtStep("files")
    /\ FilesAreFine(Head(steps).of)
    /\ steps' = Tail(steps)
    /\ UNCHANGED <<jobVars, phase, downloadVars, stagingVars, cancelled, processVars>>

DoFilesFails ==
    /\ AtStep("files")
    /\ \/ ~FilesAreFine(Head(steps).of)
       \/ cancelled /\ Head(steps).of \in LooksAtCancel
       \/ "disk" \in Faults
    /\ Fail("work")
    /\ UNCHANGED <<cancelled, processVars>>

-----------------------------------------------------------------------------
(* Programs: uv, and the probes of what was installed.                     *)

RunProgram ==
    /\ AtStep("program")
    /\ phase' = "program"
    /\ Call(IsCancellable(Head(steps).of))
    /\ UNCHANGED <<jobVars, steps, downloadVars, stagingVars>>

ProgramRuns ==
    /\ phase = "program"
    /\ ProcessNext
    /\ UNCHANGED <<jobVars, steps, phase, downloadVars, stagingVars>>

\* the status is a success, and what a probe prints is what is expected
ProgramSucceeded == verdict = "succeeded"

ProgramEnds ==
    /\ monitor = "answered"
    /\ Goto("program", "work")
    /\ ProgramSucceeded
    /\ steps' = Tail(steps)
    /\ ran' = Append(ran, verdict)
    /\ Taken
    /\ UNCHANGED <<jobVars, downloadVars, staging, kept>>

ProgramFails ==
    /\ monitor = "answered" /\ verdict # "panic"
    /\ ~ProgramSucceeded \/ "exit" \in ProcessFaults
    /\ Fail("program")
    /\ Taken

\* run_job has no guard: the thread is gone, its staging directory stays until a launch
ThreadDies ==
    /\ monitor = "answered" /\ verdict = "panic"
    /\ Goto("program", "dead")
    /\ Taken
    /\ UNCHANGED <<jobVars, steps, downloadVars, stagingVars>>

-----------------------------------------------------------------------------

\* the last look at the cancellation, the marker, and the promotion
Seal ==
    /\ phase = "work" /\ steps = <<>> /\ ~cancelled
    /\ phase' = "idle"
    /\ ready' = ready \union {Head(pending)}
    /\ pending' = Tail(pending)
    /\ staging' \in (IF "disk" \in Faults THEN {TRUE, FALSE} ELSE {FALSE})
    /\ UNCHANGED <<catalogVars, steps, downloadVars, kept, ran, cancelled, processVars>>

SealFails ==
    /\ steps = <<>>
    /\ cancelled \/ "disk" \in Faults
    /\ Fail("work")
    /\ UNCHANGED <<cancelled, processVars>>

Thread ==
    \/ Begin \/ BeginIsCancelled
    \/ Request \/ RequestFails \/ ReadBlock \/ ReadStops \/ EndOfBody
    \/ Resume \/ BreakOff \/ Restart \/ GiveUp \/ FallsSilent \/ Settle \/ SettleFails
    \/ DoFiles \/ DoFilesFails
    \/ RunProgram \/ ProgramEnds \/ ProgramFails \/ ThreadDies
    \/ Seal \/ SealFails

\* load, before any command
Loads ==
    /\ Load
    /\ UNCHANGED <<pending, ready, steps, phase, downloadVars, stagingVars, cancelled, processVars>>

Next ==
    \/ Loads
    \/ \E request \in Requests, digests \in {{}, {"current"}} : Start(request, digests)
    \/ Cancel
    \/ Thread
    \/ ProgramRuns

Spec == Init /\ [][Next]_vars

(* The thread of the job and the readers are scheduled and time passes; a      *)
(* server answers, breaks the connection or is silent for ever, and a program  *)
(* need not end.                                                               *)
FairSpec ==
    /\ Spec
    /\ WF_vars(Thread)
    /\ WF_vars(phase = "program" /\ (Spawn \/ Poll \/ Kill \/ JoinReaders)
                   /\ UNCHANGED <<jobVars, steps, phase, downloadVars, stagingVars>>)
    /\ WF_vars(phase = "program" /\ TimeIsOver
                   /\ UNCHANGED <<jobVars, steps, phase, downloadVars, stagingVars>>)
    /\ \A s \in Streams :
           WF_vars(phase = "program" /\ (Read(s) \/ EndOfStream(s))
                       /\ UNCHANGED <<jobVars, steps, phase, downloadVars, stagingVars>>)

-----------------------------------------------------------------------------
InstallTypeOK ==
    /\ phase \in Phases
    /\ steps \in Seq(StepTypes)
    /\ served \in [version : Versions, next : Nat] \union {NoValue}
    /\ etag \in Versions \union {NoValue}
    /\ resumes \in 0 .. ResumeLimit /\ restarts \in 0 .. 1
    /\ total \in Nat
    /\ hashed \in Seq(Blocks) /\ file \in Seq(Blocks)
    /\ staging \in BOOLEAN
    /\ kept \in Seq(StepNames \X Seq(Blocks))
    /\ ran \in Seq(Verdicts)

TypeOK == ProcessTypeOK /\ CatalogTypeOK /\ InstallTypeOK

(* A catalog is accepted only if what it offers can be installed in some order *)
(* (visit_dependencies), with one digest for a license whatever needs it.      *)
CatalogIsSound == loaded = "accepted" => HasInstallOrder(catalog) /\ LicensesAgree(catalog)

(* Whatever breaks, is resumed and is restarted, the file is what was hashed   *)
(* and counted, in order, of one version (download_verified_with_client).      *)
BodyIsOneVersion ==
    /\ file = hashed
    /\ total = Len(file)
    /\ \E v \in Versions : IsPrefix(file, Body(v))

\* the steps of a kind among the first n of the plan
StepsOf(kind, n) == {i \in 1 .. n : Plan(Current)[i].kind = kind}

\* s has one item for each of these places, in their order: at[i] is the place of item i
InOrder(s, places) ==
    {at \in Surjection(DOMAIN s, places) : \A i, k \in DOMAIN s : i < k => at[i] < at[k]}

\* what the first n steps of the plan have to leave
MadeAsPlanned(n) ==
    /\ \E at \in InOrder(kept, StepsOf("download", n)) :
           \A i \in DOMAIN kept : kept[i] = <<Plan(Current)[at[i]].of, Body("pinned")>>
    /\ InOrder(ran, StepsOf("program", n)) # {}
    /\ \A i \in DOMAIN ran : ran[i] = "succeeded"

(* What is sealed was made from the files its catalog pins, each of them whole *)
(* and in this order, and by programs that all succeeded; no staging directory *)
(* outlives its install unless it could not be removed (install_one).          *)
SealedIsVerified ==
    /\ phase = "work" /\ steps = <<>> => MadeAsPlanned(Len(Plan(Current)))
    /\ staging => phase # "idle" \/ "disk" \in Faults

(* An install that was accepted ends, whatever breaks and is tried again and   *)
(* whatever its programs do.  What may keep it for ever is a reader that       *)
(* cannot be started, a server that falls silent, and a process that a program *)
(* left behind with a stream open (run_job, download_verified_with_client,     *)
(* bounded_process.rs:70).                                                     *)
InstallEnds ==
    pending # <<>> ~> \/ pending = <<>>
                      \/ [](phase \in {"dead", "silent"})
                      \/ [](\E s \in Streams : "child" \in holders[s])
=============================================================================
