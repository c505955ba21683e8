------------------------------ MODULE ProxyJobs ------------------------------
(***************************************************************************)
(* The durable FFmpeg proxy worker: ProxyWorkerManager and run_proxy_job   *)
(* (src-tauri/src/proxy_worker.rs) together with the proxy operations of   *)
(* the project store (src-tauri/src/project_store.rs).                     *)
(*                                                                         *)
(* Tauri runs the synchronous commands ffmpeg_proxy, job_cancel and        *)
(* media_import one at a time on the main thread; every accepted start     *)
(* spawns a worker thread.  The threads are serialised by one execution    *)
(* mutex, each holds a cancellation token, and each talks to SQLite        *)
(* through connections of its own.  A job here is one media_assets row     *)
(* and its proxy job row, which media_import inserts together.             *)
(*                                                                         *)
(* Faults names the environment faults of an instance:                     *)
(*   "store"  a SQLite call returns an error and changes nothing           *)
(*   "disk"   a directory or rename call fails                             *)
(*   "remove" a removal fails, which the code never looks at               *)
(*   "panic"  spawn_progress panics (thread creation fails)                *)
(*   "crash"  the application ends at any moment and is launched again     *)
(***************************************************************************)
EXTENDS Naturals, FiniteSets

CONSTANTS Jobs,        \* proxy job identities
          LegacyJobs,  \* jobs migrated from schema 2: queued, with a blank media_id
          NoJob,
          MaxStarts,   \* bound on the accepted starts of one job
          Faults

ASSUME ProxyAssumption ==
    /\ LegacyJobs \subseteq Jobs
    /\ NoJob \notin Jobs
    /\ MaxStarts \in Nat

VARIABLES
    \* the project database
    status,           \* jobs.status, "absent" before media_import
    bound,            \* whether jobs.media_id names the media asset
    progress,         \* jobs.progress
    cancelRequested,  \* jobs.cancellation_requested
    media,            \* media_assets.proxy_status
    \* the files below proxies/<media>, as the start that produced them (0: none)
    partial,          \* review-proxy.partial.mp4
    partialThumbs,    \* thumbnails.partial
    proxy,            \* review-proxy.mp4
    thumbs,           \* thumbnails
    \* the process
    opened,           \* whether this launch has opened the project
    active,           \* the keys of the manager's cancellations map
    token,            \* the AtomicBool of an active job
    phase,            \* where the worker thread of a job stands
    failure,          \* the error run_proxy_job is about to record
    lock,             \* the thread holding execution_lock
    poisoned,         \* whether execution_lock is poisoned
    cancelling,       \* the job whose job_cancel is between token and store
    starts            \* accepted starts of each job

dbVars == <<status, bound, progress, cancelRequested, media>>
fileVars == <<partial, partialThumbs, proxy, thumbs>>
lockVars == <<lock, poisoned>>
mainVars == <<opened, active, token, cancelling, starts>>
vars == <<dbVars, fileVars, lockVars, mainVars, phase, failure>>

Aborted == {"blocked", "failed", "cancelled"}
Statuses == {"absent", "queued", "running", "complete"} \union Aborted
MediaStatuses == {"absent", "queued", "running", "ready", "blocked"}
Errors == {"None", "Cancelled", "ProcessLaunch", "Other"}

\* progress_percent maps what ffmpeg reports into 5..90; one value stands for it
RenderBand == 50

\* mutant: only a running job is refused
NotClaimableIfRunning == {"running"}

\* the statuses claim_proxy_job answers with InvalidProxyJobState
NotClaimable == {"complete", "running"}

Rendering == {"renderPreferred", "renderCpu"}
BeforeThumbnails == {"preparing", "probing", "listing", "fallback", "checkpoint"}
                        \union Rendering
Publishing == {"thumbnails", "clearing", "publishProxy", "publishThumbs", "completing"}
\* inside run_proxy_job after a successful claim
Working == BeforeThumbnails \union Publishing \union {"failing"}
Holding == Working \union {"claiming"}
Phases == Holding \union {"idle", "waiting", "panicked", "leaving"}

Init ==
    /\ status = [j \in Jobs |-> IF j \in LegacyJobs THEN "queued" ELSE "absent"]
    /\ bound = [j \in Jobs |-> FALSE]
    /\ progress = [j \in Jobs |-> 0]
    /\ cancelRequested = [j \in Jobs |-> FALSE]
    /\ media = status
    /\ partial = [j \in Jobs |-> 0]
    /\ partialThumbs = [j \in Jobs |-> 0]
    /\ proxy = [j \in Jobs |-> 0]
    /\ thumbs = [j \in Jobs |-> 0]
    /\ opened = FALSE
    /\ active = {}
    /\ token = [j \in Jobs |-> FALSE]
    /\ phase = [j \in Jobs |-> "idle"]
    /\ failure = [j \in Jobs |-> "None"]
    /\ lock = NoJob
    /\ poisoned = FALSE
    /\ cancelling = NoJob
    /\ starts = [j \in Jobs |-> 0]

-----------------------------------------------------------------------------
(* Building blocks of the worker thread.                                   *)

Step(j, from, to) ==
    /\ phase[j] = from
    /\ phase' = [phase EXCEPT ![j] = to]

\* `return Err(error)` inside the closure of run_proxy_job
GiveUp(j, from, error) ==
    /\ Step(j, from, "failing")
    /\ failure' = [failure EXCEPT ![j] = error]

\* update_proxy_progress: the UPDATE matches only a running row
ReportProgress(j, percent) ==
    /\ status[j] = "running"
    /\ progress' = [progress EXCEPT ![j] = percent]

\* update_proxy_progress returns an error and the row keeps its progress
ProgressRefused(j) == status[j] # "running" \/ "store" \in Faults

\* mutant: a load that never sees the store of the main thread
CancelUnseen(j) == FALSE

\* cancel.load
CancelSeen(j) == token[j]

\* `let _ = remove_file(..)`, `let _ = remove_dir_all(..)`
Removals(files, j) ==
    {[files EXCEPT ![j] = 0]} \union {f \in {files} : "remove" \in Faults}

\* the closure cleanup of run_proxy_job
Cleanup(j) ==
    /\ partial' \in Removals(partial, j)
    /\ partialThumbs' \in Removals(partialThumbs, j)

\* mutant: a claim that keeps the flag of the attempt before
KeepCancelRequest(j) == UNCHANGED cancelRequested

\* claim_proxy_job starts every attempt with cancellation_requested = 0
ResetCancelRequest(j) == cancelRequested' = [cancelRequested EXCEPT ![j] = FALSE]

\* mutant: the media row is forgotten
FailJobRowOnly(j, outcome) ==
    /\ status' = [status EXCEPT ![j] = outcome]
    /\ UNCHANGED <<media, bound, progress, cancelRequested>>

\* fail_proxy_job: no condition on the status the job has
FailProxyJob(j, outcome) ==
    /\ status' = [status EXCEPT ![j] = outcome]
    /\ media' = [media EXCEPT ![j] = "blocked"]
    /\ UNCHANGED <<bound, progress, cancelRequested>>

-----------------------------------------------------------------------------
(* Commands on the main thread.                                            *)

Idle == opened /\ cancelling = NoJob

\* project_load of a schema 8 database: migrate_database finds nothing to do
OpenProject ==
    /\ ~opened
    /\ opened' = TRUE
    /\ UNCHANGED <<dbVars, fileVars, lockVars, phase, failure, active, token, cancelling, starts>>

ImportMedia(j) ==
    /\ Idle
    /\ status[j] = "absent"
    /\ status' = [status EXCEPT ![j] = "queued"]
    /\ media' = [media EXCEPT ![j] = "queued"]
    /\ bound' = [bound EXCEPT ![j] = TRUE]
    /\ UNCHANGED <<progress, cancelRequested, fileVars, lockVars, mainVars, phase, failure>>

\* ProxyWorkerManager::start.  read_proxy_job_status joins the job with its
\* media asset, so a blank media_id is ProxyJobNotFound; an entry in the map
\* is AlreadyActive.  Neither refusal changes anything.
StartProxy(j) ==
    /\ Idle
    /\ status[j] # "absent" /\ bound[j]
    /\ j \notin active
    /\ starts[j] < MaxStarts
    /\ active' = active \union {j}
    /\ token' = [token EXCEPT ![j] = FALSE]
    /\ starts' = [starts EXCEPT ![j] = @ + 1]
    /\ Step(j, "idle", "waiting")
    /\ UNCHANGED <<dbVars, fileVars, lock, poisoned, opened, cancelling, failure>>

\* ProxyWorkerManager::cancel up to token.store: NotActive without a map entry
CancelToken(j) ==
    /\ Idle
    /\ j \in active
    /\ token' = [token EXCEPT ![j] = TRUE]
    /\ cancelling' = j
    /\ UNCHANGED <<dbVars, fileVars, lockVars, phase, failure, opened, active, starts>>

\* the rest of cancel: request_proxy_job_cancel, whatever the job did meanwhile
CancelRecord(j) ==
    /\ cancelling = j
    /\ cancelling' = NoJob
    /\ \/ cancelRequested' = [cancelRequested EXCEPT ![j] = TRUE]
       \/ "store" \in Faults /\ UNCHANGED cancelRequested
    /\ UNCHANGED <<status, bound, progress, media, fileVars, lockVars, phase, failure,
                   opened, active, token, starts>>

-----------------------------------------------------------------------------
(* The worker thread: waiting for the mutex and claiming the job.          *)

AcquireLock(j) ==
    /\ lock = NoJob /\ ~poisoned
    /\ Step(j, "waiting", "claiming")
    /\ lock' = j
    /\ UNCHANGED <<dbVars, fileVars, mainVars, failure, poisoned>>

\* mutant: the thread tries again until the mutex is healthy
LockRetriedForever(j) == FALSE

\* a poisoned mutex is Err(Synchronization): the closure ends, no row is touched
LockPoisoned(j) ==
    /\ lock = NoJob /\ poisoned
    /\ Step(j, "waiting", "leaving")
    /\ UNCHANGED <<dbVars, fileVars, mainVars, failure, lock, poisoned>>

\* claim_proxy_job
Claim(j) ==
    /\ status[j] \notin NotClaimable
    /\ Step(j, "claiming", "preparing")
    /\ status' = [status EXCEPT ![j] = "running"]
    /\ bound' = [bound EXCEPT ![j] = TRUE]
    /\ progress' = [progress EXCEPT ![j] = 1]
    /\ ResetCancelRequest(j)
    /\ media' = [media EXCEPT ![j] = "running"]
    /\ UNCHANGED <<fileVars, lockVars, mainVars, failure>>

\* an error of claim_proxy_job leaves run_proxy_job before any failure is recorded
ClaimRefused(j) ==
    /\ status[j] \in NotClaimable \/ "store" \in Faults
    /\ Step(j, "claiming", "leaving")
    /\ lock' = NoJob
    /\ UNCHANGED <<dbVars, fileVars, mainVars, failure, poisoned>>

-----------------------------------------------------------------------------
(* The worker thread: preparing, probing and rendering.                    *)

\* create_dir_all, cleanup() and the first look at the token
Prepare(j) ==
    /\ Cleanup(j)
    /\ \/ /\ ~CancelSeen(j)
          /\ Step(j, "preparing", "probing")
          /\ UNCHANGED failure
       \/ CancelSeen(j) /\ GiveUp(j, "preparing", "Cancelled")
    /\ UNCHANGED <<dbVars, proxy, thumbs, lockVars, mainVars>>

PrepareFails(j) ==
    /\ "disk" \in Faults
    /\ GiveUp(j, "preparing", "Other")
    /\ UNCHANGED <<dbVars, fileVars, lockVars, mainVars>>

\* ffprobe and parse_probe_json, then progress 5
Probe(j) ==
    /\ Step(j, "probing", "listing")
    /\ ReportProgress(j, 5)
    /\ UNCHANGED <<status, bound, cancelRequested, media, fileVars, lockVars, mainVars, failure>>

\* ffprobe cannot be launched, fails, prints something unusable, or its
\* progress is not stored
ProbeFails(j) ==
    /\ \E error \in {"ProcessLaunch", "Other"} : GiveUp(j, "probing", error)
    /\ UNCHANGED <<dbVars, fileVars, lockVars, mainVars>>

\* ffmpeg -encoders and select_encoder: a hardware encoder, or libx264 at once
ListEncoders(j) ==
    /\ \E next \in Rendering : Step(j, "listing", next)
    /\ UNCHANGED <<dbVars, fileVars, lockVars, mainVars, failure>>

ListEncodersFails(j) ==
    /\ \E error \in {"ProcessLaunch", "Other"} : GiveUp(j, "listing", error)
    /\ UNCHANGED <<dbVars, fileVars, lockVars, mainVars>>

\* the on_line callback of render_proxy
RenderProgress(j) ==
    /\ phase[j] \in Rendering
    /\ ReportProgress(j, RenderBand)
    /\ UNCHANGED <<status, bound, cancelRequested, media, fileVars, lockVars, mainVars,
                   phase, failure>>

\* ffmpeg exits with success before the loop of spawn_progress sees the token;
\* the file is there unless ffmpeg wrote none
RenderExits(j) ==
    /\ \E encoder \in Rendering : Step(j, encoder, "checkpoint")
    /\ \/ partial' = [partial EXCEPT ![j] = starts[j]]
       \/ UNCHANGED partial
    /\ UNCHANGED <<dbVars, partialThumbs, proxy, thumbs, lockVars, mainVars, failure>>

\* ffmpeg exits with an error: a hardware encoder leads to the fallback, libx264
\* to ProcessFailed.  The output may have been started.
RenderFails(j) ==
    /\ \/ Step(j, "renderPreferred", "fallback") /\ UNCHANGED failure
       \/ GiveUp(j, "renderCpu", "Other")
    /\ partial' \in {partial, [partial EXCEPT ![j] = starts[j]]}
    /\ UNCHANGED <<dbVars, partialThumbs, proxy, thumbs, lockVars, mainVars>>

\* spawn_progress sees the token and kills the child
RenderCancelled(j) ==
    /\ CancelSeen(j)
    /\ \E encoder \in Rendering : GiveUp(j, encoder, "Cancelled")
    /\ partial' \in {partial, [partial EXCEPT ![j] = starts[j]]}
    /\ UNCHANGED <<dbVars, partialThumbs, proxy, thumbs, lockVars, mainVars>>

\* ffmpeg cannot be launched, or a progress update failed during the render
RenderErrors(j) ==
    /\ \E encoder \in Rendering :
           \/ GiveUp(j, encoder, "ProcessLaunch")
           \/ ProgressRefused(j) /\ GiveUp(j, encoder, "Other")
    /\ partial' \in {partial, [partial EXCEPT ![j] = starts[j]]}
    /\ UNCHANGED <<dbVars, partialThumbs, proxy, thumbs, lockVars, mainVars>>

\* thread::spawn of a reader panics: unwinding drops the guard of
\* execution_lock, which poisons the mutex
RenderPanics(j) ==
    /\ "panic" \in Faults
    /\ \E encoder \in Rendering : Step(j, encoder, "panicked")
    /\ lock' = NoJob
    /\ poisoned' = TRUE
    /\ UNCHANGED <<dbVars, fileVars, mainVars, failure>>

\* look at the token, remove the partial output, report progress 5 again
Fallback(j) ==
    \/ /\ CancelSeen(j)
       /\ GiveUp(j, "fallback", "Cancelled")
       /\ UNCHANGED <<dbVars, fileVars, lockVars, mainVars>>
    \/ /\ ~CancelSeen(j)
       /\ Step(j, "fallback", "renderCpu")
       /\ partial' \in Removals(partial, j)
       /\ ReportProgress(j, 5)
       /\ UNCHANGED <<status, bound, cancelRequested, media, partialThumbs, proxy, thumbs,
                      lockVars, mainVars, failure>>
    \/ /\ ~CancelSeen(j) /\ ProgressRefused(j)
       /\ GiveUp(j, "fallback", "Other")
       /\ partial' \in Removals(partial, j)
       /\ UNCHANGED <<dbVars, partialThumbs, proxy, thumbs, lockVars, mainVars>>

-----------------------------------------------------------------------------
(* The worker thread: thumbnails and publication.                          *)

\* the last look at the token, then progress 92
Checkpoint(j) ==
    \/ /\ CancelSeen(j)
       /\ GiveUp(j, "checkpoint", "Cancelled")
       /\ UNCHANGED <<dbVars, fileVars, lockVars, mainVars>>
    \/ /\ ~CancelSeen(j)
       /\ Step(j, "checkpoint", "thumbnails")
       /\ ReportProgress(j, 92)
       /\ UNCHANGED <<status, bound, cancelRequested, media, fileVars, lockVars, mainVars, failure>>
    \/ /\ ~CancelSeen(j) /\ ProgressRefused(j)
       /\ GiveUp(j, "checkpoint", "Other")
       /\ UNCHANGED <<dbVars, fileVars, lockVars, mainVars>>

\* ffmpeg writes the thumbnails, or leaves those it found, and both outputs are
\* there to be seen
MakeThumbnails(j) ==
    /\ partial[j] # 0
    /\ Step(j, "thumbnails", "clearing")
    /\ \/ partialThumbs' = [partialThumbs EXCEPT ![j] = starts[j]]
       \/ partialThumbs[j] # 0 /\ UNCHANGED partialThumbs
    /\ UNCHANGED <<dbVars, partial, proxy, thumbs, lockVars, mainVars, failure>>

\* no directory, no ffmpeg, a failed ffmpeg, or a missing output
ThumbnailsFail(j) ==
    /\ \E error \in {"ProcessLaunch", "Other"} : GiveUp(j, "thumbnails", error)
    /\ partialThumbs' \in {partialThumbs, [partialThumbs EXCEPT ![j] = starts[j]]}
    /\ UNCHANGED <<dbVars, partial, proxy, thumbs, lockVars, mainVars>>

\* remove the outputs an earlier attempt may have published
ClearFinals(j) ==
    /\ Step(j, "clearing", "publishProxy")
    /\ proxy' \in Removals(proxy, j)
    /\ thumbs' \in Removals(thumbs, j)
    /\ UNCHANGED <<dbVars, partial, partialThumbs, lockVars, mainVars, failure>>

\* renaming a file replaces the one in its way
PublishProxy(j) ==
    /\ Step(j, "publishProxy", "publishThumbs")
    /\ proxy' = [proxy EXCEPT ![j] = partial[j]]
    /\ partial' = [partial EXCEPT ![j] = 0]
    /\ UNCHANGED <<dbVars, partialThumbs, thumbs, lockVars, mainVars, failure>>

\* renaming a directory onto one that is not empty is an error
PublishThumbs(j) ==
    /\ thumbs[j] = 0
    /\ Step(j, "publishThumbs", "completing")
    /\ thumbs' = [thumbs EXCEPT ![j] = partialThumbs[j]]
    /\ partialThumbs' = [partialThumbs EXCEPT ![j] = 0]
    /\ UNCHANGED <<dbVars, partial, proxy, lockVars, mainVars, failure>>

\* mutant: the results of the renames are discarded
PublishFailsUnnoticed(j) ==
    /\ "disk" \in Faults
    /\ Step(j, "publishProxy", "publishThumbs") \/ Step(j, "publishThumbs", "completing")
    /\ UNCHANGED <<dbVars, fileVars, lockVars, mainVars, failure>>

\* a rename fails
PublishFails(j) ==
    /\ \/ "disk" \in Faults /\ GiveUp(j, "publishProxy", "Other")
       \/ /\ "disk" \in Faults \/ thumbs[j] # 0
          /\ GiveUp(j, "publishThumbs", "Other")
    /\ UNCHANGED <<dbVars, fileVars, lockVars, mainVars>>

\* complete_proxy_job: no condition on the status the job has.  run_proxy_job
\* returns and drops the guard.
CompleteProxyJob(j) ==
    /\ Step(j, "completing", "leaving")
    /\ status' = [status EXCEPT ![j] = "complete"]
    /\ progress' = [progress EXCEPT ![j] = 100]
    /\ media' = [media EXCEPT ![j] = "ready"]
    /\ lock' = NoJob
    /\ UNCHANGED <<bound, cancelRequested, fileVars, mainVars, failure, poisoned>>

CompleteFails(j) ==
    /\ "store" \in Faults
    /\ GiveUp(j, "completing", "Other")
    /\ UNCHANGED <<dbVars, fileVars, lockVars, mainVars>>

-----------------------------------------------------------------------------
(* The worker thread: recording a failure and leaving.                     *)

\* the status run_proxy_job derives from the error
FailureStatus(error) ==
    CASE error = "Cancelled"     -> "cancelled"
      [] error = "ProcessLaunch" -> "blocked"
      [] OTHER                   -> "failed"

\* cleanup() and fail_proxy_job, whose own error is discarded; the guard is dropped
RecordFailure(j) ==
    /\ Step(j, "failing", "leaving")
    /\ Cleanup(j)
    /\ \/ FailProxyJob(j, FailureStatus(failure[j]))
       \/ "store" \in Faults /\ UNCHANGED dbVars
    /\ failure' = [failure EXCEPT ![j] = "None"]
    /\ lock' = NoJob
    /\ UNCHANGED <<proxy, thumbs, mainVars, poisoned>>

\* catch_unwind returned an error; the partial files stay
RecordPanic(j) ==
    /\ Step(j, "panicked", "leaving")
    /\ \/ FailProxyJob(j, "failed")
       \/ "store" \in Faults /\ UNCHANGED dbVars
    /\ UNCHANGED <<fileVars, lockVars, mainVars, failure>>

\* active.remove drops the token, and the thread ends
Leave(j) ==
    /\ Step(j, "leaving", "idle")
    /\ active' = active \ {j}
    /\ token' = [token EXCEPT ![j] = FALSE]
    /\ UNCHANGED <<dbVars, fileVars, lockVars, failure, opened, cancelling, starts>>

\* The application ends, by a crash or by closing its window, and is launched
\* again: threads, tokens and the mutex are gone, rows and files stay.
Restart ==
    /\ "crash" \in Faults
    /\ opened' = FALSE
    /\ active' = {}
    /\ token' = [j \in Jobs |-> FALSE]
    /\ phase' = [j \in Jobs |-> "idle"]
    /\ failure' = [j \in Jobs |-> "None"]
    /\ lock' = NoJob
    /\ poisoned' = FALSE
    /\ cancelling' = NoJob
    /\ UNCHANGED <<dbVars, fileVars, starts>>

-----------------------------------------------------------------------------
Command(j) == ImportMedia(j) \/ StartProxy(j) \/ CancelToken(j)

Worker(j) ==
    \/ AcquireLock(j) \/ LockPoisoned(j) \/ Claim(j) \/ ClaimRefused(j)
    \/ Prepare(j) \/ PrepareFails(j) \/ Probe(j) \/ ProbeFails(j)
    \/ ListEncoders(j) \/ ListEncodersFails(j)
    \/ RenderExits(j) \/ RenderFails(j) \/ RenderCancelled(j) \/ RenderErrors(j)
    \/ RenderPanics(j) \/ Fallback(j) \/ Checkpoint(j)
    \/ MakeThumbnails(j) \/ ThumbnailsFail(j)
    \/ ClearFinals(j) \/ PublishProxy(j) \/ PublishThumbs(j) \/ PublishFails(j)
    \/ CompleteProxyJob(j) \/ CompleteFails(j)
    \/ RecordFailure(j) \/ RecordPanic(j) \/ Leave(j)

Next ==
    \/ OpenProject
    \/ Restart
    \/ \E j \in Jobs : Command(j) \/ CancelRecord(j) \/ RenderProgress(j) \/ Worker(j)

Spec == Init /\ [][Next]_vars

(* Threads are scheduled, the child processes they wait for end, and the   *)
(* main thread finishes the command it is executing.  Users owe nothing.   *)
FairSpec == Spec /\ \A j \in Jobs : WF_vars(Worker(j)) /\ WF_vars(CancelRecord(j))

-----------------------------------------------------------------------------
TypeOK ==
    /\ status \in [Jobs -> Statuses]
    /\ bound \in [Jobs -> BOOLEAN]
    /\ progress \in [Jobs -> 0..100]
    /\ cancelRequested \in [Jobs -> BOOLEAN]
    /\ media \in [Jobs -> MediaStatuses]
    /\ partial \in [Jobs -> 0..MaxStarts]
    /\ partialThumbs \in [Jobs -> 0..MaxStarts]
    /\ proxy \in [Jobs -> 0..MaxStarts]
    /\ thumbs \in [Jobs -> 0..MaxStarts]
    /\ opened \in BOOLEAN
    /\ active \subseteq Jobs
    /\ token \in [Jobs -> BOOLEAN]
    /\ phase \in [Jobs -> Phases]
    /\ failure \in [Jobs -> Errors]
    /\ lock \in Jobs \union {NoJob}
    /\ poisoned \in BOOLEAN
    /\ cancelling \in Jobs \union {NoJob}
    /\ starts \in [Jobs -> 0..MaxStarts]

\* Both artifacts are on disk under their published names, and they are the two
\* of one attempt unless an output of an earlier one could not be removed.
WholeOutput(j) ==
    /\ proxy[j] # 0 /\ thumbs[j] # 0
    /\ "remove" \notin Faults => proxy[j] = thumbs[j]

(* The store never offers a proxy that is not there: media is ready exactly *)
(* when its job is complete, and then the video and the thumbnails are on   *)
(* disk and come from one attempt, whatever attempts were cancelled, failed *)
(* or killed between the two renames before (complete_proxy_job and the     *)
(* publication steps of run_proxy_job).                                     *)
ReadyMeansPublished ==
    \A j \in Jobs :
        /\ media[j] = "ready" <=> status[j] = "complete"
        /\ status[j] = "complete" => WholeOutput(j) /\ progress[j] = 100

(* A running row that asks for cancellation has a worker that was told: the *)
(* flag left by the cancel of an earlier attempt never reaches the row of   *)
(* the next one (claim_proxy_job resets it, cancel sets the token first).   *)
CancelFlagReachesWorker ==
    \A j \in Jobs :
        phase[j] \in Working /\ cancelRequested[j] => token[j]

(* The media row follows its job: no asset stays "running" or "queued" when *)
(* its job has ended, and none is ready or blocked while its job runs       *)
(* (claim_proxy_job, complete_proxy_job, fail_proxy_job update both rows).  *)
MediaFollowsJob ==
    \A j \in Jobs :
        /\ status[j] \in Aborted <=> media[j] = "blocked"
        /\ status[j] \in {"absent", "queued", "running"} => media[j] = status[j]

(* A complete job has no file under a partial name, and neither has one that *)
(* is blocked or cancelled, when removals work: those files are only left by *)
(* a worker still at it, by a panic (the row is failed then) or by a run     *)
(* that ended with the application (cleanup of run_proxy_job, the renames).  *)
NoPartialAfterFailure ==
    \A j \in Jobs :
        \/ status[j] = "complete"
        \/ status[j] \in {"blocked", "cancelled"} /\ "remove" \notin Faults
        => partial[j] = 0 /\ partialThumbs[j] = 0

(* complete is final: no restart, panic, late cancel or second start takes  *)
(* a finished proxy back or touches its files.                              *)
CompleteIsFinal ==
    [][\A j \in Jobs :
          status[j] = "complete" =>
              status'[j] = "complete" /\ proxy'[j] = proxy[j] /\ thumbs'[j] = thumbs[j]]_vars

(* A cancellation that arrives before the thumbnails are begun always wins:  *)
(* the attempt never publishes (the three looks at the token in              *)
(* run_proxy_job and the one in spawn_progress).                             *)
EarlyCancelWins ==
    [][\A j \in Jobs :
          token[j] /\ phase[j] \in BeforeThumbnails =>
              phase'[j] \in BeforeThumbnails \union {"failing", "panicked", "idle"}]_vars

(* Every accepted job is eventually over: its thread gets the mutex and      *)
(* leaves, even when others are cancelled, fail or panic, and its own panic  *)
(* is recorded from outside the closure (catch_unwind in the worker thread). *)
AcceptedJobEnds == \A j \in Jobs : phase[j] = "waiting" ~> phase[j] = "idle"

(* The proxy worker implements the promise of every durable job.             *)
Promise == INSTANCE DurableJob WITH
    Claimable <- {"queued"} \union Aborted,
    Abortable <- {"running"},
    advertised <- [j \in Jobs |-> media[j] = "ready" /\ WholeOutput(j)]

ImplementsDurableJob == Promise!Spec
=============================================================================
