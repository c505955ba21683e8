---------------------------- MODULE MediaAnalysis ----------------------------
(***************************************************************************)
(* Scans of imported media for evidence and telemetry overlays rendered    *)
(* from a review proxy: CvWorkerManager (cv_worker.rs),                    *)
(* GpstitchWorkerManager (gpstitch_worker.rs) and the functions of         *)
(* project_store.rs they call.                                             *)
(*                                                                         *)
(* A start inserts two rows, one in jobs and one in cv_scans or            *)
(* gpstitch_renders, under ids it has just made, and gives them a thread;  *)
(* a job is named by its id.  Commands run one after the other on the main *)
(* thread and so do the two reads of a poll, but the threads of the jobs   *)
(* commit between them.  A transaction is a step.                          *)
(***************************************************************************)
EXTENDS Integers, Sequences

CONSTANTS
    Scans, Renders,   \* ids of jobs
    ScanRequests,     \* what a scan may ask for
    RenderRequests,   \* what an overlay may ask for
    SidecarAnswers,   \* what the scanner may print
    None,
    Faults            \* subset of {"store", "inputs", "files", "process", "panic", "crash"}

Layouts == {"speed-awareness", "default"}
Alignments == {"auto", "gpx_timestamps", "manual"}
Day == 86400
Errors == {"Store", "InvalidConfiguration", "Execution", "InvalidOutput"}

ASSUME MediaAnalysisAssumption ==
    /\ Scans \intersect Renders = {}
    /\ ScanRequests \subseteq [model : {"onnx", "other"}, maxFindings : Nat]
    /\ RenderRequests \subseteq [layout : Layouts \union {"other"},
                                 alignment : Alignments, offset : Int]
    /\ SidecarAnswers \subseteq [status : {"complete", "other"}, sameInputs : BOOLEAN,
                                 count : Nat, review : BOOLEAN,
                                 boxes : Seq({"inside", "outside"})]
    /\ None \notin Scans \union ScanRequests \union RenderRequests \union SidecarAnswers
    /\ None \notin [scan : Scans, status : STRING, count : Nat, review : BOOLEAN]
    /\ None \notin Errors

VARIABLES
    \* the database
    status,          \* jobs.status, "absent" before the insert
    rowStatus,       \* cv_scans.status or gpstitch_renders.status
    request,         \* what was asked for: the other columns of that row
    findings,        \* the review_status of the findings of a scan, in their order
    findingCount,    \* cv_scans.finding_count
    reviewRequired,  \* cv_scans.review_required
    recorded,        \* whether gpstitch_renders names an output
    \* the directory proxies/<media>/gpstitch
    copied,          \* .<render>.input.mp4 exists
    staging,         \* .<render>.partial.mp4
    overlay,         \* <render>.mp4
    \* the application
    active,          \* active_jobs of both managers
    phase,           \* where the thread of a job is
    error,           \* the error its thread met
    answer,          \* what the scanner printed
    poll,            \* what a poll has read of the row of a scan
    \* history
    refused,         \* renders whose completion was refused
    abandoned        \* jobs that some thread left as they were

rowVars == <<status, rowStatus, request, findings, findingCount, reviewRequired, recorded>>
fileVars == <<copied, staging, overlay>>
threadVars == <<active, phase, error, answer>>
historyVars == <<refused, abandoned>>
vars == <<rowVars, fileVars, threadVars, poll, historyVars>>

Jobs == Scans \union Renders

\* what a poll reads of cv_scans and jobs, and what it answers of a render
ScanAnswer(s) ==
    [scan |-> s, status |-> status[s], count |-> findingCount[s], review |-> reviewRequired[s]]
RenderAnswer(r) == [status |-> status[r], output |-> recorded[r]]

Unended == {"queued", "running"}
Ended == {"complete", "failed", "blocked"}
Statuses == {"absent"} \union Unended \union Ended
Reviews == {"needs_review", "included", "excluded"}
FileStates == {"absent", "partial", "whole"}
AtWork == {"resolve", "execute", "check", "render", "clean", "discard", "publish", "complete"}
Phases == {"idle", "claim", "fail", "free", "dead"} \union AtWork

Init ==
    /\ status = [j \in Jobs |-> "absent"]
    /\ rowStatus = [j \in Jobs |-> "absent"]
    /\ request = [j \in Jobs |-> None]
    /\ findings = [s \in Scans |-> <<>>]
    /\ findingCount = [s \in Scans |-> 0]
    /\ reviewRequired = [s \in Scans |-> FALSE]
    /\ recorded = [r \in Renders |-> FALSE]
    /\ copied = [r \in Renders |-> FALSE]
    /\ staging = [r \in Renders |-> "absent"]
    /\ overlay = [r \in Renders |-> "absent"]
    /\ active = {}
    /\ phase = [j \in Jobs |-> "idle"]
    /\ error = [j \in Jobs |-> None]
    /\ answer = [s \in Scans |-> None]
    /\ poll = None
    /\ refused = {}
    /\ abandoned = {}

-----------------------------------------------------------------------------
(* Commands on the main thread; a poll occupies it until its second read.  *)

MainThreadIsFree == poll = None

\* validate_cv_scan_request; the bounds of the other numbers are alike
ScanRequestIsValid(q) == q.model = "onnx" /\ q.maxFindings \in 1 .. 10000

\* validate_gpstitch_request: only a manual alignment has an offset, of a day at most
RenderRequestIsValid(q) ==
    /\ q.layout \in Layouts
    /\ q.offset \in -Day .. Day
    /\ q.alignment # "manual" => q.offset = 0

\* both rows are inserted by one transaction
Queue(j, q) ==
    /\ status[j] = "absent"
    /\ status' = [status EXCEPT ![j] = "queued"]
    /\ rowStatus' = [rowStatus EXCEPT ![j] = "queued"]
    /\ request' = [request EXCEPT ![j] = q]
    /\ UNCHANGED <<findings, findingCount, reviewRequired, recorded>>

\* queue_cv_scan, of a medium that was imported
QueueScan(s, q) == s \in Scans /\ ScanRequestIsValid(q) /\ Queue(s, q)

\* queue_gpstitch_render, of a medium with a ready proxy and an imported route
QueueRender(r, q) == r \in Renders /\ RenderRequestIsValid(q) /\ Queue(r, q)

Launch(j) ==
    /\ active' = active \union {j}
    /\ phase' = [phase EXCEPT ![j] = "claim"]
    /\ UNCHANGED <<error, answer, fileVars, poll, historyVars>>

\* start of CvWorkerManager
StartScan(s, q) == MainThreadIsFree /\ QueueScan(s, q) /\ Launch(s)

\* start of GpstitchWorkerManager
StartRender(r, q) == MainThreadIsFree /\ QueueRender(r, q) /\ Launch(r)

\* EXISTS (... review_status = 'needs_review')
ReviewRequired(fs) == \E k \in DOMAIN fs : fs[k] = "needs_review"

\* review_cv_finding
Review(s, i, verdict) ==
    LET reviewed == [findings[s] EXCEPT ![i] = verdict]
    IN  /\ MainThreadIsFree
        /\ rowStatus[s] = "complete"
        /\ i \in DOMAIN findings[s]
        /\ findings' = [findings EXCEPT ![s] = reviewed]
        /\ reviewRequired' = [reviewRequired EXCEPT ![s] = ReviewRequired(reviewed)]
        /\ UNCHANGED <<status, rowStatus, request, findingCount, recorded,
                       fileVars, threadVars, poll, historyVars>>

\* the first statement of read_cv_scan_status
PollRow(s) ==
    /\ MainThreadIsFree
    /\ status[s] # "absent"
    /\ poll' = ScanAnswer(s)
    /\ UNCHANGED <<rowVars, fileVars, threadVars, historyVars>>

\* the second, in a read transaction of its own
PollFindings ==
    /\ ~MainThreadIsFree
    /\ poll' = None
    /\ UNCHANGED <<rowVars, fileVars, threadVars, historyVars>>

-----------------------------------------------------------------------------
(* The thread of a job.                                                    *)

Goto(j, from, to) ==
    /\ phase[j] = from
    /\ phase' = [phase EXCEPT ![j] = to]

Errs(j, from, to, e) ==
    /\ Goto(j, from, to)
    /\ error' = [error EXCEPT ![j] = e]

SetStatus(j, new) ==
    /\ status' = [status EXCEPT ![j] = new]
    /\ rowStatus' = [rowStatus EXCEPT ![j] = new]

MayBeClaimed(j) == status[j] = "queued"

\* claim_cv_scan
ClaimScan(s) ==
    /\ s \in Scans /\ Goto(s, "claim", "resolve")
    /\ MayBeClaimed(s)
    /\ SetStatus(s, "running")
    /\ UNCHANGED <<request, findings, findingCount, reviewRequired, recorded, fileVars,
                   active, error, answer, poll, historyVars>>

\* claim_gpstitch_render, while the proxy and the GPX file are there
ClaimRender(r) ==
    /\ r \in Renders /\ Goto(r, "claim", "resolve")
    /\ MayBeClaimed(r)
    /\ SetStatus(r, "running")
    /\ UNCHANGED <<request, findings, findingCount, reviewRequired, recorded, fileVars,
                   active, error, answer, poll, historyVars>>

\* a file that is gone is an error of the store as well
ClaimFails(j) ==
    /\ "store" \in Faults \/ (j \in Renders /\ "inputs" \in Faults)
    /\ Errs(j, "claim", "fail", "Store")
    /\ UNCHANGED <<rowVars, fileVars, active, answer, poll, historyVars>>

\* run_cv_scan: source, model and labels are made canonical
ResolveScan(s) ==
    /\ s \in Scans
    /\ \/ Goto(s, "resolve", "execute") /\ UNCHANGED error
       \/ "inputs" \in Faults /\ Errs(s, "resolve", "fail", "InvalidConfiguration")
    /\ UNCHANGED <<rowVars, fileVars, active, answer, poll, historyVars>>

\* execute of ProcessCvExecutor: the sidecar directory and the probe of its environment,
\* then the bounded process (map_process_error) and its output
ExecuteScan(s) ==
    /\ s \in Scans
    /\ \/ /\ Goto(s, "execute", "check")
          /\ \E a \in SidecarAnswers : answer' = [answer EXCEPT ![s] = a]
          /\ UNCHANGED error
       \/ /\ "process" \in Faults
          /\ \E e \in {"InvalidConfiguration", "Execution", "InvalidOutput"} :
                 Errs(s, "execute", "fail", e)
          /\ UNCHANGED answer
    /\ UNCHANGED <<rowVars, fileVars, active, poll, historyVars>>

\* run_cv_scan: the identity and the aggregate metadata of the answer
AnswerIsAccepted(a) ==
    /\ a.status = "complete"
    /\ a.sameInputs
    /\ a.count = Len(a.boxes)
    /\ a.review = (a.boxes # <<>>)

CheckScan(s) ==
    /\ s \in Scans
    /\ \/ /\ Goto(s, "check", "complete")
          /\ AnswerIsAccepted(answer[s])
          /\ UNCHANGED error
       \/ /\ Errs(s, "check", "fail", "InvalidOutput")
          /\ ~AnswerIsAccepted(answer[s])
    /\ UNCHANGED <<rowVars, fileVars, active, answer, poll, historyVars>>

\* validate_cv_findings
FindingsAreValid(a, q) ==
    /\ Len(a.boxes) =< q.maxFindings
    /\ \A i \in DOMAIN a.boxes : a.boxes[i] = "inside"

\* into_store: every finding is to be reviewed
ToReview(a) == [i \in DOMAIN a.boxes |-> "needs_review"]

\* mutant: what the sidecar found is completed without being validated
CompleteScanUnvalidated(s) ==
    /\ s \in Scans /\ Goto(s, "complete", "free")
    /\ SetStatus(s, "complete")
    /\ findings' = [findings EXCEPT ![s] = ToReview(answer[s])]
    /\ findingCount' = [findingCount EXCEPT ![s] = answer[s].count]
    /\ reviewRequired' = [reviewRequired EXCEPT ![s] = answer[s].boxes # <<>>]
    /\ UNCHANGED <<request, recorded, fileVars, active, error, answer, poll, historyVars>>

\* complete_cv_scan: the findings, their number and both statuses in one transaction
CompleteScan(s) ==
    /\ s \in Scans /\ Goto(s, "complete", "free")
    /\ FindingsAreValid(answer[s], request[s])
    /\ status[s] = "running"
    /\ SetStatus(s, "complete")
    /\ findings' = [findings EXCEPT ![s] = ToReview(answer[s])]
    /\ findingCount' = [findingCount EXCEPT ![s] = Len(answer[s].boxes)]
    /\ reviewRequired' = [reviewRequired EXCEPT ![s] = answer[s].boxes # <<>>]
    /\ UNCHANGED <<request, recorded, fileVars, active, error, answer, poll, historyVars>>

CompleteScanFails(s) ==
    /\ s \in Scans /\ phase[s] = "complete"
    /\ "store" \in Faults \/ ~FindingsAreValid(answer[s], request[s])
    /\ Errs(s, "complete", "fail", "Store")
    /\ UNCHANGED <<rowVars, fileVars, active, answer, poll, historyVars>>

-----------------------------------------------------------------------------

Direct(r) == request[r].alignment = "gpx_timestamps"

\* run_gpstitch_render: canonical paths, the directory, names that are free, and the copy
\* that an alignment by file time needs; copying may stop half-way
ResolveRender(r) ==
    /\ r \in Renders /\ phase[r] = "resolve"
    /\ \/ /\ ~copied[r] /\ staging[r] = "absent" /\ overlay[r] = "absent"
          /\ Goto(r, "resolve", "execute")
          /\ copied' = [copied EXCEPT ![r] = ~Direct(r)]
          /\ UNCHANGED error
       \/ /\ "inputs" \in Faults
          /\ Errs(r, "resolve", "fail", "InvalidConfiguration")
          /\ UNCHANGED copied
       \/ /\ "files" \in Faults
          /\ Errs(r, "resolve", "fail", "Execution")
          /\ \E left \in {FALSE, ~Direct(r)} : copied' = [copied EXCEPT ![r] = left]
    /\ UNCHANGED <<rowVars, staging, overlay, active, answer, poll, historyVars>>

\* set_alignment_time: the start of the medium may not be a date, or not representable;
\* its errors leave the copy
AlignmentFails(r) ==
    /\ r \in Renders /\ phase[r] = "execute" /\ copied[r]
    /\ "inputs" \in Faults
    /\ \E e \in {"InvalidConfiguration", "Execution"} : Errs(r, "execute", "fail", e)
    /\ UNCHANGED <<rowVars, fileVars, active, answer, poll, historyVars>>

\* validate_sidecar: its probe, its files, and what they say
SidecarErrors == {"InvalidConfiguration", "Execution"}

\* overlay_font_path finds none of its candidates
FontErrors == {"InvalidConfiguration"}

\* validate_ffmpeg_directory
MediaToolErrors == {"InvalidConfiguration"}

\* the renderer is not started, or cannot be
RendererIsUnusable(r) ==
    /\ r \in Renders
    /\ "process" \in Faults
    /\ \E e \in SidecarErrors \union FontErrors \union MediaToolErrors :
           Errs(r, "execute", "clean", e)
    /\ UNCHANGED <<rowVars, fileVars, active, answer, poll, historyVars>>

\* the renderer starts to write
LaunchRenderer(r) ==
    /\ r \in Renders /\ Goto(r, "execute", "render")
    /\ staging' = [staging EXCEPT ![r] = "partial"]
    /\ UNCHANGED <<rowVars, copied, overlay, active, error, answer, poll, historyVars>>

\* mutant: the exit status is not looked at
RendererEndsSomehow(r) ==
    /\ r \in Renders /\ Goto(r, "render", "clean")
    /\ \E left \in FileStates \ {"absent"} : staging' = [staging EXCEPT ![r] = left]
    /\ UNCHANGED <<rowVars, copied, overlay, active, error, answer, poll, historyVars>>

\* mutant: the renderer is given the final name
RendererWritesOverlay(r) ==
    /\ r \in Renders
    /\ \/ /\ Goto(r, "render", "clean")
          /\ UNCHANGED error
       \/ /\ "process" \in Faults
          /\ Errs(r, "render", "clean", "Execution")
    /\ overlay' = [overlay EXCEPT ![r] = "whole"]
    /\ staging' = [staging EXCEPT ![r] = "whole"]
    /\ UNCHANGED <<rowVars, copied, active, answer, poll, historyVars>>

\* execute of ProcessGpstitchExecutor: success means a file that is not empty; a process that
\* is stopped or fails leaves any file
RendererEnds(r) ==
    /\ r \in Renders
    /\ \/ /\ Goto(r, "render", "clean")
          /\ staging' = [staging EXCEPT ![r] = "whole"]
          /\ UNCHANGED error
       \/ /\ "process" \in Faults
          /\ \E e \in {"Execution", "InvalidOutput"} : Errs(r, "render", "clean", e)
          /\ \E left \in FileStates : staging' = [staging EXCEPT ![r] = left]
    /\ UNCHANGED <<rowVars, copied, overlay, active, answer, poll, historyVars>>

\* a failed removal goes unnoticed
MayStay(file, gone) == IF "files" \in Faults THEN {file, gone} ELSE {gone}

\* the copy is removed, whatever the renderer did
CleanCopy(r) ==
    /\ r \in Renders /\ Goto(r, "clean", IF error[r] = None THEN "publish" ELSE "discard")
    /\ \E left \in MayStay(copied[r], FALSE) : copied' = [copied EXCEPT ![r] = left]
    /\ UNCHANGED <<rowVars, staging, overlay, active, error, answer, poll, historyVars>>

Discard(r) ==
    /\ r \in Renders /\ Goto(r, "discard", "fail")
    /\ \E left \in MayStay(staging[r], "absent") : staging' = [staging EXCEPT ![r] = left]
    /\ UNCHANGED <<rowVars, copied, overlay, active, error, answer, poll, historyVars>>

\* the rename
Publish(r) ==
    /\ r \in Renders
    /\ \/ /\ Goto(r, "publish", "complete")
          /\ overlay' = [overlay EXCEPT ![r] = staging[r]]
          /\ staging' = [staging EXCEPT ![r] = "absent"]
          /\ UNCHANGED error
       \/ /\ "files" \in Faults
          /\ Errs(r, "publish", "fail", "Execution")
          /\ UNCHANGED <<staging, overlay>>
    /\ UNCHANGED <<rowVars, copied, active, answer, poll, historyVars>>

\* complete_gpstitch_render; it ends with a read, and an error of that read goes the way of
\* every other
CompleteRender(r) ==
    /\ r \in Renders
    /\ \/ Goto(r, "complete", "free") /\ UNCHANGED error
       \/ Errs(r, "complete", "fail", "Store") /\ "store" \in Faults
    /\ rowStatus[r] = "running"
    /\ SetStatus(r, "complete")
    /\ recorded' = [recorded EXCEPT ![r] = TRUE]
    /\ UNCHANGED <<request, findings, findingCount, reviewRequired, fileVars, active,
                   answer, poll, historyVars>>

\* the file cannot be hashed, or the transaction is refused
CompleteRenderFails(r) ==
    /\ r \in Renders
    /\ "store" \in Faults
    /\ Errs(r, "complete", "fail", "Store")
    /\ refused' = refused \union {r}
    /\ UNCHANGED <<rowVars, fileVars, active, answer, poll, abandoned>>

-----------------------------------------------------------------------------

\* starting a reader thread of the process panics, and nothing catches it
Panics(j) ==
    /\ "panic" \in Faults
    /\ Goto(j, IF j \in Scans THEN "execute" ELSE "render", "dead")
    /\ abandoned' = abandoned \union {j}
    /\ UNCHANGED <<rowVars, fileVars, active, error, answer, poll, refused>>

\* the closures of the two starts give an error its status
Verdict(j, e) ==
    IF e = "InvalidConfiguration" \/ (e = "Execution" /\ j \in Scans) THEN "blocked" ELSE "failed"

\* mutant: a claimed row is left alone
FailQueued(j) == status[j] = "queued"

MayBeFailed(j) == status[j] \in Unended

\* fail_cv_scan
FailScan(s) ==
    /\ s \in Scans /\ Goto(s, "fail", "free")
    /\ MayBeFailed(s)
    /\ SetStatus(s, Verdict(s, error[s]))
    /\ UNCHANGED <<request, findings, findingCount, reviewRequired, recorded, fileVars,
                   active, error, answer, poll, historyVars>>

\* fail_gpstitch_render
FailRender(r) ==
    /\ r \in Renders /\ Goto(r, "fail", "free")
    /\ MayBeFailed(r)
    /\ SetStatus(r, Verdict(r, error[r]))
    /\ UNCHANGED <<request, findings, findingCount, reviewRequired, recorded, fileVars,
                   active, error, answer, poll, historyVars>>

\* the closures discard what fail_* answers
FailIsRefused(j) ==
    /\ Goto(j, "fail", "free")
    /\ "store" \in Faults \/ ~MayBeFailed(j)
    /\ abandoned' = IF MayBeFailed(j) THEN abandoned \union {j} ELSE abandoned
    /\ UNCHANGED <<rowVars, fileVars, active, error, answer, poll, refused>>

\* active.remove, and the thread ends
Free(j) ==
    /\ Goto(j, "free", "idle")
    /\ active' = active \ {j}
    /\ error' = [error EXCEPT ![j] = None]
    /\ answer' = IF j \in Scans THEN [answer EXCEPT ![j] = None] ELSE answer
    /\ UNCHANGED <<rowVars, fileVars, poll, historyVars>>

\* The application ends and is launched again.  Opening a project at the present schema
\* leaves the rows of its jobs as they are, and a start never names one of them.
Restart ==
    /\ "crash" \in Faults
    /\ abandoned' = abandoned \union {j \in Jobs : phase[j] \notin {"idle", "free"}}
    /\ active' = {}
    /\ phase' = [j \in Jobs |-> "idle"]
    /\ error' = [j \in Jobs |-> None]
    /\ answer' = [s \in Scans |-> None]
    /\ poll' = None
    /\ UNCHANGED <<rowVars, fileVars, refused>>

RunScan(s) ==
    \/ ClaimScan(s) \/ ResolveScan(s) \/ ExecuteScan(s) \/ CheckScan(s)
    \/ CompleteScan(s) \/ CompleteScanFails(s) \/ FailScan(s)

RunRender(r) ==
    \/ ClaimRender(r) \/ ResolveRender(r) \/ AlignmentFails(r) \/ RendererIsUnusable(r)
    \/ LaunchRenderer(r) \/ RendererEnds(r) \/ CleanCopy(r) \/ Discard(r) \/ Publish(r)
    \/ CompleteRender(r) \/ CompleteRenderFails(r) \/ FailRender(r)

Run(j) ==
    \/ RunScan(j) \/ RunRender(j)
    \/ ClaimFails(j) \/ Panics(j) \/ FailIsRefused(j) \/ Free(j)

Next ==
    \/ \E s \in Scans, q \in ScanRequests : StartScan(s, q)
    \/ \E r \in Renders, q \in RenderRequests : StartRender(r, q)
    \/ \E s \in Scans :
          \/ \E i \in DOMAIN findings[s], verdict \in Reviews : Review(s, i, verdict)
          \/ PollRow(s)
    \/ PollFindings
    \/ \E j \in Jobs : Run(j)
    \/ Restart

Spec == Init /\ [][Next]_vars

(* Threads are scheduled, and a bounded process ends within its time.          *)
FairSpec == Spec /\ \A j \in Jobs : WF_vars(Run(j))

-----------------------------------------------------------------------------
TypeOK ==
    /\ status \in [Jobs -> Statuses]
    /\ rowStatus \in [Jobs -> Statuses]
    /\ request \in [Jobs -> ScanRequests \union RenderRequests \union {None}]
    /\ findings \in [Scans -> Seq(Reviews)]
    /\ findingCount \in [Scans -> Nat]
    /\ reviewRequired \in [Scans -> BOOLEAN]
    /\ recorded \in [Renders -> BOOLEAN]
    /\ copied \in [Renders -> BOOLEAN]
    /\ staging \in [Renders -> FileStates]
    /\ overlay \in [Renders -> FileStates]
    /\ active \subseteq Jobs
    /\ phase \in [Jobs -> Phases]
    /\ error \in [Jobs -> Errors \union {None}]
    /\ answer \in [Scans -> SidecarAnswers \union {None}]
    /\ poll \in [scan : Scans, status : Statuses, count : Nat, review : BOOLEAN] \union {None}
    /\ refused \subseteq Renders
    /\ abandoned \subseteq Jobs

(* A complete scan has the findings its row counts, every one of them within   *)
(* what was asked for, and asks for a review exactly while one of them is to   *)
(* be reviewed; any other scan has none (complete_cv_scan, review_cv_finding). *)
FindingsMatchScan ==
    \A s \in Scans :
        /\ findings[s] # <<>> => status[s] = "complete"
        /\ findingCount[s] = Len(findings[s])
        /\ findings[s] # <<>> => findingCount[s] =< request[s].maxFindings
        /\ reviewRequired[s] = (\E i \in DOMAIN findings[s] : findings[s][i] = "needs_review")

(* A complete render names an overlay that is whole, and no other render names *)
(* one; the two rows of a job agree, and nothing is ever seen under the final  *)
(* name of an overlay that was not rendered to its end (run_gpstitch_render).  *)
OverlayMatchesRender ==
    /\ rowStatus = status
    /\ \A r \in Renders :
          /\ RenderAnswer(r).output <=> RenderAnswer(r).status = "complete"
          /\ recorded[r] => overlay[r] = "whole"
          /\ overlay[r] # "partial"

(* An overlay that no row names is left behind only when the completion of the *)
(* render was refused after the rename, or its thread was ended between the    *)
(* two: no other error comes after the rename (gpstitch_worker.rs:239).        *)
OverlayIsNamed ==
    \A r \in Renders :
        overlay[r] # "absent" =>
            recorded[r] \/ phase[r] = "complete" \/ r \in refused \union abandoned

(* Every start that was accepted ends, in a status a poll stops at, unless a   *)
(* thread left the job as it was.                                              *)
StartedJobEnds ==
    \A j \in Jobs : status[j] \in Unended ~> status[j] \in Ended \/ j \in abandoned

Promise == INSTANCE DurableJob WITH
    Claimable <- {"queued"},
    Abortable <- {"queued", "running"},
    advertised <- [j \in Jobs |-> IF j \in Scans THEN rowStatus[j] = "complete" ELSE recorded[j]]

(* The rows of scans and renders implement the promise of a job.               *)
ImplementsDurableJob == Promise!Spec

(* What the two reads of a poll return belongs together: the findings are as   *)
(* many as the row counts.  The scans are published by one transaction, and a  *)
(* poll with another number of findings is refused (nativeCvRepository.ts:58). *)
PollSeesOneState ==
    poll # None => poll.count = Len(findings[poll.scan])
=============================================================================
