-------------------------- MODULE MediaAnalysisProof --------------------------
(***************************************************************************)
(* Proofs about MediaAnalysis: its types, and that the rows of scans and   *)
(* renders agree with the findings and the overlays they speak of.         *)
(*                                                                         *)
(* The argument is local to a job: JobSound says of one job what its rows, *)
(* its files and its thread have to do with each other.  A step of another *)
(* job leaves all of them alone.                                           *)
(***************************************************************************)
EXTENDS MediaAnalysis, SequenceTheorems, TLAPS

ScanSound(s) ==
    /\ phase[s] \in {"check", "complete"} => answer[s] \in SidecarAnswers
    /\ findings[s] # <<>> => status[s] = "complete"
    /\ findingCount[s] = Len(findings[s])
    /\ findings[s] # <<>> => findingCount[s] =< request[s].maxFindings
    /\ reviewRequired[s] <=> ReviewRequired(findings[s])

RenderSound(r) ==
    /\ phase[r] = "clean" /\ error[r] = None => staging[r] = "whole"
    /\ phase[r] = "publish" => staging[r] = "whole"
    /\ phase[r] = "complete" => overlay[r] = "whole"
    /\ recorded[r] <=> status[r] = "complete"
    /\ recorded[r] => overlay[r] = "whole"
    /\ overlay[r] # "partial"
    /\ overlay[r] # "absent" =>
          recorded[r] \/ phase[r] = "complete" \/ r \in refused \union abandoned

JobSound(j) ==
    /\ rowStatus[j] = status[j]
    /\ status[j] = "absent" => phase[j] = "idle"
    /\ j \in Scans => ScanSound(j)
    /\ j \in Renders => RenderSound(j)

IInv == TypeOK /\ \A j \in Jobs : JobSound(j)

-----------------------------------------------------------------------------
(* Findings.                                                               *)

LEMMA FindingsToReview ==
    ASSUME NEW a \in SidecarAnswers
    PROVE  /\ ToReview(a) \in Seq(Reviews)
           /\ Len(ToReview(a)) = Len(a.boxes) /\ Len(a.boxes) \in Nat
           /\ a.boxes # <<>> <=> ReviewRequired(ToReview(a))
           /\ ToReview(a) # <<>> => a.boxes # <<>>
<1>1. a.boxes \in Seq({"inside", "outside"})
    BY MediaAnalysisAssumption
<1>2. Len(a.boxes) \in Nat /\ DOMAIN a.boxes = 1 .. Len(a.boxes)
    BY <1>1
<1>3. ToReview(a) = [i \in 1 .. Len(a.boxes) |-> "needs_review"]
    BY <1>2 DEF ToReview
<1>4. ToReview(a) \in Seq(Reviews) /\ Len(ToReview(a)) = Len(a.boxes)
    BY <1>2, <1>3 DEF Reviews
<1>5. a.boxes # <<>> <=> 1 \in DOMAIN a.boxes
    BY <1>1, <1>2
<1>6. DOMAIN ToReview(a) = DOMAIN a.boxes
    BY <1>2, <1>3
<1>7. \A i \in DOMAIN ToReview(a) : ToReview(a)[i] = "needs_review"
    BY <1>3
<1>8. a.boxes # <<>> <=> ReviewRequired(ToReview(a))
    BY <1>2, <1>5, <1>6, <1>7 DEF ReviewRequired
<1> QED BY <1>1, <1>2, <1>4, <1>8

LEMMA ReviewKeepsFindings ==
    ASSUME NEW fs \in Seq(Reviews), NEW i \in DOMAIN fs, NEW verdict \in Reviews
    PROVE  /\ [fs EXCEPT ![i] = verdict] \in Seq(Reviews)
           /\ Len([fs EXCEPT ![i] = verdict]) = Len(fs)
           /\ fs # <<>>
BY ExceptSeq

-----------------------------------------------------------------------------
LEMMA InitIsSound == Init => IInv
<1> SUFFICES ASSUME Init PROVE IInv
    OBVIOUS
<1>1. TypeOK
    BY DEF Init, TypeOK, Statuses, FileStates, Phases, Unended, Ended
<1>2. ASSUME NEW j \in Jobs PROVE JobSound(j)
    <2>1. j \in Scans => ScanSound(j)
        BY DEF Init, ScanSound, Jobs, ReviewRequired
    <2>2. j \in Renders => RenderSound(j)
        BY DEF Init, RenderSound, Jobs
    <2> QED BY <2>1, <2>2 DEF Init, JobSound
<1> QED BY <1>1, <1>2 DEF IInv

-----------------------------------------------------------------------------
(* Types.                                                                  *)

\* the commands of the main thread
Command ==
    \/ \E s \in Scans, q \in ScanRequests : StartScan(s, q)
    \/ \E r \in Renders, q \in RenderRequests : StartRender(r, q)
    \/ \E s \in Scans :
          \/ \E i \in DOMAIN findings[s], verdict \in Reviews : Review(s, i, verdict)
          \/ PollRow(s)
    \/ PollFindings

LEMMA CommandKeepsType == TypeOK /\ Command => TypeOK'
<1> SUFFICES ASSUME TypeOK, Command PROVE TypeOK'
    OBVIOUS
<1> USE DEF TypeOK, fileVars, threadVars, historyVars, rowVars
<1>1. ASSUME NEW s \in Scans, NEW q \in ScanRequests, StartScan(s, q) PROVE TypeOK'
    BY <1>1 DEF StartScan, QueueScan, Queue, Launch, Jobs, Statuses, Unended, Phases
<1>2. ASSUME NEW r \in Renders, NEW q \in RenderRequests, StartRender(r, q) PROVE TypeOK'
    BY <1>2 DEF StartRender, QueueRender, Queue, Launch, Jobs, Statuses, Unended, Phases
<1>3. ASSUME NEW s \in Scans, NEW i \in DOMAIN findings[s], NEW verdict \in Reviews,
             Review(s, i, verdict)
      PROVE  TypeOK'
    <2>1. findings' \in [Scans -> Seq(Reviews)]
        BY <1>3, ReviewKeepsFindings DEF Review
    <2>2. reviewRequired' \in [Scans -> BOOLEAN]
        BY <1>3 DEF Review, ReviewRequired
    <2> QED BY <1>3, <2>1, <2>2 DEF Review
<1>4. ASSUME NEW s \in Scans, PollRow(s) PROVE TypeOK'
    BY <1>4 DEF PollRow, ScanAnswer, Jobs
<1>5. CASE PollFindings
    BY <1>5 DEF PollFindings
<1> QED BY <1>1, <1>2, <1>3, <1>4, <1>5 DEF Command

\* where a thread goes and the error it meets are of their types
LEMMA ErrorIsTyped ==
    ASSUME TypeOK, NEW j \in Jobs, NEW from \in Phases, NEW to \in Phases, NEW e \in Errors,
           Errs(j, from, to, e)
    PROVE  phase' \in [Jobs -> Phases] /\ error' \in [Jobs -> Errors \union {None}]
BY DEF TypeOK, Errs, Goto

LEMMA ScanKeepsType ==
    ASSUME TypeOK, NEW s \in Scans, ScanSound(s), RunScan(s)
    PROVE  TypeOK'
<1> USE DEF TypeOK, fileVars, threadVars, historyVars, rowVars, Goto, Errs, SetStatus, Jobs,
            Phases, AtWork, Errors, Statuses, Unended, Ended
<1>1. CASE ClaimScan(s) BY <1>1 DEF ClaimScan
<1>2. CASE ResolveScan(s) BY <1>2 DEF ResolveScan
<1>3. CASE ExecuteScan(s)
    <2>1. answer' \in [Scans -> SidecarAnswers \union {None}]
        BY <1>3 DEF ExecuteScan
    <2>2. phase' \in [Jobs -> Phases] /\ error' \in [Jobs -> Errors \union {None}]
        <3>1. CASE Goto(s, "execute", "check") /\ UNCHANGED error
            BY <3>1
        <3>2. ASSUME NEW e \in Errors, Errs(s, "execute", "fail", e)
              PROVE  phase' \in [Jobs -> Phases] /\ error' \in [Jobs -> Errors \union {None}]
            BY <3>2, ErrorIsTyped
        <3> HIDE DEF Goto, Errs
        <3> QED BY <1>3, <3>1, <3>2 DEF ExecuteScan
    <2> QED BY <1>3, <2>1, <2>2 DEF ExecuteScan
<1>4. CASE CheckScan(s) BY <1>4 DEF CheckScan
<1>5. CASE CompleteScan(s)
    <2>1. answer[s] \in SidecarAnswers
        BY <1>5 DEF ScanSound, CompleteScan
    <2>2. findings' \in [Scans -> Seq(Reviews)]
        BY <1>5, <2>1, FindingsToReview DEF CompleteScan
    <2>3. findingCount' \in [Scans -> Nat]
        BY <1>5, <2>1, FindingsToReview DEF CompleteScan
    <2>4. reviewRequired' \in [Scans -> BOOLEAN]
        BY <1>5 DEF CompleteScan
    <2> QED BY <1>5, <2>2, <2>3, <2>4 DEF CompleteScan
<1>6. CASE CompleteScanFails(s) BY <1>6 DEF CompleteScanFails
<1>7. CASE FailScan(s) BY <1>7 DEF FailScan, Verdict
<1> QED BY <1>1, <1>2, <1>3, <1>4, <1>5, <1>6, <1>7 DEF RunScan

LEMMA RenderKeepsType ==
    ASSUME TypeOK, NEW r \in Renders, RunRender(r)
    PROVE  TypeOK'
<1> USE DEF TypeOK, fileVars, threadVars, historyVars, rowVars, Goto, Errs, SetStatus, Jobs,
            Phases, AtWork, Errors, Statuses, Unended, Ended, FileStates
<1>1. CASE ClaimRender(r) BY <1>1 DEF ClaimRender
<1>2. CASE ResolveRender(r)
    <2>1. copied' \in [Renders -> BOOLEAN]
        <3>1. Direct(r) \in BOOLEAN
            BY DEF Direct
        <3>2. copied' = [copied EXCEPT ![r] = TRUE] \/ copied' = [copied EXCEPT ![r] = FALSE]
                 \/ copied' = copied
            BY <1>2, <3>1, Zenon DEF ResolveRender
        <3> QED BY <3>2
    <2>2. phase' \in [Jobs -> Phases] /\ error' \in [Jobs -> Errors \union {None}]
        <3>1. CASE Goto(r, "resolve", "execute") /\ UNCHANGED error
            BY <3>1
        <3>2. ASSUME NEW e \in Errors, Errs(r, "resolve", "fail", e)
              PROVE  phase' \in [Jobs -> Phases] /\ error' \in [Jobs -> Errors \union {None}]
            BY <3>2, ErrorIsTyped
        <3> HIDE DEF Goto, Errs
        <3> QED BY <1>2, <3>1, <3>2 DEF ResolveRender
    <2> QED BY <1>2, <2>1, <2>2 DEF ResolveRender
<1>3. CASE AlignmentFails(r) BY <1>3 DEF AlignmentFails
<1>4. CASE RendererIsUnusable(r)
    BY <1>4 DEF RendererIsUnusable, SidecarErrors, FontErrors, MediaToolErrors
<1>5. CASE LaunchRenderer(r) BY <1>5 DEF LaunchRenderer
<1>6. CASE RendererEnds(r)
    <2>1. staging' \in [Renders -> FileStates]
        BY <1>6 DEF RendererEnds
    <2>2. phase' \in [Jobs -> Phases] /\ error' \in [Jobs -> Errors \union {None}]
        <3>1. CASE Goto(r, "render", "clean") /\ UNCHANGED error
            BY <3>1
        <3>2. ASSUME NEW e \in Errors, Errs(r, "render", "clean", e)
              PROVE  phase' \in [Jobs -> Phases] /\ error' \in [Jobs -> Errors \union {None}]
            BY <3>2, ErrorIsTyped
        <3> HIDE DEF Goto, Errs
        <3> QED BY <1>6, <3>1, <3>2 DEF RendererEnds
    <2> QED BY <1>6, <2>1, <2>2 DEF RendererEnds
<1>7. CASE CleanCopy(r)
    <2>1. copied' \in [Renders -> BOOLEAN]
        BY <1>7 DEF CleanCopy, MayStay
    <2>2. phase' \in [Jobs -> Phases]
        BY <1>7 DEF CleanCopy
    <2> QED BY <1>7, <2>1, <2>2 DEF CleanCopy
<1>8. CASE Discard(r) BY <1>8 DEF Discard, MayStay
<1>9. CASE Publish(r)
    <2>1. staging' \in [Renders -> FileStates] /\ overlay' \in [Renders -> FileStates]
        BY <1>9 DEF Publish
    <2>2. phase' \in [Jobs -> Phases] /\ error' \in [Jobs -> Errors \union {None}]
        <3>1. CASE Goto(r, "publish", "complete") /\ UNCHANGED error
            BY <3>1
        <3>2. CASE Errs(r, "publish", "fail", "Execution")
            BY <3>2, ErrorIsTyped
        <3> HIDE DEF Goto, Errs
        <3> QED BY <1>9, <3>1, <3>2 DEF Publish
    <2> QED BY <1>9, <2>1, <2>2 DEF Publish
<1>10. CASE CompleteRender(r)
    <2>1. recorded' \in [Renders -> BOOLEAN]
        BY <1>10 DEF CompleteRender
    <2> QED BY <1>10, <2>1 DEF CompleteRender
<1>11. CASE CompleteRenderFails(r) BY <1>11 DEF CompleteRenderFails
<1>12. CASE FailRender(r) BY <1>12 DEF FailRender, Verdict
<1> QED
    BY <1>1, <1>2, <1>3, <1>4, <1>5, <1>6, <1>7, <1>8, <1>9, <1>10, <1>11, <1>12 DEF RunRender

\* what the threads of scans and renders have in common
Ends(j) == ClaimFails(j) \/ Panics(j) \/ FailIsRefused(j) \/ Free(j)

LEMMA EndKeepsType ==
    ASSUME TypeOK, NEW j \in Jobs, Ends(j)
    PROVE  TypeOK'
<1> USE DEF TypeOK, fileVars, threadVars, historyVars, rowVars, Goto, Errs, Phases, AtWork, Errors
<1>1. CASE ClaimFails(j) BY <1>1 DEF ClaimFails
<1>2. CASE Panics(j) BY <1>2 DEF Panics
<1>3. CASE FailIsRefused(j) BY <1>3 DEF FailIsRefused
<1>4. CASE Free(j) BY <1>4 DEF Free
<1> QED BY <1>1, <1>2, <1>3, <1>4 DEF Ends

LEMMA RestartKeepsType == TypeOK /\ Restart => TypeOK'
BY DEF TypeOK, Restart, fileVars, rowVars, Phases

LEMMA TypeStep == IInv /\ [Next]_vars => TypeOK'
<1> SUFFICES ASSUME IInv, [Next]_vars PROVE TypeOK'
    OBVIOUS
<1>1. TypeOK
    BY DEF IInv
<1>2. ASSUME NEW j \in Jobs, Run(j) PROVE TypeOK'
    <2>1. CASE RunScan(j)
        <3>1. j \in Scans
            BY <2>1 DEF RunScan, ClaimScan, ResolveScan, ExecuteScan, CheckScan, CompleteScan,
                        CompleteScanFails, FailScan
        <3> QED BY <1>1, <2>1, <3>1, ScanKeepsType DEF IInv, JobSound
    <2>2. CASE RunRender(j)
        <3>1. j \in Renders
            BY <2>2 DEF RunRender, ClaimRender, ResolveRender, AlignmentFails, RendererIsUnusable,
                        LaunchRenderer, RendererEnds, CleanCopy, Discard, Publish, CompleteRender,
                        CompleteRenderFails, FailRender
        <3> QED BY <1>1, <2>2, <3>1, RenderKeepsType
    <2> QED BY <1>1, <1>2, <2>1, <2>2, EndKeepsType DEF Run, Ends
<1>3. CASE UNCHANGED vars
    BY <1>1, <1>3 DEF vars, TypeOK, fileVars, threadVars, historyVars, rowVars
<1> QED BY <1>1, <1>2, <1>3, CommandKeepsType, RestartKeepsType DEF Next, Command

-----------------------------------------------------------------------------
(* Jobs do not disturb each other.                                         *)

Unmoved(j) ==
    /\ status'[j] = status[j] /\ rowStatus'[j] = rowStatus[j] /\ request'[j] = request[j]
    /\ phase'[j] = phase[j] /\ error'[j] = error[j]
    /\ j \in Scans =>
          /\ findings'[j] = findings[j] /\ findingCount'[j] = findingCount[j]
          /\ reviewRequired'[j] = reviewRequired[j] /\ answer'[j] = answer[j]
    /\ j \in Renders =>
          /\ recorded'[j] = recorded[j] /\ staging'[j] = staging[j] /\ overlay'[j] = overlay[j]
          /\ j \in refused \union abandoned => j \in refused' \union abandoned'

LEMMA UnmovedIsSound ==
    ASSUME NEW j \in Jobs, JobSound(j), Unmoved(j)
    PROVE  JobSound(j)'
<1>1. j \in Scans => ScanSound(j)'
    BY DEF JobSound, ScanSound, Unmoved, ReviewRequired
<1>2. j \in Renders => RenderSound(j)'
    BY DEF JobSound, RenderSound, Unmoved
<1> QED BY <1>1, <1>2 DEF JobSound, Unmoved

LEMMA OthersAreUnmoved ==
    ASSUME TypeOK, NEW j \in Jobs, NEW k \in Jobs, j # k, Run(j)
    PROVE  Unmoved(k)
<1> USE DEF TypeOK, Unmoved, fileVars, threadVars, historyVars, rowVars, Goto, Errs, SetStatus
<1>1. CASE ClaimScan(j) \/ ResolveScan(j) \/ ExecuteScan(j) \/ CheckScan(j)
    BY <1>1 DEF ClaimScan, ResolveScan, ExecuteScan, CheckScan
<1>2. CASE CompleteScan(j) \/ CompleteScanFails(j) \/ FailScan(j)
    BY <1>2 DEF CompleteScan, CompleteScanFails, FailScan
<1>3. CASE ClaimRender(j) \/ ResolveRender(j) \/ AlignmentFails(j) \/ RendererIsUnusable(j)
    BY <1>3 DEF ClaimRender, ResolveRender, AlignmentFails, RendererIsUnusable
<1>4. CASE LaunchRenderer(j) \/ RendererEnds(j) \/ CleanCopy(j) \/ Discard(j) \/ Publish(j)
    BY <1>4 DEF LaunchRenderer, RendererEnds, CleanCopy, Discard, Publish
<1>5. CASE CompleteRender(j) \/ CompleteRenderFails(j) \/ FailRender(j)
    BY <1>5 DEF CompleteRender, CompleteRenderFails, FailRender
<1>6. CASE ClaimFails(j) \/ Panics(j) \/ FailIsRefused(j) \/ Free(j)
    BY <1>6 DEF ClaimFails, Panics, FailIsRefused, Free
<1> QED BY <1>1, <1>2, <1>3, <1>4, <1>5, <1>6 DEF Run, RunScan, RunRender

-----------------------------------------------------------------------------
(* The steps of a job itself.                                              *)

LEMMA ScanStepIsSound ==
    ASSUME TypeOK, NEW s \in Scans, JobSound(s), RunScan(s)
    PROVE  JobSound(s)'
<1> s \in Jobs /\ s \notin Renders
    BY MediaAnalysisAssumption DEF Jobs
<1> ScanSound(s)
    BY DEF JobSound
<1> USE DEF TypeOK, JobSound, ScanSound, Goto, Errs, SetStatus, rowVars
<1>1. CASE ClaimScan(s) BY <1>1 DEF ClaimScan, MayBeClaimed, ReviewRequired
<1>2. CASE ResolveScan(s) BY <1>2 DEF ResolveScan, ReviewRequired
<1>3. CASE ExecuteScan(s) BY <1>3 DEF ExecuteScan, ReviewRequired
<1>4. CASE CheckScan(s) BY <1>4 DEF CheckScan, ReviewRequired
<1>5. CASE CompleteScan(s)
    <2>1. answer[s] \in SidecarAnswers
        BY <1>5 DEF CompleteScan
    <2>2. /\ findings'[s] = ToReview(answer[s])
          /\ findingCount'[s] = Len(answer[s].boxes)
          /\ reviewRequired'[s] <=> answer[s].boxes # <<>>
          /\ request'[s] = request[s] /\ phase'[s] = "free"
          /\ status'[s] = "complete" /\ rowStatus'[s] = "complete"
          /\ Len(answer[s].boxes) =< request[s].maxFindings
        BY <1>5 DEF CompleteScan, FindingsAreValid
    <2>3. reviewRequired'[s] <=> ReviewRequired(findings'[s])
        BY <2>1, <2>2, FindingsToReview
    <2>4. findingCount'[s] = Len(findings'[s])
        BY <2>1, <2>2, FindingsToReview
    <2>5. ScanSound(s)'
        BY <2>2, <2>3, <2>4 DEF ReviewRequired
    <2> QED BY <2>2, <2>5
<1>6. CASE CompleteScanFails(s) BY <1>6 DEF CompleteScanFails, ReviewRequired
<1>7. CASE FailScan(s)
    <2>1. findings[s] = <<>>
        BY <1>7 DEF FailScan, MayBeFailed, Unended
    <2> QED BY <1>7, <2>1 DEF FailScan, Verdict, ReviewRequired
<1> QED BY <1>1, <1>2, <1>3, <1>4, <1>5, <1>6, <1>7 DEF RunScan

LEMMA RenderStepIsSound ==
    ASSUME TypeOK, NEW r \in Renders, JobSound(r), RunRender(r)
    PROVE  JobSound(r)'
<1> r \in Jobs /\ r \notin Scans
    BY MediaAnalysisAssumption DEF Jobs
<1> RenderSound(r)
    BY DEF JobSound
<1> USE MediaAnalysisAssumption
    DEF TypeOK, JobSound, RenderSound, Goto, Errs, SetStatus, rowVars, fileVars, historyVars,
        Errors, FileStates
<1>1. CASE ClaimRender(r) BY <1>1 DEF ClaimRender, MayBeClaimed
<1>2. CASE ResolveRender(r) BY <1>2 DEF ResolveRender
<1>3. CASE AlignmentFails(r) BY <1>3 DEF AlignmentFails
<1>4. CASE RendererIsUnusable(r)
    BY <1>4 DEF RendererIsUnusable, SidecarErrors, FontErrors, MediaToolErrors
<1>5. CASE LaunchRenderer(r) BY <1>5 DEF LaunchRenderer
<1>6. CASE RendererEnds(r) BY <1>6 DEF RendererEnds
<1>7. CASE CleanCopy(r) BY <1>7 DEF CleanCopy
<1>8. CASE Discard(r) BY <1>8 DEF Discard
<1>9. CASE Publish(r) BY <1>9 DEF Publish
<1>10. CASE CompleteRender(r) BY <1>10 DEF CompleteRender
<1>11. CASE CompleteRenderFails(r) BY <1>11 DEF CompleteRenderFails
<1>12. CASE FailRender(r) BY <1>12 DEF FailRender, MayBeFailed, Unended, Verdict
<1> QED
    BY <1>1, <1>2, <1>3, <1>4, <1>5, <1>6, <1>7, <1>8, <1>9, <1>10, <1>11, <1>12 DEF RunRender

LEMMA EndIsSound ==
    ASSUME TypeOK, NEW j \in Jobs, JobSound(j), Ends(j)
    PROVE  JobSound(j)'
<1> USE DEF TypeOK, Goto, Errs, rowVars, fileVars, historyVars
<1>1. /\ status' = status /\ rowStatus' = rowStatus /\ request' = request
      /\ findings' = findings /\ findingCount' = findingCount
      /\ reviewRequired' = reviewRequired /\ recorded' = recorded
      /\ staging' = staging /\ overlay' = overlay
      /\ refused' = refused /\ abandoned \subseteq abandoned'
    BY DEF Ends, ClaimFails, Panics, FailIsRefused, Free
<1>2. /\ phase[j] \notin {"idle", "complete"}
      /\ phase'[j] \in {"fail", "dead", "free", "idle"}
    BY DEF Ends, ClaimFails, Panics, FailIsRefused, Free
<1>3. j \in Scans => ScanSound(j)'
    BY <1>1, <1>2 DEF JobSound, ScanSound, ReviewRequired
<1>4. j \in Renders => RenderSound(j)'
    BY <1>1, <1>2 DEF JobSound, RenderSound
<1> QED BY <1>1, <1>2, <1>3, <1>4 DEF JobSound

LEMMA ThreadStep ==
    ASSUME IInv, NEW j \in Jobs, Run(j)
    PROVE  \A k \in Jobs : JobSound(k)'
<1> SUFFICES ASSUME NEW k \in Jobs PROVE JobSound(k)'
    OBVIOUS
<1>1. TypeOK /\ JobSound(j) /\ JobSound(k)
    BY DEF IInv
<1>2. CASE k # j
    BY <1>1, <1>2, OthersAreUnmoved, UnmovedIsSound
<1>3. CASE k = j
    <2>1. CASE RunScan(j)
        <3>1. j \in Scans
            BY <2>1 DEF RunScan, ClaimScan, ResolveScan, ExecuteScan, CheckScan, CompleteScan,
                        CompleteScanFails, FailScan
        <3> QED BY <1>1, <1>3, <2>1, <3>1, ScanStepIsSound
    <2>2. CASE RunRender(j)
        <3>1. j \in Renders
            BY <2>2 DEF RunRender, ClaimRender, ResolveRender, AlignmentFails, RendererIsUnusable,
                        LaunchRenderer, RendererEnds, CleanCopy, Discard, Publish, CompleteRender,
                        CompleteRenderFails, FailRender
        <3> QED BY <1>1, <1>3, <2>2, <3>1, RenderStepIsSound
    <2>3. CASE Ends(j)
        BY <1>1, <1>3, <2>3, EndIsSound
    <2> QED BY <2>1, <2>2, <2>3 DEF Run, Ends
<1> QED BY <1>2, <1>3

-----------------------------------------------------------------------------
(* The steps of the main thread, and the end of the application.           *)

LEMMA CommandStep == IInv /\ Command => \A k \in Jobs : JobSound(k)'
<1> SUFFICES ASSUME IInv, Command, NEW k \in Jobs PROVE JobSound(k)'
    OBVIOUS
<1>1. TypeOK /\ JobSound(k)
    BY DEF IInv
<1> USE <1>1 DEF TypeOK, fileVars, threadVars, historyVars, rowVars
<1>2. ASSUME NEW s \in Scans, NEW q \in ScanRequests, StartScan(s, q) PROVE JobSound(k)'
    <2>1. CASE k # s
        <3>1. Unmoved(k)
            BY <1>2, <2>1 DEF StartScan, QueueScan, Queue, Launch, Unmoved, Jobs
        <3> QED BY <3>1, UnmovedIsSound
    <2>2. CASE k = s
        <3>1. k \notin Renders
            BY <2>2, MediaAnalysisAssumption
        <3> QED BY <1>2, <2>2, <3>1
                DEF StartScan, QueueScan, Queue, Launch, JobSound, ScanSound, ReviewRequired, Jobs
    <2> QED BY <2>1, <2>2
<1>3. ASSUME NEW r \in Renders, NEW q \in RenderRequests, StartRender(r, q) PROVE JobSound(k)'
    <2>1. CASE k # r
        <3>1. Unmoved(k)
            BY <1>3, <2>1 DEF StartRender, QueueRender, Queue, Launch, Unmoved, Jobs
        <3> QED BY <3>1, UnmovedIsSound
    <2>2. CASE k = r
        <3>1. k \notin Scans
            BY <2>2, MediaAnalysisAssumption
        <3> QED BY <1>3, <2>2, <3>1
                DEF StartRender, QueueRender, Queue, Launch, JobSound, RenderSound, Jobs
    <2> QED BY <2>1, <2>2
<1>4. ASSUME NEW s \in Scans, NEW i \in DOMAIN findings[s], NEW verdict \in Reviews,
             Review(s, i, verdict)
      PROVE  JobSound(k)'
    <2>1. CASE k # s
        <3>1. Unmoved(k)
            BY <1>4, <2>1 DEF Review, Unmoved, Jobs
        <3> QED BY <3>1, UnmovedIsSound
    <2>2. CASE k = s
        <3>1. k \notin Renders /\ k \in Scans
            BY <2>2, MediaAnalysisAssumption
        <3> DEFINE reviewed == [findings[s] EXCEPT ![i] = verdict]
        <3>2. findings'[s] = reviewed /\ (reviewRequired'[s] <=> ReviewRequired(reviewed))
            BY <1>4 DEF Review, ReviewRequired
        <3>3. Len(reviewed) = Len(findings[s]) /\ findings[s] # <<>>
            BY ReviewKeepsFindings
        <3>4. /\ status' = status /\ rowStatus' = rowStatus /\ request' = request
              /\ findingCount' = findingCount /\ phase' = phase /\ answer' = answer
            BY <1>4 DEF Review
        <3> HIDE DEF reviewed
        <3>5. ScanSound(s)'
            BY <2>2, <3>1, <3>2, <3>3, <3>4 DEF JobSound, ScanSound, ReviewRequired
        <3> QED BY <2>2, <3>1, <3>4, <3>5 DEF JobSound
    <2> QED BY <2>1, <2>2
<1>5. ASSUME NEW s \in Scans, PollRow(s) PROVE JobSound(k)'
    <2>1. Unmoved(k)
        BY <1>5 DEF PollRow, Unmoved
    <2> QED BY <2>1, UnmovedIsSound
<1>6. CASE PollFindings
    <2>1. Unmoved(k)
        BY <1>6 DEF PollFindings, Unmoved
    <2> QED BY <2>1, UnmovedIsSound
<1> QED BY <1>2, <1>3, <1>4, <1>5, <1>6 DEF Command

LEMMA RestartStep == IInv /\ Restart => \A k \in Jobs : JobSound(k)'
<1> SUFFICES ASSUME IInv, Restart, NEW k \in Jobs PROVE JobSound(k)'
    OBVIOUS
<1>1. TypeOK /\ JobSound(k)
    BY DEF IInv
<1>2. phase'[k] = "idle" /\ (phase[k] = "complete" => k \in abandoned')
    BY DEF Restart
<1>3. k \in Scans => ScanSound(k)'
    BY <1>1, <1>2 DEF Restart, rowVars, JobSound, ScanSound, ReviewRequired
<1>4. k \in Renders => RenderSound(k)'
    BY <1>1, <1>2 DEF Restart, rowVars, fileVars, JobSound, RenderSound
<1> QED BY <1>1, <1>2, <1>3, <1>4 DEF Restart, rowVars, JobSound

LEMMA StutterStep == IInv /\ UNCHANGED vars => \A k \in Jobs : JobSound(k)'
<1> SUFFICES ASSUME IInv, UNCHANGED vars, NEW k \in Jobs PROVE JobSound(k)'
    OBVIOUS
<1>1. Unmoved(k)
    BY DEF vars, rowVars, fileVars, threadVars, historyVars, Unmoved
<1> QED BY <1>1, UnmovedIsSound DEF IInv

LEMMA StepIsSound == IInv /\ [Next]_vars => IInv'
<1> SUFFICES ASSUME IInv, [Next]_vars PROVE IInv'
    OBVIOUS
<1>1. TypeOK'
    BY TypeStep
<1>2. \A k \in Jobs : JobSound(k)'
    BY CommandStep, RestartStep, StutterStep, ThreadStep DEF Next, Command
<1> QED BY <1>1, <1>2 DEF IInv, Jobs

LEMMA AlwaysSound == Spec => []IInv
BY InitIsSound, StepIsSound, PTL DEF Spec

-----------------------------------------------------------------------------
(* The rows, the files and the threads keep their types                    *)
(* (project_store.rs, cv_worker.rs, gpstitch_worker.rs).                   *)
THEOREM TypeCorrect == Spec => []TypeOK
<1>1. IInv => TypeOK
    BY DEF IInv
<1> QED BY <1>1, AlwaysSound, PTL

(* A complete scan has the findings its row counts, no more than were      *)
(* asked for, and its request for a review is up to date after every       *)
(* sequence of reviews; any other scan has none.                           *)
THEOREM FindingsMatch == Spec => []FindingsMatchScan
<1>1. IInv => FindingsMatchScan
    <2> SUFFICES ASSUME IInv, NEW s \in Scans
                 PROVE  /\ findings[s] # <<>> => status[s] = "complete"
                        /\ findingCount[s] = Len(findings[s])
                        /\ findings[s] # <<>> => findingCount[s] =< request[s].maxFindings
                        /\ reviewRequired[s] =
                              (\E i \in DOMAIN findings[s] : findings[s][i] = "needs_review")
        BY DEF FindingsMatchScan
    <2>1. ScanSound(s) /\ reviewRequired[s] \in BOOLEAN
        BY DEF IInv, JobSound, Jobs, TypeOK
    <2> QED BY <2>1 DEF ScanSound, ReviewRequired
<1> QED BY <1>1, AlwaysSound, PTL

(* The two rows of a job agree, a render names an overlay exactly when it  *)
(* is complete, and what stands under the final name is whole.             *)
THEOREM OverlaysMatch == Spec => []OverlayMatchesRender
<1>1. IInv => OverlayMatchesRender
    <2> SUFFICES ASSUME IInv PROVE OverlayMatchesRender
        OBVIOUS
    <2>1. rowStatus = status
        BY DEF IInv, TypeOK, JobSound
    <2>2. ASSUME NEW r \in Renders PROVE RenderSound(r)
        BY DEF IInv, JobSound, Jobs
    <2> QED BY <2>1, <2>2 DEF OverlayMatchesRender, RenderSound, RenderAnswer
<1> QED BY <1>1, AlwaysSound, PTL

(* An overlay without a row is only left by a refused completion or by a   *)
(* thread that was ended after the rename.                                 *)
THEOREM OverlaysAreNamed == Spec => []OverlayIsNamed
<1>1. IInv => OverlayIsNamed
    BY DEF IInv, JobSound, Jobs, RenderSound, OverlayIsNamed
<1> QED BY <1>1, AlwaysSound, PTL

-----------------------------------------------------------------------------
(* A scan or a render is created, claimed, completed and aborted as every  *)
(* job is, and advertises its findings or its overlay exactly when it is   *)
(* complete (the statements of project_store.rs on both pairs of rows).    *)
THEOREM MediaRefinesDurableJob == Spec => ImplementsDurableJob
<1> DEFINE Adv == [j \in Jobs |-> IF j \in Scans THEN rowStatus[j] = "complete" ELSE recorded[j]]
<1>1. Init => Promise!Init
    <2> SUFFICES ASSUME Init PROVE Promise!Init
        OBVIOUS
    <2>1. status \in [Jobs -> {"absent", "queued"}]
        BY DEF Init
    <2>2. Adv = [j \in Jobs |-> FALSE]
        BY DEF Init, Jobs
    <2> QED BY <2>1, <2>2 DEF Promise!Init
<1>2. IInv /\ IInv' /\ [Next]_vars => [Promise!Next]_(Promise!abstractVars)
    <2> SUFFICES ASSUME IInv, IInv', [Next]_vars
                 PROVE  Promise!Next \/ UNCHANGED Promise!abstractVars
        OBVIOUS
    <2> USE DEF rowVars, fileVars, threadVars, historyVars
    <2>1. /\ Adv = [j \in Jobs |-> status[j] = "complete"]
          /\ Adv' = [j \in Jobs |-> status'[j] = "complete"]
          /\ status \in [Jobs -> Statuses]
        <3>1. /\ \A j \in Jobs : rowStatus[j] = status[j] /\ rowStatus'[j] = status'[j]
              /\ \A r \in Renders : /\ recorded[r] = (status[r] = "complete")
                                    /\ recorded'[r] = (status'[r] = "complete")
            BY DEF IInv, TypeOK, JobSound, RenderSound, Jobs
        <3> QED BY <3>1 DEF IInv, TypeOK, Jobs
    <2>2. CASE UNCHANGED status
        BY <2>1, <2>2 DEF Promise!abstractVars
    <2>3. ASSUME NEW j \in Jobs, NEW q, Queue(j, q) PROVE Promise!Create(j)
        <3>1. status[j] = "absent" /\ status' = [status EXCEPT ![j] = "queued"]
            BY <2>3 DEF Queue
        <3>2. Adv' = Adv
            BY <2>1, <3>1
        <3> QED BY <3>1, <3>2 DEF Promise!Create
    <2>4. ASSUME NEW j \in Jobs, ClaimScan(j) \/ ClaimRender(j) PROVE Promise!Claim(j)
        <3>1. status[j] = "queued" /\ status' = [status EXCEPT ![j] = "running"]
            BY <2>4 DEF ClaimScan, ClaimRender, MayBeClaimed, SetStatus
        <3>2. Adv' = Adv
            BY <2>1, <3>1
        <3> QED BY <3>1, <3>2 DEF Promise!Claim
    <2>5. ASSUME NEW j \in Jobs, CompleteScan(j) \/ CompleteRender(j) PROVE Promise!Complete(j)
        <3>1. status[j] = "running" /\ status' = [status EXCEPT ![j] = "complete"]
            BY <2>5 DEF CompleteScan, CompleteRender, SetStatus, IInv, JobSound
        <3>2. Adv' = [Adv EXCEPT ![j] = TRUE]
            BY <2>1, <3>1
        <3> QED BY <3>1, <3>2 DEF Promise!Complete
    <2>6. ASSUME NEW j \in Jobs, FailScan(j) \/ FailRender(j) PROVE Promise!Abort(j)
        <3>1. /\ status[j] \in {"queued", "running"}
              /\ status' = [status EXCEPT ![j] = Verdict(j, error[j])]
            BY <2>6 DEF FailScan, FailRender, MayBeFailed, Unended, SetStatus
        <3>2. Verdict(j, error[j]) \in {"failed", "blocked"}
            BY DEF Verdict
        <3>3. Adv' = Adv
            BY <2>1, <3>1, <3>2
        <3> QED BY <3>1, <3>2, <3>3 DEF Promise!Abort, Promise!Terminal
    <2>7. ASSUME NEW j \in Jobs, Run(j), status' # status
          PROVE  ClaimScan(j) \/ ClaimRender(j) \/ CompleteScan(j) \/ CompleteRender(j)
                    \/ FailScan(j) \/ FailRender(j)
        BY <2>7 DEF Run, RunScan, RunRender, ResolveScan, ExecuteScan, CheckScan,
                    CompleteScanFails, ResolveRender, AlignmentFails, RendererIsUnusable,
                    LaunchRenderer, RendererEnds, CleanCopy, Discard, Publish,
                    CompleteRenderFails, ClaimFails, Panics, FailIsRefused, Free
    <2>8. ASSUME NEW j \in Jobs, Run(j) PROVE Promise!Next \/ UNCHANGED Promise!abstractVars
        BY <2>2, <2>4, <2>5, <2>6, <2>7, <2>8 DEF Promise!Next
    <2>9. ASSUME Command PROVE Promise!Next \/ UNCHANGED status
        <3>1. ASSUME NEW s \in Scans, NEW q \in ScanRequests, StartScan(s, q) PROVE Promise!Next
            BY <2>3, <3>1 DEF StartScan, QueueScan, Jobs, Promise!Next
        <3>2. ASSUME NEW r \in Renders, NEW q \in RenderRequests, StartRender(r, q)
              PROVE  Promise!Next
            BY <2>3, <3>2 DEF StartRender, QueueRender, Jobs, Promise!Next
        <3> QED BY <2>9, <3>1, <3>2 DEF Command, Review, PollRow, PollFindings
    <2>10. CASE Restart
        BY <2>2, <2>10 DEF Restart
    <2>11. CASE UNCHANGED vars
        BY <2>2, <2>11 DEF vars
    <2> QED BY <2>2, <2>8, <2>9, <2>10, <2>11 DEF Next, Command
<1> QED BY <1>1, <1>2, AlwaysSound, PTL DEF Spec, ImplementsDurableJob, Promise!Spec
=============================================================================
