---------------------------- MODULE ProjectProof ----------------------------
(***************************************************************************)
(* Proofs about ProxyJobs for every set of jobs, every bound on starts and *)
(* every combination of faults, and about ProjectStore for every number of *)
(* instances, every project an earlier release may leave, all sources of   *)
(* finite length and every combination of faults.                          *)
(***************************************************************************)
EXTENDS ProxyJobs, ProjectStore, TLAPS

(***************************************************************************)
(* The database and the process a launch starts from have the types of     *)
(* TypeOK (SCHEMA_SQL and ProxyWorkerManager::new).                        *)
(***************************************************************************)
LEMMA TypeCorrectInit == Init => TypeOK
<1> USE ProxyAssumption
<1> USE DEF Statuses, Aborted, MediaStatuses, Errors, Phases
<1> SUFFICES ASSUME Init PROVE TypeOK
  OBVIOUS
<1>1. status \in [Jobs -> {"absent", "queued"}] /\ media = status
  BY DEF Init
<1>2. 0 \in 0..MaxStarts /\ 0 \in 0..100
  OBVIOUS
<1> QED
  BY <1>1, <1>2 DEF Init, TypeOK

(***************************************************************************)
(* Every variable of the proxy worker keeps its type under every command,  *)
(* worker step, fault and restart (ProxyWorkerManager, run_proxy_job and   *)
(* the proxy functions of the project store).                              *)
(***************************************************************************)
THEOREM TypeCorrect == Spec => []TypeOK
<1> USE ProxyAssumption
<1> USE DEF dbVars, fileVars, lockVars, mainVars, vars, Statuses, Aborted, MediaStatuses,
            Errors, Phases, Holding, Working, BeforeThumbnails, Publishing, Rendering
<1>1. Init => TypeOK
  BY TypeCorrectInit
<1>2. TypeOK /\ [Next]_vars => TypeOK'
  <2> SUFFICES ASSUME TypeOK, [Next]_vars PROVE TypeOK'
    OBVIOUS
  <2> USE DEF TypeOK
  <2>1. CASE OpenProject
    BY <2>1 DEF OpenProject
  <2>2. CASE Restart
    BY <2>2 DEF Restart
  <2>3. ASSUME NEW j \in Jobs, ImportMedia(j) PROVE TypeOK'
    BY <2>3 DEF ImportMedia, Idle
  <2>4. ASSUME NEW j \in Jobs, StartProxy(j) PROVE TypeOK'
    BY <2>4 DEF StartProxy, Step, Idle
  <2>5. ASSUME NEW j \in Jobs, CancelToken(j) PROVE TypeOK'
    BY <2>5 DEF CancelToken, Idle
  <2>6. ASSUME NEW j \in Jobs, CancelRecord(j) PROVE TypeOK'
    BY <2>6 DEF CancelRecord
  <2>7. ASSUME NEW j \in Jobs, RenderProgress(j) PROVE TypeOK'
    BY <2>7 DEF RenderProgress, Rendering, ReportProgress, RenderBand
  <2>8. ASSUME NEW j \in Jobs, AcquireLock(j) PROVE TypeOK'
    BY <2>8 DEF AcquireLock, Step
  <2>9. ASSUME NEW j \in Jobs, LockPoisoned(j) PROVE TypeOK'
    BY <2>9 DEF LockPoisoned, Step
  <2>10. ASSUME NEW j \in Jobs, Claim(j) PROVE TypeOK'
    BY <2>10 DEF Claim, Step, NotClaimable, ResetCancelRequest
  <2>11. ASSUME NEW j \in Jobs, ClaimRefused(j) PROVE TypeOK'
    BY <2>11 DEF ClaimRefused, Step, NotClaimable
  <2>12. ASSUME NEW j \in Jobs, Prepare(j) PROVE TypeOK'
    BY <2>12 DEF Prepare, Step, GiveUp, Cleanup, Removals, CancelSeen
  <2>13. ASSUME NEW j \in Jobs, PrepareFails(j) PROVE TypeOK'
    BY <2>13 DEF PrepareFails, Step, GiveUp
  <2>14. ASSUME NEW j \in Jobs, Probe(j) PROVE TypeOK'
    BY <2>14 DEF Probe, Step, ReportProgress
  <2>15. ASSUME NEW j \in Jobs, ProbeFails(j) PROVE TypeOK'
    BY <2>15 DEF ProbeFails, Step, GiveUp
  <2>16. ASSUME NEW j \in Jobs, ListEncoders(j) PROVE TypeOK'
    BY <2>16 DEF ListEncoders, Step
  <2>17. ASSUME NEW j \in Jobs, ListEncodersFails(j) PROVE TypeOK'
    BY <2>17 DEF ListEncodersFails, Step, GiveUp
  <2>18. ASSUME NEW j \in Jobs, RenderExits(j) PROVE TypeOK'
    BY <2>18 DEF RenderExits, Step
  <2>19. ASSUME NEW j \in Jobs, RenderFails(j) PROVE TypeOK'
    BY <2>19 DEF RenderFails, Step, GiveUp
  <2>20. ASSUME NEW j \in Jobs, RenderCancelled(j) PROVE TypeOK'
    BY <2>20 DEF RenderCancelled, Step, GiveUp, CancelSeen
  <2>21. ASSUME NEW j \in Jobs, RenderErrors(j) PROVE TypeOK'
    BY <2>21 DEF RenderErrors, Step, GiveUp, ProgressRefused
  <2>22. ASSUME NEW j \in Jobs, RenderPanics(j) PROVE TypeOK'
    BY <2>22 DEF RenderPanics, Step
  <2>23. ASSUME NEW j \in Jobs, Fallback(j) PROVE TypeOK'
    <3>1. /\ phase' \in [Jobs -> Phases]
          /\ failure' \in [Jobs -> Errors]
      BY <2>23 DEF Fallback, Step, GiveUp
    <3>2. partial' \in [Jobs -> 0..MaxStarts]
      BY <2>23 DEF Fallback, Removals
    <3>3. progress' \in [Jobs -> 0..100]
      BY <2>23 DEF Fallback, ReportProgress
    <3> QED
      BY <2>23, <3>1, <3>2, <3>3 DEF Fallback
  <2>24. ASSUME NEW j \in Jobs, Checkpoint(j) PROVE TypeOK'
    BY <2>24 DEF Checkpoint, Step, GiveUp, CancelSeen, ReportProgress, ProgressRefused
  <2>25. ASSUME NEW j \in Jobs, MakeThumbnails(j) PROVE TypeOK'
    BY <2>25 DEF MakeThumbnails, Step
  <2>26. ASSUME NEW j \in Jobs, ThumbnailsFail(j) PROVE TypeOK'
    BY <2>26 DEF ThumbnailsFail, Step, GiveUp
  <2>27. ASSUME NEW j \in Jobs, ClearFinals(j) PROVE TypeOK'
    BY <2>27 DEF ClearFinals, Removals, Step
  <2>28. ASSUME NEW j \in Jobs, PublishProxy(j) PROVE TypeOK'
    BY <2>28 DEF PublishProxy, Step
  <2>29. ASSUME NEW j \in Jobs, PublishThumbs(j) PROVE TypeOK'
    BY <2>29 DEF PublishThumbs, Step
  <2>30. ASSUME NEW j \in Jobs, PublishFails(j) PROVE TypeOK'
    BY <2>30 DEF PublishFails, Step, GiveUp
  <2>31. ASSUME NEW j \in Jobs, CompleteProxyJob(j) PROVE TypeOK'
    BY <2>31 DEF CompleteProxyJob, Step
  <2>32. ASSUME NEW j \in Jobs, CompleteFails(j) PROVE TypeOK'
    BY <2>32 DEF CompleteFails, Step, GiveUp
  <2>33. ASSUME NEW j \in Jobs, RecordFailure(j) PROVE TypeOK'
    BY <2>33 DEF RecordFailure, Step, Cleanup, Removals, FailProxyJob, FailureStatus
  <2>34. ASSUME NEW j \in Jobs, RecordPanic(j) PROVE TypeOK'
    BY <2>34 DEF RecordPanic, Step, FailProxyJob
  <2>35. ASSUME NEW j \in Jobs, Leave(j) PROVE TypeOK'
    BY <2>35 DEF Leave, Step
  <2>36. CASE UNCHANGED vars
    BY <2>36
  <2> QED
    BY <2>1, <2>2, <2>3, <2>4, <2>5, <2>6, <2>7, <2>8, <2>9, <2>10, <2>11, <2>12, <2>13, <2>14, <2>15, <2>16, <2>17, <2>18, <2>19, <2>20, <2>21, <2>22, <2>23, <2>24, <2>25, <2>26, <2>27, <2>28, <2>29, <2>30, <2>31, <2>32, <2>33, <2>34, <2>35, <2>36 DEF Next, Command, Worker
<1> QED
  BY <1>1, <1>2, PTL DEF Spec


-----------------------------------------------------------------------------
(* The strengthening.  A working thread owns a running row; what it has    *)
(* produced so far belongs to the present attempt; and a job_cancel in     *)
(* flight has told the thread if there still is one.                       *)

WorkerOwnsRow(i) ==
    /\ phase[i] = "idle" <=> i \notin active
    /\ phase[i] # "idle" => starts[i] # 0 /\ status[i] # "absent"
    /\ phase[i] \in Working \union {"panicked"} => status[i] = "running"

\* a file that is there, and written by the present attempt if removals work
Fresh(files, i) == files[i] # 0 /\ ("remove" \notin Faults => files[i] = starts[i])

OutputOfAttempt(i) ==
    /\ phase[i] \in (BeforeThumbnails \ {"preparing"}) \union {"thumbnails"}
       /\ "remove" \notin Faults =>
            partial[i] \in {0, starts[i]} /\ partialThumbs[i] = 0
    /\ phase[i] \in {"clearing", "publishProxy"} =>
            Fresh(partial, i) /\ Fresh(partialThumbs, i)
    /\ phase[i] = "publishThumbs" =>
            partial[i] = 0 /\ Fresh(proxy, i) /\ Fresh(partialThumbs, i)
    /\ phase[i] = "completing" =>
            /\ partial[i] = 0 /\ partialThumbs[i] = 0
            /\ Fresh(proxy, i) /\ Fresh(thumbs, i)

CancelInFlight(i) ==
    cancelling = i /\ phase[i] # "idle" => token[i]

\* the part of the inductive invariant that is about one job
JobInv(i) ==
    /\ media[i] = "ready" <=> status[i] = "complete"
    /\ status[i] = "complete" => WholeOutput(i) /\ progress[i] = 100
    /\ phase[i] \in Working /\ cancelRequested[i] => token[i]
    /\ status[i] \in Aborted <=> media[i] = "blocked"
    /\ status[i] \in {"absent", "queued", "running"} => media[i] = status[i]
    /\ \/ status[i] = "complete"
       \/ status[i] \in {"blocked", "cancelled"} /\ "remove" \notin Faults
       => partial[i] = 0 /\ partialThumbs[i] = 0
    /\ WorkerOwnsRow(i)
    /\ OutputOfAttempt(i)
    /\ CancelInFlight(i)

IInv == TypeOK /\ \A i \in Jobs : JobInv(i)

(***************************************************************************)
(* The invariant is inductive: one step per action, for one job at a time. *)
(***************************************************************************)
LEMMA InductiveStep == TypeOK' /\ IInv /\ [Next]_vars => IInv'
<1> SUFFICES ASSUME TypeOK', IInv, [Next]_vars, NEW i \in Jobs PROVE JobInv(i)'
  BY DEF IInv
<1> USE ProxyAssumption
<1> USE DEF dbVars, fileVars, lockVars, mainVars, vars, Statuses, Aborted, MediaStatuses,
            Phases, Holding, Working, BeforeThumbnails, Publishing, Rendering,
            TypeOK, IInv, JobInv, WorkerOwnsRow, OutputOfAttempt, Fresh, CancelInFlight, WholeOutput
<1>1. CASE OpenProject
  BY <1>1 DEF OpenProject
<1>2. CASE Restart
  BY <1>2 DEF Restart
<1>3. ASSUME NEW j \in Jobs, ImportMedia(j) PROVE JobInv(i)'
  BY <1>3 DEF ImportMedia, Idle
<1>4. ASSUME NEW j \in Jobs, StartProxy(j) PROVE JobInv(i)'
  BY <1>4 DEF StartProxy, Step, Idle
<1>5. ASSUME NEW j \in Jobs, CancelToken(j) PROVE JobInv(i)'
  BY <1>5 DEF CancelToken, Idle
<1>6. ASSUME NEW j \in Jobs, CancelRecord(j) PROVE JobInv(i)'
  BY <1>6 DEF CancelRecord
<1>7. ASSUME NEW j \in Jobs, RenderProgress(j) PROVE JobInv(i)'
  BY <1>7 DEF RenderProgress, Rendering, ReportProgress, RenderBand
<1>8. ASSUME NEW j \in Jobs, AcquireLock(j) PROVE JobInv(i)'
  BY <1>8 DEF AcquireLock, Step
<1>9. ASSUME NEW j \in Jobs, LockPoisoned(j) PROVE JobInv(i)'
  BY <1>9 DEF LockPoisoned, Step
<1>10. ASSUME NEW j \in Jobs, Claim(j) PROVE JobInv(i)'
  BY <1>10 DEF Claim, Step, NotClaimable, ResetCancelRequest
<1>11. ASSUME NEW j \in Jobs, ClaimRefused(j) PROVE JobInv(i)'
  BY <1>11 DEF ClaimRefused, Step, NotClaimable
<1>12. ASSUME NEW j \in Jobs, Prepare(j) PROVE JobInv(i)'
  BY <1>12 DEF Prepare, Step, GiveUp, Cleanup, Removals, CancelSeen
<1>13. ASSUME NEW j \in Jobs, PrepareFails(j) PROVE JobInv(i)'
  BY <1>13 DEF PrepareFails, Step, GiveUp
<1>14. ASSUME NEW j \in Jobs, Probe(j) PROVE JobInv(i)'
  BY <1>14 DEF Probe, Step, ReportProgress
<1>15. ASSUME NEW j \in Jobs, ProbeFails(j) PROVE JobInv(i)'
  BY <1>15 DEF ProbeFails, Step, GiveUp
<1>16. ASSUME NEW j \in Jobs, ListEncoders(j) PROVE JobInv(i)'
  BY <1>16 DEF ListEncoders, Step
<1>17. ASSUME NEW j \in Jobs, ListEncodersFails(j) PROVE JobInv(i)'
  BY <1>17 DEF ListEncodersFails, Step, GiveUp
<1>18. ASSUME NEW j \in Jobs, RenderExits(j) PROVE JobInv(i)'
  BY <1>18 DEF RenderExits, Step
<1>19. ASSUME NEW j \in Jobs, RenderFails(j) PROVE JobInv(i)'
  BY <1>19 DEF RenderFails, Step, GiveUp
<1>20. ASSUME NEW j \in Jobs, RenderCancelled(j) PROVE JobInv(i)'
  BY <1>20 DEF RenderCancelled, Step, GiveUp, CancelSeen
<1>21. ASSUME NEW j \in Jobs, RenderErrors(j) PROVE JobInv(i)'
  BY <1>21 DEF RenderErrors, Step, GiveUp, ProgressRefused
<1>22. ASSUME NEW j \in Jobs, RenderPanics(j) PROVE JobInv(i)'
  BY <1>22 DEF RenderPanics, Step
<1>23. ASSUME NEW j \in Jobs, Fallback(j) PROVE JobInv(i)'
  BY <1>23 DEF Fallback, Removals, Step, GiveUp, CancelSeen, ReportProgress, ProgressRefused
<1>24. ASSUME NEW j \in Jobs, Checkpoint(j) PROVE JobInv(i)'
  BY <1>24 DEF Checkpoint, Step, GiveUp, CancelSeen, ReportProgress, ProgressRefused
<1>25. ASSUME NEW j \in Jobs, MakeThumbnails(j) PROVE JobInv(i)'
  BY <1>25 DEF MakeThumbnails, Step
<1>26. ASSUME NEW j \in Jobs, ThumbnailsFail(j) PROVE JobInv(i)'
  BY <1>26 DEF ThumbnailsFail, Step, GiveUp
<1>27. ASSUME NEW j \in Jobs, ClearFinals(j) PROVE JobInv(i)'
  BY <1>27 DEF ClearFinals, Removals, Step
<1>28. ASSUME NEW j \in Jobs, PublishProxy(j) PROVE JobInv(i)'
  BY <1>28 DEF PublishProxy, Step
<1>29. ASSUME NEW j \in Jobs, PublishThumbs(j) PROVE JobInv(i)'
  BY <1>29 DEF PublishThumbs, Step
<1>30. ASSUME NEW j \in Jobs, PublishFails(j) PROVE JobInv(i)'
  BY <1>30 DEF PublishFails, Step, GiveUp
<1>31. ASSUME NEW j \in Jobs, CompleteProxyJob(j) PROVE JobInv(i)'
  BY <1>31 DEF CompleteProxyJob, Step
<1>32. ASSUME NEW j \in Jobs, CompleteFails(j) PROVE JobInv(i)'
  BY <1>32 DEF CompleteFails, Step, GiveUp
<1>33. ASSUME NEW j \in Jobs, RecordFailure(j) PROVE JobInv(i)'
  BY <1>33 DEF RecordFailure, Step, Cleanup, Removals, FailProxyJob, FailureStatus
<1>34. ASSUME NEW j \in Jobs, RecordPanic(j) PROVE JobInv(i)'
  BY <1>34 DEF RecordPanic, Step, FailProxyJob
<1>35. ASSUME NEW j \in Jobs, Leave(j) PROVE JobInv(i)'
  BY <1>35 DEF Leave, Step
<1>36. CASE UNCHANGED vars
  BY <1>36
<1> QED
  BY <1>1, <1>2, <1>3, <1>4, <1>5, <1>6, <1>7, <1>8, <1>9, <1>10, <1>11, <1>12, <1>13, <1>14, <1>15, <1>16, <1>17, <1>18, <1>19, <1>20, <1>21, <1>22, <1>23, <1>24, <1>25, <1>26, <1>27, <1>28, <1>29, <1>30, <1>31, <1>32, <1>33, <1>34, <1>35, <1>36 DEF Next, Command, Worker

(***************************************************************************)
(* The inductive invariant holds of every behaviour of the proxy worker.   *)
(***************************************************************************)
LEMMA InvariantHolds == Spec => []IInv
<1>1. Init => IInv
  <2> SUFFICES ASSUME Init, TypeOK, NEW i \in Jobs PROVE JobInv(i)
    BY TypeCorrectInit DEF IInv
  <2> QED
    BY DEF Init, JobInv, WorkerOwnsRow, OutputOfAttempt, Fresh, CancelInFlight, WholeOutput,
           Working, BeforeThumbnails, Publishing, Rendering, Aborted
<1>2. TypeOK /\ TypeOK' /\ IInv /\ [Next]_vars => IInv'
  BY InductiveStep
<1> QED
  BY <1>1, <1>2, TypeCorrect, PTL DEF Spec

(***************************************************************************)
(* The store never offers a proxy that is not on disk, whole and from one  *)
(* attempt (complete_proxy_job after the publication of run_proxy_job).    *)
(***************************************************************************)
THEOREM ReadyIsPublished == Spec => []ReadyMeansPublished
<1>1. IInv => ReadyMeansPublished
  BY DEF IInv, JobInv, ReadyMeansPublished
<1> QED
  BY <1>1, InvariantHolds, PTL

(***************************************************************************)
(* A running row that asks for cancellation has a worker that was told     *)
(* (ProxyWorkerManager::cancel and claim_proxy_job).                       *)
(***************************************************************************)
THEOREM CancelFlagIsSeen == Spec => []CancelFlagReachesWorker
<1>1. IInv => CancelFlagReachesWorker
  BY DEF IInv, JobInv, CancelFlagReachesWorker
<1> QED
  BY <1>1, InvariantHolds, PTL

(***************************************************************************)
(* Job row and media row agree after every transaction, and a job that     *)
(* ended without a panic left no partial file (fail_proxy_job, cleanup).   *)
(***************************************************************************)
THEOREM RowsAndFilesAgree == Spec => [](MediaFollowsJob /\ NoPartialAfterFailure)
<1>1. IInv => MediaFollowsJob /\ NoPartialAfterFailure
  BY DEF IInv, JobInv, MediaFollowsJob, NoPartialAfterFailure
<1> QED
  BY <1>1, InvariantHolds, PTL

(***************************************************************************)
(* No command, worker, fault or restart takes a finished proxy back: the   *)
(* claim refuses complete rows, and fail_proxy_job, which checks nothing,  *)
(* is only ever called for a running row.                                  *)
(***************************************************************************)
THEOREM CompleteStays == Spec => CompleteIsFinal
<1>1. IInv /\ [Next]_vars =>
        [\A j \in Jobs :
            status[j] = "complete" =>
                status'[j] = "complete" /\ proxy'[j] = proxy[j] /\ thumbs'[j] = thumbs[j]]_vars
  <2> SUFFICES ASSUME IInv, [Next]_vars, NEW i \in Jobs, status[i] = "complete"
               PROVE  status'[i] = "complete" /\ proxy'[i] = proxy[i] /\ thumbs'[i] = thumbs[i]
    OBVIOUS
  <2> USE DEF dbVars, fileVars, lockVars, mainVars, vars
  <2>0. /\ TypeOK
        /\ phase[i] \notin Working \union {"panicked"}
    BY DEF IInv, JobInv, WorkerOwnsRow
  <2>1. CASE OpenProject \/ Restart
    BY <2>1 DEF OpenProject, Restart
  <2>2. ASSUME NEW j \in Jobs, Command(j) \/ CancelRecord(j) \/ RenderProgress(j)
        PROVE  status'[i] = "complete" /\ proxy'[i] = proxy[i] /\ thumbs'[i] = thumbs[i]
    BY <2>0, <2>2 DEF TypeOK, Command, ImportMedia, StartProxy, CancelToken, CancelRecord, RenderProgress
  <2>3. ASSUME NEW j \in Jobs, Worker(j)
        PROVE  status'[i] = "complete" /\ proxy'[i] = proxy[i] /\ thumbs'[i] = thumbs[i]
    <3>1. CASE j = i
      BY <2>0, <2>3, <3>1 DEF TypeOK, Worker, Working, BeforeThumbnails, Publishing, Rendering,
         AcquireLock, CancelSeen, Checkpoint, Claim, ClaimRefused, Cleanup, Removals,
         ClearFinals, CompleteFails, CompleteProxyJob, FailProxyJob, FailureStatus, Fallback,
         GiveUp, Leave, ListEncoders, ListEncodersFails, LockPoisoned, MakeThumbnails,
         NotClaimable, Prepare, PrepareFails, Probe, ProbeFails, ProgressRefused,
         PublishFails, PublishProxy, PublishThumbs, RecordFailure, RecordPanic, RenderCancelled,
         RenderErrors, RenderExits, RenderFails, RenderPanics, ReportProgress, ResetCancelRequest,
         Step, ThumbnailsFail
    <3>2. CASE j # i
      BY <2>0, <2>3, <3>2 DEF TypeOK, Worker, AcquireLock, CancelSeen, Checkpoint, Claim, ClaimRefused, Cleanup, Removals,
         ClearFinals, CompleteFails, CompleteProxyJob, FailProxyJob, FailureStatus, Fallback,
         GiveUp, Leave, ListEncoders, ListEncodersFails, LockPoisoned, MakeThumbnails,
         NotClaimable, Prepare, PrepareFails, Probe, ProbeFails, ProgressRefused,
         PublishFails, PublishProxy, PublishThumbs, RecordFailure, RecordPanic, RenderCancelled,
         RenderErrors, RenderExits, RenderFails, RenderPanics, ReportProgress, ResetCancelRequest,
         Step, ThumbnailsFail
    <3> QED
      BY <3>1, <3>2
  <2>4. CASE UNCHANGED vars
    BY <2>4
  <2> QED
    BY <2>1, <2>2, <2>3, <2>4 DEF Next
<1> QED
  BY <1>1, InvariantHolds, PTL DEF Spec, CompleteIsFinal

(***************************************************************************)
(* A token that is set before the thumbnails are begun keeps the attempt   *)
(* from publishing, whichever look at it comes first (run_proxy_job and    *)
(* spawn_progress).                                                        *)
(***************************************************************************)
THEOREM EarlyCancelNeverPublishes == Spec => EarlyCancelWins
<1> DEFINE Kept(j) == phase'[j] \in BeforeThumbnails \union {"failing", "panicked", "idle"}
<1>1. TypeOK /\ [Next]_vars =>
        [\A j \in Jobs : token[j] /\ phase[j] \in BeforeThumbnails => Kept(j)]_vars
  <2> SUFFICES ASSUME TypeOK, [Next]_vars, NEW i \in Jobs, token[i],
                      phase[i] \in BeforeThumbnails
               PROVE  Kept(i)
    OBVIOUS
  <2> USE DEF dbVars, fileVars, lockVars, mainVars, vars
  <2>1. CASE OpenProject \/ Restart
    BY <2>1 DEF OpenProject, Restart
  <2>2. ASSUME NEW j \in Jobs, Command(j) \/ CancelRecord(j) \/ RenderProgress(j)
        PROVE  Kept(i)
    BY <2>2 DEF TypeOK, Command, ImportMedia, StartProxy, CancelToken, CancelRecord,
                RenderProgress, Step, BeforeThumbnails, Rendering
  <2>3. ASSUME NEW j \in Jobs, Worker(j) PROVE Kept(i)
    BY <2>3 DEF TypeOK, Worker, BeforeThumbnails, Rendering, AcquireLock, CancelSeen, Checkpoint, Claim, ClaimRefused, Cleanup, Removals,
         ClearFinals, CompleteFails, CompleteProxyJob, FailProxyJob, FailureStatus, Fallback,
         GiveUp, Leave, ListEncoders, ListEncodersFails, LockPoisoned, MakeThumbnails,
         NotClaimable, Prepare, PrepareFails, Probe, ProbeFails, ProgressRefused,
         PublishFails, PublishProxy, PublishThumbs, RecordFailure, RecordPanic, RenderCancelled,
         RenderErrors, RenderExits, RenderFails, RenderPanics, ReportProgress, ResetCancelRequest,
         Step, ThumbnailsFail
  <2>4. CASE UNCHANGED vars
    BY <2>4
  <2> QED
    BY <2>1, <2>2, <2>3, <2>4 DEF Next
<1> QED
  BY <1>1, TypeCorrect, PTL DEF Spec, EarlyCancelWins


(***************************************************************************)
(* The proxy worker keeps the promise of a durable job: every step is a    *)
(* step of DurableJob, where the artifact is advertised when the media row *)
(* is ready and both files are there.                                      *)
(***************************************************************************)
THEOREM ProxyRefinesDurableJob == Spec => ImplementsDurableJob
<1> DEFINE Adv == [j \in Jobs |-> media[j] = "ready" /\ WholeOutput(j)]
<1>1. Init => Promise!Init
  <2> SUFFICES ASSUME Init PROVE Promise!Init
    OBVIOUS
  <2>1. status \in [Jobs -> {"absent", "queued"}]
    BY DEF Init
  <2>2. \A j \in Jobs : media[j] # "ready"
    BY DEF Init
  <2>3. Adv = [j \in Jobs |-> FALSE]
    BY <2>2
  <2> QED
    BY <2>1, <2>3 DEF Promise!Init
<1>2. IInv /\ IInv' /\ [Next]_vars => [Promise!Next]_(Promise!abstractVars)
  <2> SUFFICES ASSUME IInv, IInv', [Next]_vars
               PROVE  Promise!Next \/ UNCHANGED Promise!abstractVars
    OBVIOUS
  <2> USE DEF dbVars, fileVars, lockVars, mainVars, vars
  <2>1. /\ Adv = [j \in Jobs |-> status[j] = "complete"]
        /\ Adv' = [j \in Jobs |-> status'[j] = "complete"]
        /\ status \in [Jobs -> Statuses]
        /\ status' \in [Jobs -> Statuses]
    BY DEF IInv, TypeOK, JobInv
  <2>2. CASE UNCHANGED status
    BY <2>1, <2>2 DEF Promise!abstractVars
  <2>3. ASSUME NEW j \in Jobs, ImportMedia(j) PROVE Promise!Create(j)
    <3>1. status[j] = "absent" /\ status' = [status EXCEPT ![j] = "queued"]
      BY <2>3 DEF ImportMedia
    <3>2. Adv' = Adv
      BY <2>1, <3>1
    <3> QED
      BY <3>1, <3>2 DEF Promise!Create
  <2>4. ASSUME NEW j \in Jobs, Claim(j) PROVE Promise!Claim(j)
    <3>1. /\ status[j] \in {"queued"} \union Aborted
          /\ status' = [status EXCEPT ![j] = "running"]
      BY <2>1, <2>4 DEF Claim, Step, NotClaimable, Statuses, Aborted, IInv, JobInv, WorkerOwnsRow, JobInv,
                        WorkerOwnsRow
    <3>2. Adv' = Adv
      BY <2>1, <3>1 DEF Aborted
    <3> QED
      BY <3>1, <3>2 DEF Promise!Claim
  <2>5. ASSUME NEW j \in Jobs, CompleteProxyJob(j) PROVE Promise!Complete(j)
    <3>1. status[j] = "running" /\ status' = [status EXCEPT ![j] = "complete"]
      BY <2>5 DEF CompleteProxyJob, Step, IInv, JobInv, WorkerOwnsRow, Working, Publishing
    <3>2. Adv' = [Adv EXCEPT ![j] = TRUE]
      BY <2>1, <3>1
    <3> QED
      BY <3>1, <3>2 DEF Promise!Complete
  <2>6. ASSUME NEW j \in Jobs, RecordFailure(j) \/ RecordPanic(j), status' # status
        PROVE  Promise!Abort(j)
    <3>1. PICK outcome \in Aborted : status' = [status EXCEPT ![j] = outcome]
      BY <2>6 DEF RecordFailure, RecordPanic, FailProxyJob, FailureStatus, Aborted
    <3>2. status[j] = "running"
      BY <2>6 DEF RecordFailure, RecordPanic, Step, IInv, JobInv, WorkerOwnsRow, Working
    <3>3. Adv' = Adv
      BY <2>1, <3>1, <3>2 DEF Aborted
    <3> QED
      BY <3>1, <3>2, <3>3 DEF Promise!Abort, Promise!Terminal, Aborted
  <2>7. \/ UNCHANGED status
        \/ \E j \in Jobs : \/ ImportMedia(j) \/ Claim(j) \/ CompleteProxyJob(j)
                          \/ RecordFailure(j) \/ RecordPanic(j)
    BY DEF Next, Command, Worker, AcquireLock, CancelRecord, CancelSeen, CancelToken, Checkpoint, ClaimRefused,
         Cleanup, Removals, ClearFinals, CompleteFails, Fallback, GiveUp, Idle,
         Leave, ListEncoders, ListEncodersFails, LockPoisoned, MakeThumbnails, NotClaimable,
         OpenProject, Prepare, PrepareFails, Probe, ProbeFails, ProgressRefused,
         PublishFails, PublishProxy, PublishThumbs, RenderBand, RenderCancelled, RenderErrors,
         RenderExits, RenderFails, RenderPanics, RenderProgress, Rendering, ReportProgress,
         Restart, StartProxy, Step, ThumbnailsFail
  <2> QED
    BY <2>2, <2>3, <2>4, <2>5, <2>6, <2>7 DEF Promise!Next
<1> QED
  BY <1>1, <1>2, InvariantHolds, PTL DEF Spec, ImplementsDurableJob, Promise!Spec

-----------------------------------------------------------------------------
(* ProjectStore: the project database.                                     *)

RowOfTable == [table : Imports \union {"none"}, status : RowStatuses, rows : Nat, declared : Nat]
JobOfType == [type : JobTypes \union {"none"}, status : RowStatuses,
              subject : SubjectIds \union {NoSubject}]

\* two databases that differ in their rows only
SameSchema(db, r) ==
    /\ r.version = db.version /\ r.recorded = db.recorded
    /\ r.scripts = db.scripts /\ r.project = db.project

\* r is what a statement of a migration makes of db, row by row
RequeuedRows(db, T, r) ==
    /\ r \in Contents /\ SameSchema(db, r) /\ r.subjects = db.subjects
    /\ \A j \in JobIds :
          /\ r.jobs[j].type = db.jobs[j].type /\ r.jobs[j].subject = db.jobs[j].subject
          /\ r.jobs[j].status = IF db.jobs[j].type = T /\ db.jobs[j].status = "running"
                                THEN "queued" ELSE db.jobs[j].status

AdoptedRows(db, T, legacy, table, rows, r) ==
    /\ r \in Contents /\ SameSchema(db, r)
    /\ \A j \in JobIds :
          /\ r.jobs[j].type = db.jobs[j].type /\ r.jobs[j].status = db.jobs[j].status
          /\ r.jobs[j].subject =
                IF rows # 0 /\ db.jobs[j].type = T /\ db.jobs[j].subject = NoSubject
                THEN legacy ELSE db.jobs[j].subject
    /\ \A s \in SubjectIds : s # legacy \/ rows = 0 => r.subjects[s] = db.subjects[s]
    /\ rows # 0 => r.subjects[legacy].table = table

QueuedRows(db, T, r) ==
    /\ r \in Contents /\ SameSchema(db, r) /\ r.jobs = db.jobs
    /\ \A s \in SubjectIds :
          /\ r.subjects[s].table = db.subjects[s].table
          /\ (\E j \in JobIds : /\ db.jobs[j].type = T /\ db.jobs[j].status = "queued"
                                /\ db.jobs[j].subject = s)
                => r.subjects[s].status = "queued"
          /\ (\A j \in JobIds : db.jobs[j].type = T => db.jobs[j].subject # s)
                => r.subjects[s] = db.subjects[s]

(***************************************************************************)
(* What each statement of a migration does to the rows (Requeued, Adopted, *)
(* SubjectsQueued, MediaRequeued).                                         *)
(***************************************************************************)
LEMMA RequeuedFacts ==
    ASSUME NEW db \in Contents, NEW T
    PROVE  RequeuedRows(db, T, Requeued(db, {T}))
<1>1. db.jobs \in [JobIds -> JobOfType]
  BY DEF Contents, JobOfType
<1> DEFINE J == [j \in JobIds |->
        IF db.jobs[j].type = T /\ db.jobs[j].status = "running"
        THEN [db.jobs[j] EXCEPT !.status = "queued"] ELSE db.jobs[j]]
<1>2. /\ J \in [JobIds -> JobOfType]
      /\ \A j \in JobIds :
            /\ J[j].type = db.jobs[j].type /\ J[j].subject = db.jobs[j].subject
            /\ J[j].status = IF db.jobs[j].type = T /\ db.jobs[j].status = "running"
                             THEN "queued" ELSE db.jobs[j].status
  BY <1>1 DEF JobOfType, RowStatuses
<1>3. Requeued(db, {T}) = [db EXCEPT !.jobs = J]
  BY DEF Requeued
<1> HIDE DEF J
<1>4. [db EXCEPT !.jobs = J] \in Contents /\ [db EXCEPT !.jobs = J].jobs = J
  BY <1>2 DEF Contents, JobOfType
<1> QED
  BY <1>2, <1>3, <1>4 DEF Contents, SameSchema, RequeuedRows

LEMMA AdoptedFacts ==
    ASSUME NEW db \in Contents, NEW T, NEW legacy \in SubjectIds, NEW table \in Imports,
           NEW rows \in Nat
    PROVE  AdoptedRows(db, T, legacy, table, rows, Adopted(db, {T}, legacy, table, rows))
<1> DEFINE r == Adopted(db, {T}, legacy, table, rows)
<1> SUFFICES AdoptedRows(db, T, legacy, table, rows, r)
  OBVIOUS
<1>1. CASE rows = 0
  BY <1>1 DEF Adopted, SameSchema, AdoptedRows
<1>2. CASE rows # 0
  <2>1. db.jobs \in [JobIds -> JobOfType] /\ db.subjects \in [SubjectIds -> RowOfTable]
    BY DEF Contents, JobOfType, RowOfTable
  <2> DEFINE J == [j \in JobIds |->
                IF db.jobs[j].type = T /\ db.jobs[j].subject = NoSubject
                THEN [db.jobs[j] EXCEPT !.subject = legacy] ELSE db.jobs[j]]
             new == [table |-> table, status |-> "complete", rows |-> rows, declared |-> rows]
             S == [db.subjects EXCEPT ![legacy] = new]
  <2>2. /\ J \in [JobIds -> JobOfType]
        /\ \A j \in JobIds :
              /\ J[j].type = db.jobs[j].type /\ J[j].status = db.jobs[j].status
              /\ J[j].subject = IF db.jobs[j].type = T /\ db.jobs[j].subject = NoSubject
                                THEN legacy ELSE db.jobs[j].subject
    BY <2>1 DEF JobOfType
  <2>3. new \in RowOfTable /\ new.table = table
    BY DEF RowOfTable, RowStatuses
  <2>4. r = [db EXCEPT !.subjects = S, !.jobs = J]
    BY <1>2 DEF Adopted, Contents
  <2> HIDE DEF J, new, r
  <2>5. S \in [SubjectIds -> RowOfTable] /\ S[legacy] = new
        /\ \A s \in SubjectIds : s # legacy => S[s] = db.subjects[s]
    BY <2>1, <2>3
  <2> HIDE DEF S
  <2>6. r \in Contents /\ r.jobs = J /\ r.subjects = S
    BY <2>2, <2>4, <2>5 DEF Contents, JobOfType, RowOfTable
  <2>7. SameSchema(db, r)
    BY <2>4 DEF Contents, SameSchema
  <2> QED
    BY <1>2, <2>2, <2>3, <2>5, <2>6, <2>7 DEF AdoptedRows
<1> QED
  BY <1>1, <1>2

LEMMA QueuedFacts ==
    ASSUME NEW db \in Contents, NEW T
    PROVE  QueuedRows(db, T, SubjectsQueued(db, {T}))
<1> DEFINE r == SubjectsQueued(db, {T})
<1> SUFFICES QueuedRows(db, T, r)
  OBVIOUS
<1>1. db.subjects \in [SubjectIds -> RowOfTable]
  BY DEF Contents, RowOfTable
<1> DEFINE Waits(s) == \E j \in JobIds : /\ db.jobs[j].type = T
                                         /\ db.jobs[j].status = "queued"
                                         /\ db.jobs[j].subject = s
           S == [s \in SubjectIds |-> IF Waits(s) THEN [db.subjects[s] EXCEPT !.status = "queued"]
                                                  ELSE db.subjects[s]]
<1>2. r = [db EXCEPT !.subjects = S]
  BY DEF SubjectsQueued
<1>3. \A s \in SubjectIds :
         (\A j \in JobIds : db.jobs[j].type = T => db.jobs[j].subject # s) => ~Waits(s)
  OBVIOUS
<1> HIDE DEF Waits
<1>4. /\ S \in [SubjectIds -> RowOfTable]
      /\ \A s \in SubjectIds : /\ S[s].table = db.subjects[s].table
                               /\ Waits(s) => S[s].status = "queued"
                               /\ ~Waits(s) => S[s] = db.subjects[s]
  BY <1>1 DEF RowOfTable, RowStatuses
<1> HIDE DEF S, r
<1>5. r \in Contents /\ r.subjects = S /\ r.jobs = db.jobs
  BY <1>2, <1>4 DEF Contents, RowOfTable
<1>6. SameSchema(db, r)
  BY <1>2 DEF Contents, SameSchema
<1> QED
  BY <1>3, <1>4, <1>5, <1>6 DEF Waits, QueuedRows

LEMMA MediaRequeuedFacts ==
    ASSUME NEW db \in Contents, NEW r, r = MediaRequeued(db)
    PROVE  /\ r \in Contents /\ SameSchema(db, r) /\ r.jobs = db.jobs
           /\ \A s \in SubjectIds : /\ r.subjects[s].table = db.subjects[s].table
                                    /\ r.subjects[s].rows = db.subjects[s].rows
                                    /\ r.subjects[s].declared = db.subjects[s].declared
                                    /\ db.subjects[s] = NoRow => r.subjects[s] = NoRow
<1>1. db.subjects \in [SubjectIds -> RowOfTable]
  BY DEF Contents, RowOfTable
<1> DEFINE S == [s \in SubjectIds |->
        IF db.subjects[s].table = "media" /\ db.subjects[s].status = "running"
        THEN [db.subjects[s] EXCEPT !.status = "queued"] ELSE db.subjects[s]]
<1>2. r = [db EXCEPT !.subjects = S]
  BY DEF MediaRequeued
<1>3. /\ S \in [SubjectIds -> RowOfTable]
      /\ \A s \in SubjectIds : /\ S[s].table = db.subjects[s].table
                               /\ S[s].rows = db.subjects[s].rows
                               /\ S[s].declared = db.subjects[s].declared
                               /\ db.subjects[s] = NoRow => S[s] = NoRow
  BY <1>1 DEF RowOfTable, RowStatuses, NoRow
<1> HIDE DEF S
<1>4. r \in Contents /\ r.subjects = S /\ r.jobs = db.jobs
  BY <1>2, <1>3 DEF Contents, RowOfTable
<1>5. SameSchema(db, r)
  BY <1>2 DEF Contents, SameSchema
<1> QED
  BY <1>3, <1>4, <1>5

(***************************************************************************)
(* The identities of subjects are not those of jobs without one.           *)
(***************************************************************************)
LEMMA Identities ==
    /\ NoSubject \notin SubjectIds /\ NoSubject \notin Instances /\ "none" \notin Instances
    /\ "legacy-route" \in SubjectIds \ Instances /\ "legacy-source" \in SubjectIds \ Instances
    /\ Instances \subseteq SubjectIds /\ Instances \subseteq JobIds
BY StoreAssumption DEF SubjectIds, OldSubjects, JobIds, NoSubject

LEMMA SoundLater ==
    ASSUME NEW db, NEW m \in Nat, NEW n \in Nat, m <= n, RowsAreSound(db, m)
    PROVE  RowsAreSound(db, n)
BY DEF RowsAreSound, RefersToItsTable, ColumnScript

\* a row that is not there stays so
NoRowStays(db, r) ==
    \A s \in Instances : db.subjects[s] = NoRow => r.subjects[s] = NoRow

(***************************************************************************)
(* Before PROXY_JOB_MIGRATION_SQL no job has a subject, and it gives none. *)
(***************************************************************************)
LEMMA ProxyScript ==
    ASSUME NEW db \in Contents, RowsAreSound(db, 2),
           NEW r, r = MediaRequeued(Requeued(db, {"proxy"}))
    PROVE  r \in Contents /\ SameSchema(db, r) /\ RowsAreSound(r, 3) /\ NoRowStays(db, r)
<1> DEFINE q == Requeued(db, {"proxy"})
<1>1. /\ q \in Contents /\ SameSchema(db, q) /\ q.subjects = db.subjects
      /\ \A j \in JobIds : q.jobs[j].subject = db.jobs[j].subject
  BY RequeuedFacts DEF RequeuedRows
<1>2. r = MediaRequeued(q)
  OBVIOUS
<1> HIDE DEF q
<1>3. /\ r \in Contents /\ SameSchema(q, r) /\ r.jobs = q.jobs
      /\ \A s \in SubjectIds : /\ r.subjects[s].table = q.subjects[s].table
                               /\ r.subjects[s].rows = q.subjects[s].rows
                               /\ r.subjects[s].declared = q.subjects[s].declared
                               /\ q.subjects[s] = NoRow => r.subjects[s] = NoRow
  BY <1>1, <1>2, MediaRequeuedFacts
<1>4. \A j \in JobIds : ~Refers(db, j)
  BY DEF RowsAreSound, RefersToItsTable, ColumnScript
<1>5. \A j \in JobIds : ~Refers(r, j)
  BY <1>1, <1>3, <1>4 DEF Refers
<1>6. \A s \in Instances : IsWhole(r, s)
  BY <1>1, <1>3, Identities DEF RowsAreSound, IsWhole
<1>7. RowsAreSound(r, 3)
  BY <1>1, <1>3, <1>5, <1>6, Identities
  DEF RowsAreSound, RefersToItsTable, SubjectAgrees, OwnSubject
<1> QED
  BY <1>1, <1>3, <1>7, Identities DEF SameSchema, NoRowStays

(***************************************************************************)
(* The scripts that give a table its subjects: anonymous rows are adopted, *)
(* jobs cut short wait again, and their subjects say so.                   *)
(***************************************************************************)
LEMMA AdoptionScript ==
    ASSUME NEW db \in Contents, NEW table \in {"route", "source"}, NEW legacy,
           legacy = IF table = "route" THEN "legacy-route" ELSE "legacy-source",
           RowsAreSound(db, ColumnScript(table)), NEW rows \in Nat, NEW T, T = JobTypeOf(table),
           NEW a, AdoptedRows(db, T, legacy, table, rows, a),
           NEW c, RequeuedRows(a, T, c),
           NEW r, QueuedRows(c, T, r)
    PROVE  /\ r \in Contents /\ SameSchema(db, r)
           /\ RowsAreSound(r, ColumnScript(table) + 1) /\ NoRowStays(db, r)
<1>1. legacy \in SubjectIds \ Instances /\ table \in Imports /\ T # "proxy" /\ legacy # NoSubject
  BY Identities DEF JobTypeOf, Imports
<1>2. /\ a \in Contents /\ SameSchema(db, a)
      /\ \A j \in JobIds :
            /\ a.jobs[j].type = db.jobs[j].type /\ a.jobs[j].status = db.jobs[j].status
            /\ a.jobs[j].subject =
                  IF rows # 0 /\ db.jobs[j].type = T /\ db.jobs[j].subject = NoSubject
                  THEN legacy ELSE db.jobs[j].subject
      /\ \A s \in SubjectIds : s # legacy \/ rows = 0 => a.subjects[s] = db.subjects[s]
      /\ rows # 0 => a.subjects[legacy].table = table
  BY DEF AdoptedRows
<1>3. \A j \in JobIds :
         /\ c.jobs[j].type = a.jobs[j].type /\ c.jobs[j].subject = a.jobs[j].subject
         /\ c.jobs[j].status = IF a.jobs[j].type = T /\ a.jobs[j].status = "running"
                               THEN "queued" ELSE a.jobs[j].status
  BY DEF RequeuedRows
<1>4. /\ c.subjects = a.subjects /\ SameSchema(a, c)
      /\ r \in Contents /\ SameSchema(c, r) /\ r.jobs = c.jobs
      /\ \A s \in SubjectIds :
            /\ r.subjects[s].table = c.subjects[s].table
            /\ (\E j \in JobIds : /\ c.jobs[j].type = T /\ c.jobs[j].status = "queued"
                                  /\ c.jobs[j].subject = s)
                  => r.subjects[s].status = "queued"
            /\ (\A j \in JobIds : c.jobs[j].type = T => c.jobs[j].subject # s)
                  => r.subjects[s] = c.subjects[s]
  BY DEF QueuedRows, RequeuedRows
\* before the script the jobs of the type have no subject, and no job has the legacy one
<1>5. \A j \in JobIds : db.jobs[j].type = T => ~Refers(db, j)
  BY DEF RowsAreSound, RefersToItsTable, JobTypeOf, ColumnScript, Imports
<1>6. \A j \in JobIds : db.jobs[j].type # T => db.jobs[j].subject # legacy
  BY <1>1 DEF RowsAreSound, RefersToItsTable, Refers, JobTypeOf, Imports
<1>7. \A j \in JobIds :
         /\ r.jobs[j].type = db.jobs[j].type
         /\ db.jobs[j].type # T => r.jobs[j].subject = db.jobs[j].subject
                                   /\ r.jobs[j].status = db.jobs[j].status
         /\ db.jobs[j].type = T =>
               /\ r.jobs[j].subject = IF rows # 0 THEN legacy ELSE NoSubject
               /\ r.jobs[j].status # "running"
  BY <1>2, <1>3, <1>4, <1>5 DEF Refers
<1>8. \A s \in SubjectIds \ {legacy} : r.subjects[s] = db.subjects[s]
  <2> SUFFICES ASSUME NEW s \in SubjectIds \ {legacy} PROVE r.subjects[s] = db.subjects[s]
    OBVIOUS
  <2>1. \A j \in JobIds : c.jobs[j].type = T => c.jobs[j].subject # s
    BY <1>2, <1>3, <1>4, <1>7, Identities
  <2>2. r.subjects[s] = c.subjects[s]
    BY <1>4, <2>1
  <2> QED
    BY <1>2, <1>4, <2>2
<1>9. r.subjects[legacy].table = IF rows # 0 THEN table ELSE db.subjects[legacy].table
  BY <1>1, <1>2, <1>4
<1>10. \A s \in Instances : IsWhole(r, s) /\ (db.subjects[s] = NoRow => r.subjects[s] = NoRow)
  BY <1>1, <1>5, <1>7, <1>8, Identities DEF RowsAreSound, IsWhole, Refers
<1>11. ASSUME NEW j \in JobIds, db.jobs[j].type = T
       PROVE  /\ RefersToItsTable(r, j, ColumnScript(table) + 1)
              /\ SubjectAgrees(r, j) /\ OwnSubject(r, j)
  <2>1. CASE rows = 0
    BY <1>7, <1>11, <2>1 DEF RefersToItsTable, SubjectAgrees, OwnSubject, Refers
  <2>2. CASE rows # 0
    <3>1. r.jobs[j].subject = legacy /\ r.jobs[j].type = T /\ r.subjects[legacy].table = table
      BY <1>7, <1>9, <1>11, <2>2
    <3>2. RefersToItsTable(r, j, ColumnScript(table) + 1)
      BY <1>1, <3>1 DEF RefersToItsTable, ColumnScript
    <3>3. SubjectAgrees(r, j)
      BY <1>1, <1>4, <1>7, <1>11, <3>1 DEF SubjectAgrees
    <3> QED
      BY <1>1, <3>1, <3>2, <3>3 DEF OwnSubject
  <2> QED
    BY <2>1, <2>2
<1>12. ASSUME NEW j \in JobIds, db.jobs[j].type # T
       PROVE  /\ RefersToItsTable(r, j, ColumnScript(table) + 1)
              /\ SubjectAgrees(r, j) /\ OwnSubject(r, j)
  <2>1. /\ r.jobs[j].subject = db.jobs[j].subject /\ r.jobs[j].status = db.jobs[j].status
        /\ r.jobs[j].type = db.jobs[j].type
        /\ Refers(r, j) => r.jobs[j].subject \in SubjectIds \ {legacy}
    BY <1>6, <1>7, <1>12 DEF Contents, Refers
  <2>2. Refers(r, j) => r.subjects[r.jobs[j].subject] = db.subjects[db.jobs[j].subject]
    BY <1>8, <2>1
  <2>3. RefersToItsTable(db, j, ColumnScript(table)) /\ SubjectAgrees(db, j) /\ OwnSubject(db, j)
    BY DEF RowsAreSound
  <2>4. RefersToItsTable(r, j, ColumnScript(table) + 1) /\ SubjectAgrees(r, j)
    BY <2>1, <2>2, <2>3 DEF RefersToItsTable, SubjectAgrees, Refers, ColumnScript
  <2>5. OwnSubject(r, j)
    BY <1>7, <2>1, <2>3 DEF OwnSubject, Refers
  <2> QED
    BY <2>4, <2>5
<1>13. /\ r.subjects["legacy-route"].table \in {"none", "route"}
       /\ r.subjects["legacy-source"].table \in {"none", "source"}
  BY <1>8, <1>9, Identities DEF RowsAreSound
<1> QED
  BY <1>2, <1>4, <1>10, <1>11, <1>12, <1>13 DEF RowsAreSound, NoRowStays, SameSchema

(***************************************************************************)
(* Scans and renderings have no subject: to queue them again is sound.     *)
(***************************************************************************)
LEMMA RequeueScript ==
    ASSUME NEW db \in Contents, NEW n \in Nat, RowsAreSound(db, n), NEW T \in {"cv", "gpstitch"},
           NEW r, r = Requeued(db, {T})
    PROVE  r \in Contents /\ SameSchema(db, r) /\ RowsAreSound(r, n) /\ NoRowStays(db, r)
<1>1. /\ r \in Contents /\ SameSchema(db, r) /\ r.subjects = db.subjects
      /\ \A j \in JobIds :
            /\ r.jobs[j].type = db.jobs[j].type /\ r.jobs[j].subject = db.jobs[j].subject
            /\ db.jobs[j].type # T => r.jobs[j].status = db.jobs[j].status
  BY RequeuedFacts DEF RequeuedRows
<1>2. \A j \in JobIds : Refers(db, j) => db.jobs[j].type # T
  BY DEF RowsAreSound, RefersToItsTable, JobTypeOf
<1>3. \A s \in Instances : IsWhole(r, s)
  BY <1>1, Identities DEF RowsAreSound, IsWhole
<1>4. ASSUME NEW j \in JobIds
      PROVE  RefersToItsTable(r, j, n) /\ SubjectAgrees(r, j) /\ OwnSubject(r, j)
  BY <1>1, <1>2 DEF RowsAreSound, RefersToItsTable, SubjectAgrees, OwnSubject, Refers
<1> QED
  BY <1>1, <1>3, <1>4 DEF RowsAreSound, NoRowStays

(***************************************************************************)
(* One script of the migration chain (migrate_database).                   *)
(***************************************************************************)
LEMMA ScriptSound ==
    ASSUME NEW db \in Contents, NEW n \in Scripts, RowsAreSound(db, n),
           NEW r, r = WithScript(db, n)
    PROVE  /\ r \in Contents /\ r.scripts = db.scripts \union {n} /\ r.project = db.project
           /\ RowsAreSound(r, n + 1) /\ NoRowStays(db, r)
<1> DEFINE m == Migrated(db, n)
<1>0. n \in Nat /\ n + 1 \in Nat /\ n <= n + 1 /\ RowsAreSound(db, n + 1)
  BY SoundLater DEF Scripts, Current
<1>1. m \in Contents /\ SameSchema(db, m) /\ RowsAreSound(m, n + 1) /\ NoRowStays(db, m)
  <2>1. CASE n = 2
    <3>1. m = MediaRequeued(Requeued(db, {"proxy"}))
      BY <2>1 DEF Migrated
    <3> QED
      BY <2>1, <3>1, ProxyScript
  <2>2. CASE n = 3
    <3> DEFINE a == Adopted(db, {"valhalla"}, "legacy-route", "route", db.points)
               c == [Requeued(a, {"valhalla"}) EXCEPT !.points = 0]
    <3>1. m = SubjectsQueued(c, {"valhalla"}) /\ JobTypeOf("route") = "valhalla"
          /\ ColumnScript("route") = 3 /\ db.points \in Nat
      BY <2>2 DEF Migrated, JobTypeOf, ColumnScript, Contents
    <3>2. AdoptedRows(db, "valhalla", "legacy-route", "route", db.points, a)
      BY <3>1, AdoptedFacts, Identities DEF Imports
    <3>3. RequeuedRows(a, "valhalla", Requeued(a, {"valhalla"}))
      BY <3>2, RequeuedFacts DEF AdoptedRows
    <3>4. RequeuedRows(a, "valhalla", c)
      BY <3>3 DEF Contents, SameSchema, RequeuedRows
    <3>5. QueuedRows(c, "valhalla", m)
      BY <3>1, <3>4, QueuedFacts DEF RequeuedRows
    <3> HIDE DEF a, c, m
    <3> QED
      BY <2>2, <3>1, <3>2, <3>4, <3>5, AdoptionScript
  <2>3. CASE n = 4
    <3> DEFINE a == Adopted(db, {"gis"}, "legacy-source", "source", db.features)
               c == [Requeued(a, {"gis"}) EXCEPT !.features = 0]
    <3>1. m = SubjectsQueued(c, {"gis"}) /\ JobTypeOf("source") = "gis"
          /\ ColumnScript("source") = 4 /\ db.features \in Nat
      BY <2>3 DEF Migrated, JobTypeOf, ColumnScript, Contents
    <3>2. AdoptedRows(db, "gis", "legacy-source", "source", db.features, a)
      BY <3>1, AdoptedFacts, Identities DEF Imports
    <3>3. RequeuedRows(a, "gis", Requeued(a, {"gis"}))
      BY <3>2, RequeuedFacts DEF AdoptedRows
    <3>4. RequeuedRows(a, "gis", c)
      BY <3>3 DEF Contents, SameSchema, RequeuedRows
    <3>5. QueuedRows(c, "gis", m)
      BY <3>1, <3>4, QueuedFacts DEF RequeuedRows
    <3> HIDE DEF a, c, m
    <3> QED
      BY <2>3, <3>1, <3>2, <3>4, <3>5, AdoptionScript
  <2>4. CASE n = 6
    <3>1. m = Requeued(db, {"cv"})
      BY <2>4 DEF Migrated
    <3> QED
      BY <1>0, <3>1, RequeueScript
  <2>5. CASE n = 7
    <3>1. m = Requeued(db, {"gpstitch"})
      BY <2>5 DEF Migrated
    <3> QED
      BY <1>0, <3>1, RequeueScript
  <2>6. CASE n \notin {2, 3, 4, 6, 7}
    <3>1. m = db
      BY <2>6 DEF Migrated
    <3> QED
      BY <1>0, <3>1 DEF SameSchema, NoRowStays
  <2> QED
    BY <2>1, <2>2, <2>3, <2>4, <2>5, <2>6
<1>2. r = [m EXCEPT !.scripts = @ \union {n}]
  BY DEF WithScript
<1> HIDE DEF m
<1>3. /\ r \in Contents /\ r.scripts = db.scripts \union {n} /\ r.project = db.project
      /\ r.jobs = m.jobs /\ r.subjects = m.subjects
  BY <1>1, <1>2 DEF Contents, SameSchema
<1> QED
  BY <1>1, <1>3 DEF RowsAreSound, NoRowStays, IsWhole, RefersToItsTable, SubjectAgrees, OwnSubject,
                    Refers


\* a change of the rows after the last migration, by the owner of some of them
SoundChange(db, r, owned) ==
    /\ r \in Contents /\ SameSchema(db, r) /\ RowsAreSound(r, Current)
    /\ \A s \in Instances \ owned : db.subjects[s] = NoRow => r.subjects[s] = NoRow

(***************************************************************************)
(* The rows stay sound when a proxy is claimed (claim_proxy_job).          *)
(***************************************************************************)
LEMMA ClaimSound ==
    ASSUME NEW db \in Contents, RowsAreSound(db, Current), NEW j \in JobIds,
           db.jobs[j].type = "proxy", Refers(db, j)
    PROVE  SoundChange(db, SetStatus(db, j, "running"), {})
<1> DEFINE s0 == db.jobs[j].subject
           J == [db.jobs EXCEPT ![j].status = "running"]
           S == [db.subjects EXCEPT ![s0].status = "running"]
           r == SetStatus(db, j, "running")
<1>1. db.jobs \in [JobIds -> JobOfType] /\ db.subjects \in [SubjectIds -> RowOfTable]
  BY DEF Contents, JobOfType, RowOfTable
<1>2. s0 \in SubjectIds /\ db.subjects[s0].table \in Imports
  BY <1>1 DEF Refers, JobOfType, RowsAreSound, RefersToItsTable
<1>3. r = [db EXCEPT !.jobs = J, !.subjects = S]
  BY DEF SetStatus, Contents
<1>4. /\ J \in [JobIds -> JobOfType]
      /\ \A k \in JobIds : /\ J[k].type = db.jobs[k].type /\ J[k].subject = db.jobs[k].subject
                           /\ J[k].status = IF k = j THEN "running" ELSE db.jobs[k].status
  BY <1>1 DEF JobOfType, RowStatuses
<1>5. /\ S \in [SubjectIds -> RowOfTable]
      /\ \A s \in SubjectIds : /\ S[s].table = db.subjects[s].table
                               /\ S[s].rows = db.subjects[s].rows
                               /\ S[s].declared = db.subjects[s].declared
                               /\ s # s0 => S[s] = db.subjects[s]
      /\ S[s0].status = "running"
  BY <1>1, <1>2 DEF RowOfTable, RowStatuses
<1>6. db.subjects[s0] # NoRow
  BY <1>2 DEF NoRow, Imports
<1>7. Refers(db, j) /\ s0 = db.jobs[j].subject
  OBVIOUS
<1> HIDE DEF J, S, r, s0
<1>8. r \in Contents /\ r.jobs = J /\ r.subjects = S
  BY <1>3, <1>4, <1>5 DEF Contents, JobOfType, RowOfTable
<1>9. SameSchema(db, r)
  BY <1>3 DEF Contents, SameSchema
<1>10. \A s \in Instances : IsWhole(r, s) /\ (db.subjects[s] = NoRow => r.subjects[s] = NoRow)
  BY <1>4, <1>5, <1>6, <1>8, Identities DEF RowsAreSound, IsWhole
<1>11. ASSUME NEW k \in JobIds
       PROVE  RefersToItsTable(r, k, Current) /\ SubjectAgrees(r, k) /\ OwnSubject(r, k)
  <2>1. RefersToItsTable(db, k, Current) /\ SubjectAgrees(db, k) /\ OwnSubject(db, k)
    BY DEF RowsAreSound
  <2>2. Refers(r, k) => /\ Refers(db, k) /\ r.jobs[k].subject = db.jobs[k].subject
                        /\ db.jobs[k].subject \in SubjectIds
    BY <1>1, <1>4, <1>8 DEF Refers, JobOfType
  <2>3. RefersToItsTable(r, k, Current)
    BY <1>4, <1>5, <1>8, <2>1, <2>2 DEF RefersToItsTable
  <2>4. OwnSubject(r, k)
    BY <1>4, <1>8, <2>1, <2>2 DEF OwnSubject
  <2>5. SubjectAgrees(r, k)
    <3>1. CASE k = j
      BY <1>4, <1>5, <1>7, <1>8, <3>1 DEF SubjectAgrees
    <3>2. CASE k # j
      <4>1. OwnSubject(db, j)
        BY DEF RowsAreSound
      <4>2. db.jobs[k].subject # s0
        BY <1>7, <3>2, <4>1 DEF OwnSubject
      <4> QED
        BY <1>4, <1>5, <1>8, <2>1, <2>2, <3>2, <4>2 DEF SubjectAgrees
    <3> QED
      BY <3>1, <3>2
  <2> QED
    BY <2>3, <2>4, <2>5
<1>12. /\ r.subjects["legacy-route"].table \in {"none", "route"}
       /\ r.subjects["legacy-source"].table \in {"none", "source"}
  BY <1>5, <1>8, Identities DEF RowsAreSound
<1>13. RowsAreSound(r, Current)
  BY <1>10, <1>11, <1>12 DEF RowsAreSound
<1> QED
  BY <1>8, <1>9, <1>10, <1>13 DEF r, SoundChange

\* the row and the job an import of an instance inserts
RowOf(operation, n, all) ==
    [table |-> TableOf(operation), status |-> "queued", rows |-> n, declared |-> all]

Queued(i, operation) == [type |-> JobTypeOf(operation), status |-> "queued", subject |-> i]

Imported(db, i, operation, n) ==
    [db EXCEPT !.subjects[i] = RowOf(operation, n, n), !.jobs[i] = Queued(i, operation)]

(***************************************************************************)
(* The rows stay sound when an import commits: nobody refers to the row    *)
(* that was not there (import_media_at, import_route_at,                   *)
(* import_feature_source_at).                                              *)
(***************************************************************************)
LEMMA ImportSound ==
    ASSUME NEW db \in Contents, RowsAreSound(db, Current), NEW i \in Instances,
           db.subjects[i] = NoRow, NEW operation \in Imports, NEW n \in Nat
    PROVE  SoundChange(db, Imported(db, i, operation, n), {i})
<1> DEFINE r == Imported(db, i, operation, n)
           J == [db.jobs EXCEPT ![i] = Queued(i, operation)]
           S == [db.subjects EXCEPT ![i] = RowOf(operation, n, n)]
<1>1. db.jobs \in [JobIds -> JobOfType] /\ db.subjects \in [SubjectIds -> RowOfTable]
  BY DEF Contents, JobOfType, RowOfTable
<1>2. /\ i \in JobIds /\ i \in SubjectIds /\ i # NoSubject
      /\ i \notin {"legacy-route", "legacy-source"}
  BY Identities
<1>3. r = [db EXCEPT !.subjects = S, !.jobs = J]
  BY DEF Imported, Contents
<1>4. RowOf(operation, n, n) \in RowOfTable /\ Queued(i, operation) \in JobOfType
  BY <1>2 DEF RowOf, RowOfTable, Queued, JobOfType, TableOf, JobTypeOf, JobTypes, RowStatuses
<1>5. J \in [JobIds -> JobOfType] /\ J[i] = Queued(i, operation)
      /\ \A k \in JobIds \ {i} : J[k] = db.jobs[k]
  BY <1>1, <1>2, <1>4
<1>6. S \in [SubjectIds -> RowOfTable] /\ S[i] = RowOf(operation, n, n)
      /\ \A s \in SubjectIds \ {i} : S[s] = db.subjects[s]
  BY <1>1, <1>2, <1>4
<1> HIDE DEF r, J, S
<1>7. r \in Contents /\ r.jobs = J /\ r.subjects = S
  BY <1>3, <1>5, <1>6 DEF Contents, JobOfType, RowOfTable
<1>8. SameSchema(db, r)
  BY <1>3 DEF Contents, SameSchema
<1>9. \A k \in JobIds : db.jobs[k].subject # i
  BY <1>2 DEF RowsAreSound, RefersToItsTable, Refers, NoRow, Imports
<1>10. \A s \in Instances : IsWhole(r, s)
  <2> SUFFICES ASSUME NEW s \in Instances PROVE IsWhole(r, s)
    OBVIOUS
  <2>1. CASE s = i
    BY <1>5, <1>6, <1>7, <2>1 DEF IsWhole, RowOf, Queued
  <2>2. CASE s # i
    BY <1>5, <1>6, <1>7, <2>2, Identities DEF IsWhole, RowsAreSound
  <2> QED
    BY <2>1, <2>2
<1>11. ASSUME NEW k \in JobIds
       PROVE  RefersToItsTable(r, k, Current) /\ SubjectAgrees(r, k) /\ OwnSubject(r, k)
  <2>1. CASE k = i
    <3>1. r.jobs[k] = Queued(i, operation) /\ r.subjects[i] = RowOf(operation, n, n)
      BY <1>5, <1>6, <1>7, <2>1
    <3>2. RefersToItsTable(r, k, Current) /\ SubjectAgrees(r, k)
      BY <3>1 DEF RefersToItsTable, SubjectAgrees, Queued, RowOf, TableOf, ColumnScript, Current
    <3>3. OwnSubject(r, k)
      BY <1>5, <1>7, <1>9, <2>1, <3>1 DEF OwnSubject, Queued
    <3> QED
      BY <3>2, <3>3
  <2>2. CASE k # i
    <3>1. RefersToItsTable(db, k, Current) /\ SubjectAgrees(db, k) /\ OwnSubject(db, k)
      BY DEF RowsAreSound
    <3>2. r.jobs[k] = db.jobs[k]
      BY <1>5, <1>7, <2>2
    <3>3. Refers(db, k) => r.subjects[db.jobs[k].subject] = db.subjects[db.jobs[k].subject]
      BY <1>1, <1>6, <1>7, <1>9 DEF Refers, JobOfType
    <3>4. RefersToItsTable(r, k, Current) /\ SubjectAgrees(r, k)
      BY <3>1, <3>2, <3>3 DEF RefersToItsTable, SubjectAgrees, Refers
    <3>5. OwnSubject(r, k)
      BY <1>5, <1>7, <1>9, <2>2, <3>1, <3>2 DEF OwnSubject, Refers, Queued
    <3> QED
      BY <3>4, <3>5
  <2> QED
    BY <2>1, <2>2
<1>12. /\ r.subjects["legacy-route"].table \in {"none", "route"}
       /\ r.subjects["legacy-source"].table \in {"none", "source"}
  BY <1>2, <1>6, <1>7, Identities DEF RowsAreSound
<1>13. \A s \in Instances \ {i} : db.subjects[s] = NoRow => r.subjects[s] = NoRow
  BY <1>6, <1>7, Identities
<1>14. RowsAreSound(r, Current)
  BY <1>10, <1>11, <1>12 DEF RowsAreSound
<1> QED
  BY <1>7, <1>8, <1>13, <1>14 DEF r, SoundChange

Transacting == {"migrate", "begun", "rows", "commit"}
Opened == {"start", "import", "begun", "rows", "commit"}
Importing == {"import", "begun", "rows", "commit"}
Places == Creating \union {"idle", "version", "begin", "migrate", "check", "start", "import",
                           "begun", "rows", "commit"}

\* who stands between the beginning and the end of a transaction writes
WriterInv == \A i \in Instances : pc[i] \in Transacting <=> writer = i

\* a project is created alone, statement by statement
CreatedUpTo(stage) ==
    [Nothing EXCEPT !.version = IF stage = "schema" THEN 0 ELSE Current,
                    !.scripts = IF stage \in {"info", "project"} THEN Scripts ELSE {},
                    !.recorded = IF stage = "project" THEN Current ELSE 0]

CreationInv ==
    \A i \in Instances : pc[i] \in Creating =>
        /\ \A k \in Instances \ {i} : pc[k] = "idle"
        /\ database = CreatedUpTo(pc[i])

\* what is committed: the schema of the version, or the remains of a creation
DatabaseInv ==
    /\ database.project =>
          /\ database.version # 0 /\ database.recorded = database.version
          /\ database.scripts = 1..(database.version - 1)
    /\ database # Nothing /\ ~database.project => database.version = Current
    /\ RowsAreSound(database, database.version)

CommandInv(i) ==
    /\ pc[i] = "version" => database # Nothing
    /\ pc[i] = "begin" => /\ database.project /\ seen[i] \in 1..(Current - 1)
                          /\ database.version \in {seen[i], Current}
    /\ pc[i] \in Opened => database.project /\ database.version = Current
    /\ pc[i] \in Importing => op[i] \in Imports
    /\ op[i] \in Imports /\ pc[i] \notin Creating \union {"idle", "start"} =>
          database.subjects[i] = NoRow

\* the transaction that migrates has run the scripts up to the one it stands at, or finds
\* that another instance has run them all
MigrationInv(i) ==
    pc[i] = "migrate" =>
        /\ work.project /\ seen[i] \in 1..Current
        /\ \/ work.scripts = 1..(seen[i] - 1) /\ RowsAreSound(work, seen[i])
           \/ seen[i] < Current /\ work.scripts = Scripts /\ RowsAreSound(work, Current)
        /\ NoRowStays(database, work)

\* the transaction that imports has changed its own rows only
ImportInv(i) ==
    /\ pc[i] = "begun" => work = database
    /\ pc[i] = "rows" =>
          work = [database EXCEPT !.subjects[i] =
                     RowOf(op[i], work.subjects[i].rows, Len(source[i]))]
    /\ pc[i] = "commit" => work = Imported(database, i, op[i], Len(source[i]))

StoreInv ==
    /\ StoreTypeOK /\ WriterInv /\ CreationInv /\ DatabaseInv
    /\ \A i \in Instances : CommandInv(i) /\ MigrationInv(i) /\ ImportInv(i)

LEMMA NothingSound ==
    /\ Nothing \in Contents /\ RowsAreSound(Nothing, 0)
    /\ \A stage \in Creating :
          /\ CreatedUpTo(stage) \in Contents /\ ~CreatedUpTo(stage).project
          /\ RowsAreSound(CreatedUpTo(stage), CreatedUpTo(stage).version)
          /\ stage # "schema" => CreatedUpTo(stage).version = Current
          /\ CreatedUpTo("schema") = Nothing
          /\ CreatedUpTo(stage).jobs = Nothing.jobs
          /\ CreatedUpTo(stage).subjects = Nothing.subjects
<1>1. NoJobRow \in JobOfType /\ NoRow \in RowOfTable
  BY DEF NoJobRow, JobOfType, NoRow, RowOfTable, RowStatuses
<1>2. Nothing.jobs \in [JobIds -> JobOfType] /\ Nothing.subjects \in [SubjectIds -> RowOfTable]
  BY <1>1 DEF Nothing
<1>3. Nothing \in Contents /\ ~Nothing.project /\ Nothing.version = 0
  BY <1>1, <1>2 DEF Nothing, Contents, JobOfType, RowOfTable, Current, Scripts
<1>4. ASSUME NEW db \in Contents, db.jobs = Nothing.jobs, db.subjects = Nothing.subjects, NEW n
      PROVE  RowsAreSound(db, n)
  <2>1. \A j \in JobIds : ~Refers(db, j)
    BY <1>4 DEF Refers, Nothing, NoJobRow
  <2>2. \A s \in SubjectIds : db.subjects[s] = NoRow
    BY <1>4 DEF Nothing
  <2> QED
    BY <2>1, <2>2, Identities
    DEF RowsAreSound, IsWhole, RefersToItsTable, SubjectAgrees, OwnSubject, NoRow
<1>5. ASSUME NEW stage \in Creating
      PROVE  /\ CreatedUpTo(stage) \in Contents /\ ~CreatedUpTo(stage).project
             /\ stage # "schema" => CreatedUpTo(stage).version = Current
             /\ CreatedUpTo(stage).jobs = Nothing.jobs
             /\ CreatedUpTo(stage).subjects = Nothing.subjects
  <2> DEFINE v == IF stage = "schema" THEN 0 ELSE Current
             c == IF stage \in {"info", "project"} THEN Scripts ELSE {}
             n == IF stage = "project" THEN Current ELSE 0
  <2>1. /\ v \in 0..Current /\ c \in SUBSET Scripts /\ n \in 0..Current
        /\ stage # "schema" => v = Current
    BY DEF Current
  <2>2. CreatedUpTo(stage) = [Nothing EXCEPT !.version = v, !.scripts = c, !.recorded = n]
    BY DEF CreatedUpTo
  <2> HIDE DEF v, c, n
  <2> QED
    BY <1>3, <2>1, <2>2 DEF Contents
<1>6. CreatedUpTo("schema") = Nothing
  <2>1. CreatedUpTo("schema") = [Nothing EXCEPT !.version = 0, !.scripts = {}, !.recorded = 0]
    BY DEF CreatedUpTo
  <2>2. Nothing.version = 0 /\ Nothing.scripts = {} /\ Nothing.recorded = 0
    BY DEF Nothing
  <2>3. Nothing = [Nothing EXCEPT !.version = 0, !.scripts = {}, !.recorded = 0]
    BY <1>3, <2>2 DEF Contents
  <2> QED
    BY <2>1, <2>3
<1> QED
  BY <1>3, <1>4, <1>5, <1>6

LEMMA StoreInvInit == StoreInit => StoreInv
<1> SUFFICES ASSUME StoreInit PROVE StoreInv
  OBVIOUS
<1>1. database \in Contents /\ DatabaseInv
  <2>1. CASE database = Nothing
    <3>1. database.version = 0 /\ ~database.project
      BY <2>1 DEF Nothing
    <3> QED
      BY <2>1, <3>1, NothingSound DEF DatabaseInv
  <2>2. CASE database \in Databases
    BY <2>2, StoreAssumption DEF DatabaseInv, IsOfRelease
  <2> QED
    BY <2>1, <2>2 DEF StoreInit
<1>2. pc = [i \in Instances |-> "idle"] /\ writer = "none"
  BY DEF StoreInit
<1>3. StoreTypeOK
  <2>1. Len(NoRows) \in Nat
    BY DEF NoRows
  <2> QED
    BY <1>1, <2>1, NothingSound DEF StoreInit, StoreTypeOK, Operations, Current
<1>4. WriterInv /\ CreationInv
  BY <1>2, Identities DEF WriterInv, CreationInv, Transacting, Creating
<1>5. \A i \in Instances : CommandInv(i) /\ MigrationInv(i) /\ ImportInv(i)
  BY <1>2 DEF CommandInv, MigrationInv, ImportInv, Opened, Importing
<1> QED
  BY <1>1, <1>3, <1>4, <1>5 DEF StoreInv

(***************************************************************************)
(* The inductive invariant implies the three properties.                   *)
(***************************************************************************)
LEMMA StoreInvImplies == StoreInv => SchemaIsOneVersion /\ ImportIsWhole /\ OpenedRowsAgree
<1> SUFFICES ASSUME StoreInv PROVE SchemaIsOneVersion /\ ImportIsWhole /\ OpenedRowsAgree
  OBVIOUS
<1>1. DatabaseInv /\ \A i \in Instances : CommandInv(i)
  BY DEF StoreInv
<1>2. SchemaIsOneVersion
  BY <1>1 DEF SchemaIsOneVersion, DatabaseInv, CommandInv, Opened
<1>3. ImportIsWhole
  BY <1>1, Identities
  DEF DatabaseInv, RowsAreSound, ImportIsWhole, IsWhole, RefersToItsTable, Refers, NoRow, Imports
<1>4. OpenedRowsAgree
  BY <1>1 DEF DatabaseInv, RowsAreSound, OpenedRowsAgree, SubjectAgrees, Refers
<1> QED
  BY <1>2, <1>3, <1>4

\* what a step of an instance may do to the commands of the others
OthersUntouched(i) ==
    /\ \A k \in Instances \ {i} :
          /\ pc'[k] = pc[k] /\ op'[k] = op[k] /\ seen'[k] = seen[k] /\ source'[k] = source[k]
          /\ writer' = k <=> writer = k
          /\ writer = k \/ pc[k] \in Creating => database' = database /\ work' = work
          /\ pc[k] \in Creating => pc'[i] = "idle"

\* what it may do to a database that others have open
Advances(i) ==
    \/ UNCHANGED database
    \/ \A k \in Instances \ {i} : pc[k] = "idle"
    \/ /\ database'.project /\ database'.version = Current
       /\ \A s \in Instances \ {i} : database.subjects[s] = NoRow => database'.subjects[s] = NoRow

\* where it may leave its own command
OwnInv(i) ==
    /\ pc[i] \in Transacting <=> writer = i
    /\ pc[i] \in Creating => /\ \A k \in Instances \ {i} : pc[k] = "idle"
                             /\ database = CreatedUpTo(pc[i])
    /\ CommandInv(i) /\ MigrationInv(i) /\ ImportInv(i)

LEMMA OwnInvHolds == StoreInv => \A i \in Instances : OwnInv(i)
BY DEF StoreInv, OwnInv, WriterInv, CreationInv

LEMMA Assemble ==
    ASSUME StoreInv, NEW i \in Instances, StoreTypeOK', DatabaseInv', OwnInv(i)',
           OthersUntouched(i), Advances(i)
    PROVE  StoreInv'
<1>1. ASSUME NEW k \in Instances \ {i} PROVE OwnInv(k)'
  <2>1. OwnInv(k) /\ k \in Instances
    BY OwnInvHolds
  <2>2. /\ pc'[k] = pc[k] /\ op'[k] = op[k] /\ seen'[k] = seen[k] /\ source'[k] = source[k]
        /\ writer' = k <=> writer = k
        /\ writer = k \/ pc[k] \in Creating => database' = database /\ work' = work
        /\ pc[k] \in Creating => pc'[i] = "idle"
    BY DEF OthersUntouched
  <2>3. pc'[k] \in Transacting <=> writer' = k
    BY <2>1, <2>2 DEF OwnInv
  <2>4. pc'[k] \in Creating =>
           (\A m \in Instances \ {k} : pc'[m] = "idle") /\ database' = CreatedUpTo(pc'[k])
    BY <2>1, <2>2 DEF OwnInv, OthersUntouched
  <2>5. CommandInv(k)'
    <3>1. CASE UNCHANGED database
      BY <2>1, <2>2, <3>1 DEF OwnInv, CommandInv
    <3>2. CASE pc[k] = "idle"
      BY <2>2, <3>2 DEF CommandInv, Opened, Importing
    <3>3. CASE /\ database'.project /\ database'.version = Current
               /\ \A s \in Instances \ {i} :
                     database.subjects[s] = NoRow => database'.subjects[s] = NoRow
      <4>1. database' # Nothing
        BY <3>3 DEF Nothing
      <4> QED
        BY <2>1, <2>2, <3>3, <4>1 DEF OwnInv, CommandInv
    <3> QED
      BY <3>1, <3>2, <3>3 DEF Advances
  <2>6. MigrationInv(k)'
    BY <2>1, <2>2 DEF OwnInv, MigrationInv, Transacting
  <2>7. ImportInv(k)'
    BY <2>1, <2>2 DEF OwnInv, ImportInv, Transacting
  <2> QED
    BY <2>3, <2>4, <2>5, <2>6, <2>7 DEF OwnInv
<1>2. \A k \in Instances : OwnInv(k)'
  BY <1>1
<1> QED
  BY <1>2 DEF StoreInv, OwnInv, WriterInv, CreationInv

LEMMA TypeParts ==
    StoreTypeOK <=>
        /\ database \in Contents /\ work \in Contents
        /\ writer \in Instances \union {"none"}
        /\ pc \in [Instances -> Places]
        /\ op \in [Instances -> Operations] /\ seen \in [Instances -> 0..Current]
        /\ DOMAIN source = Instances /\ \A i \in Instances : Len(source[i]) \in Nat
        /\ ran \in [Instances -> SUBSET JobIds] /\ refused \subseteq JobIds
BY DEF StoreTypeOK, Places

\* the sets the places of a command are told apart by
LEMMA PlaceSets ==
    /\ Places = Creating \union {"idle", "version", "begin", "migrate", "check", "start", "import",
                                 "begun", "rows", "commit"}
    /\ Creating = {"schema", "tables", "info", "project"}
    /\ Transacting = {"migrate", "begun", "rows", "commit"}
    /\ Opened = {"start", "import", "begun", "rows", "commit"}
    /\ Importing = {"import", "begun", "rows", "commit"}
BY DEF Places, Creating, Transacting, Opened, Importing

(***************************************************************************)
(* A command that ends, whichever way, leaves nothing of its transaction   *)
(* (Fail, ScriptFails, CheckFails, InsertFails and Crash).                 *)
(***************************************************************************)
LEMMA EndingSound ==
    ASSUME StoreInv, NEW i \in Instances,
           pc' = [pc EXCEPT ![i] = "idle"], RollBack(i), UNCHANGED locals,
           ran' \in [Instances -> SUBSET JobIds], refused' \subseteq JobIds
    PROVE  StoreInv'
<1>1. StoreTypeOK /\ DatabaseInv /\ OwnInv(i)
  BY OwnInvHolds DEF StoreInv
<1>2. StoreTypeOK'
  BY <1>1, NothingSound DEF StoreTypeOK, RollBack, locals
<1>3. DatabaseInv'
  BY <1>1 DEF RollBack, DatabaseInv
<1>4. pc'[i] = "idle" /\ \A k \in Instances \ {i} : pc'[k] = pc[k]
  BY <1>1, TypeParts
<1>5. OwnInv(i)'
  BY <1>1, <1>4, PlaceSets, Identities
  DEF OwnInv, CommandInv, MigrationInv, ImportInv, RollBack
<1>6. \A k \in Instances \ {i} : pc[k] \in Creating => writer # i
  BY <1>1, OwnInvHolds, PlaceSets DEF OwnInv
<1>7. OthersUntouched(i) /\ Advances(i)
  BY <1>1, <1>4, <1>6, Identities DEF OthersUntouched, Advances, RollBack, locals
<1> QED
  BY <1>2, <1>3, <1>5, <1>7, Assemble

LEMMA MoveFacts ==
    ASSUME StoreTypeOK, NEW i \in Instances, NEW from, NEW to \in Places, Moves(i, from, to)
    PROVE  /\ pc[i] = from /\ pc'[i] = to /\ \A k \in Instances \ {i} : pc'[k] = pc[k]
           /\ pc' \in [Instances -> Places]
BY TypeParts DEF Moves

LEMMA NoOtherCreates ==
    ASSUME StoreInv, NEW i \in Instances, pc[i] # "idle", NEW k \in Instances \ {i}
    PROVE  pc[k] \notin Creating
BY OwnInvHolds DEF OwnInv

(***************************************************************************)
(* create_project: alone, one statement after the other.                   *)
(***************************************************************************)
LEMMA CreateSound ==
    ASSUME StoreInv, NEW i \in Instances, Create(i) PROVE StoreInv'
<1>1. StoreTypeOK /\ DatabaseInv /\ OwnInv(i)
  BY OwnInvHolds DEF StoreInv
<1>2. /\ pc[i] = "idle" /\ pc'[i] = "schema" /\ \A k \in Instances \ {i} : pc'[k] = pc[k]
      /\ pc' \in [Instances -> Places]
  BY <1>1, MoveFacts, PlaceSets DEF Create
<1>3. StoreTypeOK' /\ DatabaseInv'
  BY <1>1, <1>2 DEF Create, StoreTypeOK, DatabaseInv, locals, history, Places
<1>4. OwnInv(i)'
  BY <1>1, <1>2, PlaceSets, NothingSound
  DEF Create, OwnInv, CommandInv, MigrationInv, ImportInv, locals
<1>5. OthersUntouched(i) /\ Advances(i)
  BY <1>2, PlaceSets DEF Create, OthersUntouched, Advances, locals
<1> QED
  BY <1>3, <1>4, <1>5, Assemble

LEMMA CreateStepSound ==
    ASSUME StoreInv, NEW i \in Instances, CreateStep(i) PROVE StoreInv'
<1>1. StoreTypeOK /\ DatabaseInv /\ OwnInv(i)
  BY OwnInvHolds DEF StoreInv
<1>2. /\ pc[i] \in Creating /\ pc'[i] \in Places /\ \A k \in Instances \ {i} : pc'[k] = pc[k]
      /\ pc' \in [Instances -> Places]
      /\ \/ pc'[i] \in Creating /\ database' = CreatedUpTo(pc'[i])
         \/ pc'[i] = "idle" /\ database' = [CreatedUpTo("project") EXCEPT !.project = TRUE]
  <2>1. database = CreatedUpTo(pc[i]) \/ pc[i] \notin Creating
    BY <1>1 DEF OwnInv
  <2>2. CASE Moves(i, "schema", "tables") /\ database' = [database EXCEPT !.version = Current]
    <3>1. [CreatedUpTo("schema") EXCEPT !.version = Current] = CreatedUpTo("tables")
      BY DEF CreatedUpTo, Nothing
    <3> QED
      BY <1>1, <2>1, <2>2, <3>1, MoveFacts, PlaceSets
  <2>3. CASE Moves(i, "tables", "info") /\ database' = [database EXCEPT !.scripts = Scripts]
    <3>1. [CreatedUpTo("tables") EXCEPT !.scripts = Scripts] = CreatedUpTo("info")
      BY DEF CreatedUpTo, Nothing
    <3> QED
      BY <1>1, <2>1, <2>3, <3>1, MoveFacts, PlaceSets
  <2>4. CASE Moves(i, "info", "project") /\ database' = [database EXCEPT !.recorded = Current]
    <3>1. [CreatedUpTo("info") EXCEPT !.recorded = Current] = CreatedUpTo("project")
      BY DEF CreatedUpTo, Nothing
    <3> QED
      BY <1>1, <2>1, <2>4, <3>1, MoveFacts, PlaceSets
  <2>5. CASE Moves(i, "project", "idle") /\ database' = [database EXCEPT !.project = TRUE]
    BY <1>1, <2>1, <2>5, MoveFacts, PlaceSets
  <2> QED
    BY <2>2, <2>3, <2>4, <2>5 DEF CreateStep
<1>3. database' \in Contents /\ DatabaseInv'
  <2>1. CASE database' = CreatedUpTo(pc'[i]) /\ pc'[i] \in Creating
    BY <2>1, NothingSound DEF DatabaseInv
  <2>2. CASE database' = [CreatedUpTo("project") EXCEPT !.project = TRUE]
    <3> DEFINE db == CreatedUpTo("project")
    <3>1. /\ db \in Contents /\ db.version = Current /\ RowsAreSound(db, Current)
      BY NothingSound, PlaceSets
    <3>2. db.recorded = Current /\ db.scripts = Scripts
      BY DEF CreatedUpTo, Nothing
    <3>3. database' = [db EXCEPT !.project = TRUE]
      BY <2>2
    <3> HIDE DEF db
    <3>4. /\ database' \in Contents /\ database'.project /\ database'.version = Current
          /\ database'.recorded = Current /\ database'.scripts = Scripts
          /\ database'.jobs = db.jobs /\ database'.subjects = db.subjects
      BY <3>1, <3>2, <3>3 DEF Contents
    <3>5. RowsAreSound(database', Current)
      BY <3>1, <3>4
      DEF RowsAreSound, IsWhole, RefersToItsTable, SubjectAgrees, OwnSubject, Refers
    <3> QED
      BY <3>4, <3>5 DEF DatabaseInv, Current, Scripts
  <2> QED
    BY <1>2, <2>1, <2>2
<1>4. StoreTypeOK'
  BY <1>1, <1>2, <1>3 DEF CreateStep, StoreTypeOK, locals, history, Places
<1>5. OwnInv(i)'
  BY <1>1, <1>2, PlaceSets
  DEF CreateStep, OwnInv, CommandInv, MigrationInv, ImportInv, locals
<1>6. OthersUntouched(i) /\ Advances(i)
  BY <1>1, <1>2, OwnInvHolds, PlaceSets
  DEF CreateStep, OwnInv, OthersUntouched, Advances, locals
<1> QED
  BY <1>3, <1>4, <1>5, <1>6, Assemble

LEMMA CreateFailsSound ==
    ASSUME StoreInv, NEW i \in Instances, CreateFails(i) PROVE StoreInv'
<1>1. StoreTypeOK /\ DatabaseInv /\ OwnInv(i)
  BY OwnInvHolds DEF StoreInv
<1>2. /\ pc[i] \in Creating /\ pc'[i] = "idle" /\ \A k \in Instances \ {i} : pc'[k] = pc[k]
      /\ pc' \in [Instances -> Places]
  BY <1>1, MoveFacts, PlaceSets DEF CreateFails
<1>3. StoreTypeOK' /\ DatabaseInv'
  <2>1. database' = Nothing /\ ~Nothing.project /\ Nothing.version = 0
    BY DEF CreateFails, Nothing
  <2>2. DatabaseInv'
    BY <2>1, NothingSound DEF DatabaseInv
  <2>3. StoreTypeOK'
    BY <1>1, <1>2, <2>1, NothingSound DEF CreateFails, StoreTypeOK, locals, history, Places
  <2> QED
    BY <2>2, <2>3
<1>4. OwnInv(i)'
  BY <1>1, <1>2, PlaceSets
  DEF CreateFails, OwnInv, CommandInv, MigrationInv, ImportInv, locals
<1>5. OthersUntouched(i) /\ Advances(i)
  BY <1>1, <1>2, OwnInvHolds, PlaceSets
  DEF CreateFails, OwnInv, OthersUntouched, Advances, locals
<1> QED
  BY <1>3, <1>4, <1>5, Assemble

(***************************************************************************)
(* Opening a project, and the transaction of its migration.                *)
(***************************************************************************)
LEMMA OpenSound ==
    ASSUME StoreInv, NEW i \in Instances, NEW operation \in Operations, Open(i, operation)
    PROVE  StoreInv'
<1>1. StoreTypeOK /\ DatabaseInv /\ OwnInv(i)
  BY OwnInvHolds DEF StoreInv
<1>2. /\ pc[i] = "idle" /\ pc'[i] = "version" /\ \A k \in Instances \ {i} : pc'[k] = pc[k]
      /\ pc' \in [Instances -> Places]
  BY <1>1, MoveFacts, PlaceSets DEF Open
<1>3. PICK rows \in Parsed(operation) : source' = [source EXCEPT ![i] = rows]
  BY DEF Open
<1>4. Len(rows) \in Nat
  <2>1. CASE operation \in Imports
    BY <2>1, <1>3, SourceAssumption
  <2>2. CASE operation \notin Imports
    <3>1. rows = <<>>
      BY <1>3, <2>2 DEF Parsed, Imports, NoRows
    <3> QED
      BY <3>1
  <2> QED
    BY <2>1, <2>2
<1>5. /\ op' = [op EXCEPT ![i] = operation] /\ op'[i] = operation /\ source'[i] = rows
      /\ \A k \in Instances \ {i} : op'[k] = op[k] /\ source'[k] = source[k]
  BY <1>1, <1>3 DEF Open, StoreTypeOK
<1>6. StoreTypeOK' /\ DatabaseInv'
  BY <1>1, <1>2, <1>3, <1>4, <1>5 DEF Open, StoreTypeOK, DatabaseInv, history, Places
<1>7. OwnInv(i)'
  BY <1>1, <1>2, <1>5, PlaceSets DEF Open, OwnInv, CommandInv, MigrationInv, ImportInv
<1>8. OthersUntouched(i) /\ Advances(i)
  BY <1>2, <1>5 DEF Open, OthersUntouched, Advances
<1> QED
  BY <1>6, <1>7, <1>8, Assemble

LEMMA ReadVersionSound ==
    ASSUME StoreInv, NEW i \in Instances, ReadVersion(i) PROVE StoreInv'
<1>1. StoreTypeOK /\ DatabaseInv /\ OwnInv(i)
  BY OwnInvHolds DEF StoreInv
<1>2. /\ pc[i] = "version" /\ \A k \in Instances \ {i} : pc'[k] = pc[k]
      /\ pc'[i] = IF database.version < Current THEN "begin" ELSE "check"
      /\ pc' \in [Instances -> Places]
  BY <1>1, MoveFacts, PlaceSets DEF ReadVersion
<1>3. /\ seen'[i] = database.version /\ database.version \in 0..Current
      /\ \A k \in Instances \ {i} : seen'[k] = seen[k]
  BY <1>1 DEF ReadVersion, StoreTypeOK, Contents
<1>4. StoreTypeOK' /\ DatabaseInv'
  BY <1>1, <1>2, <1>3 DEF ReadVersion, StoreTypeOK, DatabaseInv, history, Places
<1>5. pc'[i] = "begin" => database.project /\ database.version \in 1..(Current - 1)
  BY <1>1, <1>2, <1>3 DEF OwnInv, CommandInv, DatabaseInv, Current
<1>6. OwnInv(i)'
  BY <1>1, <1>2, <1>3, <1>5, PlaceSets
  DEF ReadVersion, OwnInv, CommandInv, MigrationInv, ImportInv
<1>7. OthersUntouched(i) /\ Advances(i)
  BY <1>2, <1>3, NoOtherCreates DEF ReadVersion, OthersUntouched, Advances
<1> QED
  BY <1>4, <1>6, <1>7, Assemble

LEMMA BeginMigrationSound ==
    ASSUME StoreInv, NEW i \in Instances, BeginMigration(i) PROVE StoreInv'
<1>1. StoreTypeOK /\ DatabaseInv /\ OwnInv(i)
  BY OwnInvHolds DEF StoreInv
<1>2. /\ pc[i] = "begin" /\ pc'[i] = "migrate" /\ \A k \in Instances \ {i} : pc'[k] = pc[k]
      /\ pc' \in [Instances -> Places]
  BY <1>1, MoveFacts, PlaceSets DEF BeginMigration
<1>3. StoreTypeOK' /\ DatabaseInv'
  BY <1>1, <1>2 DEF BeginMigration, Begin, StoreTypeOK, DatabaseInv, locals, history, Places
<1>4. MigrationInv(i)'
  <2>1. work' = database /\ database' = database /\ seen' = seen
    BY DEF BeginMigration, Begin, locals
  <2>2. database.project /\ seen[i] \in 1..(Current - 1) /\ database.version \in {seen[i], Current}
    BY <1>1, <1>2 DEF OwnInv, CommandInv
  <2>3. database.scripts = 1..(database.version - 1) /\ RowsAreSound(database, database.version)
    BY <1>1, <2>2 DEF DatabaseInv
  <2>4. NoRowStays(database, database)
    BY DEF NoRowStays
  <2> QED
    BY <2>1, <2>2, <2>3, <2>4 DEF MigrationInv, Current, Scripts
<1>5. OwnInv(i)'
  BY <1>1, <1>2, <1>4, PlaceSets DEF BeginMigration, Begin, OwnInv, CommandInv, ImportInv, locals
<1>6. OthersUntouched(i) /\ Advances(i)
  BY <1>2, NoOtherCreates, Identities DEF BeginMigration, Begin, OthersUntouched, Advances, locals
<1> QED
  BY <1>3, <1>5, <1>6, Assemble

LEMMA RunScriptSound ==
    ASSUME StoreInv, NEW i \in Instances, RunScript(i) PROVE StoreInv'
<1>1. StoreTypeOK /\ DatabaseInv /\ OwnInv(i)
  BY OwnInvHolds DEF StoreInv
<1>2. /\ pc[i] = "migrate" /\ pc' = pc /\ writer = i /\ writer' = i /\ database' = database
      /\ work' = WithScript(work, seen[i]) /\ op' = op /\ source' = source
  BY DEF RunScript, Statement, NextScript
<1>3. /\ work.project /\ seen[i] \in Scripts /\ work \in Contents
      /\ \/ work.scripts = 1..(seen[i] - 1) /\ RowsAreSound(work, seen[i])
         \/ work.scripts = Scripts /\ RowsAreSound(work, Current)
      /\ NoRowStays(database, work)
  BY <1>1, <1>2 DEF OwnInv, MigrationInv, StoreTypeOK, RunScript, Scripts, Current
<1>4. /\ seen' = [seen EXCEPT ![i] = seen[i] + 1] /\ seen'[i] = seen[i] + 1
      /\ seen[i] + 1 \in 2..Current /\ \A k \in Instances \ {i} : seen'[k] = seen[k]
  BY <1>1, <1>3 DEF RunScript, StoreTypeOK, Scripts, Current
<1>5. /\ work' \in Contents /\ work'.project /\ NoRowStays(database, work')
      /\ \/ work'.scripts = 1..(seen'[i] - 1) /\ RowsAreSound(work', seen'[i])
         \/ seen'[i] < Current /\ work'.scripts = Scripts /\ RowsAreSound(work', Current)
  <2>1. CASE work.scripts = 1..(seen[i] - 1) /\ RowsAreSound(work, seen[i])
    <3>1. /\ work' \in Contents /\ work'.scripts = work.scripts \union {seen[i]}
          /\ work'.project = work.project
          /\ RowsAreSound(work', seen[i] + 1) /\ NoRowStays(work, work')
      BY <1>2, <1>3, <2>1, ScriptSound
    <3>2. 1..(seen[i] - 1) \union {seen[i]} = 1..(seen[i] + 1 - 1)
      BY <1>3 DEF Scripts
    <3> QED
      BY <1>3, <1>4, <2>1, <3>1, <3>2 DEF NoRowStays
  <2>2. CASE work.scripts = Scripts /\ RowsAreSound(work, Current)
    <3>1. seen[i] = 1
      BY <1>3, <2>2 DEF RunScript, NextScript
    <3>2. work' = [work EXCEPT !.scripts = @ \union {1}]
      BY <1>2, <3>1 DEF WithScript, Migrated
    <3>3. 1 \in Scripts
      BY DEF Scripts, Current
    <3>4. /\ work' \in Contents /\ work'.project = work.project /\ work'.scripts = Scripts
          /\ work'.jobs = work.jobs /\ work'.subjects = work.subjects
      BY <1>3, <2>2, <3>2, <3>3 DEF Contents
    <3>5. RowsAreSound(work', Current)
      BY <2>2, <3>4
      DEF RowsAreSound, IsWhole, RefersToItsTable, SubjectAgrees, OwnSubject, Refers
    <3>6. seen'[i] < Current
      BY <1>4, <3>1 DEF Current
    <3> QED
      BY <1>3, <3>4, <3>5, <3>6 DEF NoRowStays
  <2> QED
    BY <1>3, <2>1, <2>2
<1>6. StoreTypeOK' /\ DatabaseInv'
  BY <1>1, <1>2, <1>4, <1>5 DEF RunScript, StoreTypeOK, DatabaseInv, history
<1>7. MigrationInv(i)'
  BY <1>2, <1>4, <1>5 DEF MigrationInv
<1>8. OwnInv(i)'
  BY <1>1, <1>2, <1>7, PlaceSets DEF OwnInv, CommandInv, ImportInv
<1>9. OthersUntouched(i) /\ Advances(i)
  BY <1>2, <1>4, NoOtherCreates DEF OthersUntouched, Advances
<1> QED
  BY <1>6, <1>8, <1>9, Assemble

LEMMA CommitMigrationSound ==
    ASSUME StoreInv, NEW i \in Instances, CommitMigration(i) PROVE StoreInv'
<1>1. StoreTypeOK /\ DatabaseInv /\ OwnInv(i)
  BY OwnInvHolds DEF StoreInv
<1>2. /\ pc[i] = "migrate" /\ pc'[i] = "check" /\ \A k \in Instances \ {i} : pc'[k] = pc[k]
      /\ pc' \in [Instances -> Places]
  BY <1>1, MoveFacts, PlaceSets DEF CommitMigration
<1>3. /\ writer = i /\ writer' = "none" /\ work' = Nothing
      /\ database' = [work EXCEPT !.version = Current, !.recorded = Current]
  BY DEF CommitMigration, Commit
<1>4. /\ work \in Contents /\ work.project /\ work.scripts = Scripts
      /\ RowsAreSound(work, Current) /\ NoRowStays(database, work)
  BY <1>1, <1>2 DEF CommitMigration, OwnInv, MigrationInv, StoreTypeOK, Scripts, Current
<1>5. /\ database' \in Contents /\ database'.project /\ database'.version = Current
      /\ database'.recorded = Current /\ database'.scripts = Scripts
      /\ database'.jobs = work.jobs /\ database'.subjects = work.subjects
  <2>1. Current \in 0..Current
    BY DEF Current
  <2> QED
    BY <1>3, <1>4, <2>1 DEF Contents
<1>6. RowsAreSound(database', Current) /\ NoRowStays(database, database')
  BY <1>4, <1>5
  DEF RowsAreSound, IsWhole, RefersToItsTable, SubjectAgrees, OwnSubject, Refers, NoRowStays
<1>7. DatabaseInv'
  BY <1>5, <1>6 DEF DatabaseInv, Current, Scripts
<1>8. StoreTypeOK'
  BY <1>1, <1>2, <1>3, <1>5, NothingSound
  DEF CommitMigration, StoreTypeOK, locals, history, Places
<1>9. OwnInv(i)'
  BY <1>1, <1>2, <1>3, <1>5, <1>6, PlaceSets, Identities
  DEF CommitMigration, OwnInv, CommandInv, MigrationInv, ImportInv, NoRowStays, locals
<1>10. OthersUntouched(i) /\ Advances(i)
  BY <1>2, <1>3, <1>5, <1>6, NoOtherCreates, Identities
  DEF CommitMigration, OthersUntouched, Advances, NoRowStays, locals
<1> QED
  BY <1>7, <1>8, <1>9, <1>10, Assemble

LEMMA CheckSound ==
    ASSUME StoreInv, NEW i \in Instances, Check(i) PROVE StoreInv'
<1>1. StoreTypeOK /\ DatabaseInv /\ OwnInv(i)
  BY OwnInvHolds DEF StoreInv
<1> DEFINE to == CASE op[i] = "proxy" -> "start" [] op[i] \in Imports -> "import" [] OTHER -> "idle"
<1>2. /\ pc[i] = "check" /\ pc'[i] = to /\ \A k \in Instances \ {i} : pc'[k] = pc[k]
      /\ pc' \in [Instances -> Places]
  <2>1. to \in Places /\ Moves(i, "check", to)
    BY PlaceSets DEF Check
  <2> HIDE DEF to
  <2> QED
    BY <1>1, <2>1, MoveFacts
<1>3. StoreTypeOK' /\ DatabaseInv'
  BY <1>1, <1>2 DEF Check, StoreTypeOK, DatabaseInv, locals, history, Places
<1>4. database.project /\ database.version = Current
  BY <1>1 DEF Check, DatabaseInv
<1>5. OwnInv(i)'
  BY <1>1, <1>2, <1>4, PlaceSets
  DEF Check, OwnInv, CommandInv, MigrationInv, ImportInv, locals, Imports
<1>6. OthersUntouched(i) /\ Advances(i)
  BY <1>2, NoOtherCreates DEF Check, OthersUntouched, Advances, locals
<1> QED
  BY <1>3, <1>5, <1>6, Assemble

(***************************************************************************)
(* The start of a proxy.                                                   *)
(***************************************************************************)
LEMMA StartsProxySound ==
    ASSUME StoreInv, NEW i \in Instances, NEW j, StartsProxy(i, j) PROVE StoreInv'
<1>1. StoreTypeOK /\ DatabaseInv /\ OwnInv(i)
  BY OwnInvHolds DEF StoreInv
<1>2. /\ pc[i] = "start" /\ pc'[i] = "idle" /\ \A k \in Instances \ {i} : pc'[k] = pc[k]
      /\ pc' \in [Instances -> Places]
  BY <1>1, MoveFacts, PlaceSets DEF StartsProxy
<1>3. /\ j \in JobIds /\ database.jobs[j].type = "proxy" /\ Refers(database, j)
      /\ database' = SetStatus(database, j, "running")
      /\ writer = "none" /\ writer' = writer /\ work' = work
  BY DEF StartsProxy, Proxies, StatusIsRead, Refers
<1>4. /\ database \in Contents /\ database.project /\ database.version = Current
      /\ database.recorded = Current /\ database.scripts = 1..(Current - 1)
      /\ RowsAreSound(database, Current)
  BY <1>1, <1>2, PlaceSets DEF OwnInv, CommandInv, StoreTypeOK, DatabaseInv
<1>5. SoundChange(database, database', {})
  <2>1. SoundChange(database, SetStatus(database, j, "running"), {})
    BY <1>3, <1>4, ClaimSound
  <2> QED
    BY <1>3, <2>1
<1>6. DatabaseInv'
  <2>1. Current # 0
    BY DEF Current
  <2> QED
    BY <1>4, <1>5, <2>1 DEF DatabaseInv, SameSchema, SoundChange
<1>7. StoreTypeOK'
  BY <1>1, <1>2, <1>3, <1>5 DEF StartsProxy, StoreTypeOK, SoundChange, locals, Places
<1>8. OwnInv(i)'
  BY <1>1, <1>2, <1>3, PlaceSets
  DEF StartsProxy, OwnInv, CommandInv, MigrationInv, ImportInv, locals
<1>9. OthersUntouched(i) /\ Advances(i)
  BY <1>2, <1>3, <1>4, <1>5, NoOtherCreates, Identities
  DEF StartsProxy, OthersUntouched, Advances, SoundChange, SameSchema, locals
<1> QED
  BY <1>6, <1>7, <1>8, <1>9, Assemble

LEMMA StartRefusedSound ==
    ASSUME StoreInv, NEW i \in Instances, NEW j, StartRefused(i, j) PROVE StoreInv'
<1>1. StoreTypeOK /\ DatabaseInv /\ OwnInv(i)
  BY OwnInvHolds DEF StoreInv
<1>2. /\ pc[i] = "start" /\ pc'[i] = "idle" /\ \A k \in Instances \ {i} : pc'[k] = pc[k]
      /\ pc' \in [Instances -> Places]
  BY <1>1, MoveFacts, PlaceSets DEF StartRefused
<1>3. StoreTypeOK' /\ DatabaseInv'
  BY <1>1, <1>2 DEF StartRefused, Proxies, StoreTypeOK, DatabaseInv, locals, Places
<1>4. OwnInv(i)'
  BY <1>1, <1>2, PlaceSets
  DEF StartRefused, OwnInv, CommandInv, MigrationInv, ImportInv, locals
<1>5. OthersUntouched(i) /\ Advances(i)
  BY <1>2, NoOtherCreates DEF StartRefused, OthersUntouched, Advances, locals
<1> QED
  BY <1>3, <1>4, <1>5, Assemble

(***************************************************************************)
(* The statements of an import.                                            *)
(***************************************************************************)
LEMMA InsertSubjectSound ==
    ASSUME StoreInv, NEW i \in Instances, InsertSubject(i) PROVE StoreInv'
<1>1. StoreTypeOK /\ DatabaseInv /\ OwnInv(i)
  BY OwnInvHolds DEF StoreInv
<1>2. /\ pc[i] = "import" /\ pc'[i] = "begun" /\ \A k \in Instances \ {i} : pc'[k] = pc[k]
      /\ pc' \in [Instances -> Places]
  BY <1>1, MoveFacts, PlaceSets DEF InsertSubject
<1>3. StoreTypeOK' /\ DatabaseInv'
  BY <1>1, <1>2 DEF InsertSubject, Begin, StoreTypeOK, DatabaseInv, locals, history, Places
<1>4. OwnInv(i)'
  BY <1>1, <1>2, PlaceSets
  DEF InsertSubject, Begin, OwnInv, CommandInv, MigrationInv, ImportInv, locals
<1>5. OthersUntouched(i) /\ Advances(i)
  BY <1>2, NoOtherCreates, Identities DEF InsertSubject, Begin, OthersUntouched, Advances, locals
<1> QED
  BY <1>3, <1>4, <1>5, Assemble

\* a statement of an import changes the copy of its instance only
LEMMA ImportStatement ==
    ASSUME StoreInv, NEW i \in Instances, pc[i] \in {"begun", "rows"},
           pc' \in [Instances -> Places], \A k \in Instances \ {i} : pc'[k] = pc[k],
           pc'[i] \in {"rows", "commit"}, Statement(i, work'), work' \in Contents,
           UNCHANGED locals, UNCHANGED history, ImportInv(i)'
    PROVE  StoreInv'
<1>1. StoreTypeOK /\ DatabaseInv /\ OwnInv(i)
  BY OwnInvHolds DEF StoreInv
<1>2. writer = i /\ writer' = i /\ database' = database
  BY DEF Statement
<1>3. StoreTypeOK' /\ DatabaseInv'
  BY <1>1, <1>2 DEF StoreTypeOK, DatabaseInv, locals, history, Places
<1>4. OwnInv(i)'
  BY <1>1, <1>2, PlaceSets DEF OwnInv, CommandInv, MigrationInv, locals
<1>5. OthersUntouched(i) /\ Advances(i)
  BY <1>2, NoOtherCreates, Identities DEF OthersUntouched, Advances, locals
<1> QED
  BY <1>3, <1>4, <1>5, Assemble

LEMMA RowIsRow ==
    ASSUME NEW operation \in Imports, NEW n \in Nat, NEW all \in Nat
    PROVE  RowOf(operation, n, all) \in RowOfTable
BY DEF RowOf, RowOfTable, TableOf, RowStatuses

LEMMA RowInContents ==
    ASSUME NEW db \in Contents, NEW i \in SubjectIds, NEW row \in RowOfTable
    PROVE  /\ [db EXCEPT !.subjects[i] = row] \in Contents
           /\ [db EXCEPT !.subjects[i] = row].subjects[i] = row
<1>1. db.subjects \in [SubjectIds -> RowOfTable]
  BY DEF Contents, RowOfTable
<1> DEFINE S == [db.subjects EXCEPT ![i] = row]
<1>2. S \in [SubjectIds -> RowOfTable] /\ S[i] = row
  BY <1>1
<1>3. [db EXCEPT !.subjects[i] = row] = [db EXCEPT !.subjects = S]
  BY DEF Contents
<1> HIDE DEF S
<1> QED
  BY <1>2, <1>3 DEF Contents, RowOfTable

LEMMA InsertRowSound ==
    ASSUME StoreInv, NEW i \in Instances, InsertRow(i) PROVE StoreInv'
<1>1. StoreTypeOK /\ OwnInv(i)
  BY OwnInvHolds DEF StoreInv
<1>2. /\ pc[i] = "begun" /\ pc'[i] = "rows" /\ \A k \in Instances \ {i} : pc'[k] = pc[k]
      /\ pc' \in [Instances -> Places]
  BY <1>1, MoveFacts, PlaceSets DEF InsertRow
<1>3. /\ work = database /\ work \in Contents /\ op[i] \in Imports /\ Len(source[i]) \in Nat
      /\ i \in SubjectIds
  BY <1>1, <1>2, PlaceSets, Identities DEF OwnInv, CommandInv, ImportInv, StoreTypeOK
<1>4. work' = [work EXCEPT !.subjects[i] = RowOf(op[i], 0, Len(source[i]))]
  BY DEF InsertRow, Statement, RowOf
<1>5. work' \in Contents /\ work'.subjects[i] = RowOf(op[i], 0, Len(source[i]))
  <2>1. RowOf(op[i], 0, Len(source[i])) \in RowOfTable
    BY <1>3, RowIsRow
  <2> QED
    BY <1>3, <1>4, <2>1, RowInContents
<1>6. work'.subjects[i].rows = 0
  BY <1>5 DEF RowOf
<1>7. ImportInv(i)'
  BY <1>2, <1>3, <1>4, <1>6 DEF InsertRow, Statement, ImportInv, locals
<1> QED
  BY <1>2, <1>5, <1>7, ImportStatement DEF InsertRow, Statement

\* the rows of an import between two statements
LEMMA RowsSoFar ==
    ASSUME StoreInv, NEW i \in Instances, pc[i] = "rows"
    PROVE  /\ work \in Contents /\ database \in Contents /\ op[i] \in Imports
           /\ Len(source[i]) \in Nat /\ work.subjects[i].rows \in Nat /\ i \in SubjectIds
           /\ i \in JobIds
           /\ work.subjects[i] = RowOf(op[i], work.subjects[i].rows, Len(source[i]))
           /\ work = [database EXCEPT !.subjects[i] =
                         RowOf(op[i], work.subjects[i].rows, Len(source[i]))]
<1>1. StoreTypeOK /\ OwnInv(i)
  BY OwnInvHolds DEF StoreInv
<1>2. /\ op[i] \in Imports /\ Len(source[i]) \in Nat /\ i \in SubjectIds /\ i \in JobIds
      /\ work \in Contents /\ database \in Contents
      /\ work = [database EXCEPT !.subjects[i] =
                         RowOf(op[i], work.subjects[i].rows, Len(source[i]))]
  BY <1>1, PlaceSets, Identities DEF OwnInv, CommandInv, ImportInv, StoreTypeOK
<1>3. work.subjects[i].rows \in Nat
  BY <1>2 DEF Contents
<1> DEFINE row == RowOf(op[i], work.subjects[i].rows, Len(source[i]))
<1>4. row \in RowOfTable /\ work = [database EXCEPT !.subjects[i] = row]
  BY <1>2, <1>3, RowIsRow
<1> HIDE DEF row
<1>5. work.subjects[i] = row
  BY <1>2, <1>4, RowInContents
<1> QED
  BY <1>2, <1>3, <1>4, <1>5 DEF row

LEMMA InsertNextSound ==
    ASSUME StoreInv, NEW i \in Instances, InsertNext(i) PROVE StoreInv'
<1>1. StoreTypeOK
  BY DEF StoreInv
<1>2. pc[i] = "rows" /\ pc' = pc /\ pc \in [Instances -> Places]
  BY <1>1, TypeParts DEF InsertNext
<1> DEFINE n == work.subjects[i].rows all == Len(source[i])
<1>3. /\ work \in Contents /\ database \in Contents /\ op[i] \in Imports /\ all \in Nat /\ n \in Nat
      /\ i \in SubjectIds
      /\ work.subjects[i] = RowOf(op[i], n, all)
      /\ work = [database EXCEPT !.subjects[i] = RowOf(op[i], n, all)]
  BY <1>2, RowsSoFar
<1>4. Statement(i, work') /\ work' = [work EXCEPT !.subjects[i].rows = n + 1]
  BY DEF InsertNext, Statement
<1> HIDE DEF n, all
<1>5. work' = [work EXCEPT !.subjects[i] = RowOf(op[i], n + 1, all)]
  <2>1. [RowOf(op[i], n, all) EXCEPT !.rows = n + 1] = RowOf(op[i], n + 1, all)
    BY DEF RowOf
  <2> QED
    BY <1>3, <1>4, <2>1 DEF Contents
<1>6. work' = [database EXCEPT !.subjects[i] = RowOf(op[i], n + 1, all)]
  BY <1>3, <1>5 DEF Contents
<1>7. work' \in Contents /\ work'.subjects[i].rows = n + 1
  <2>1. RowOf(op[i], n + 1, all) \in RowOfTable /\ RowOf(op[i], n + 1, all).rows = n + 1
    BY <1>3, RowIsRow DEF RowOf
  <2> QED
    BY <1>3, <1>5, <2>1, RowInContents
<1>8. ImportInv(i)'
  BY <1>2, <1>4, <1>6, <1>7 DEF InsertNext, Statement, ImportInv, locals, all
<1> QED
  BY <1>2, <1>4, <1>7, <1>8, ImportStatement DEF InsertNext

LEMMA InsertJobSound ==
    ASSUME StoreInv, NEW i \in Instances, InsertJob(i) PROVE StoreInv'
<1>1. StoreTypeOK /\ OwnInv(i) /\ DatabaseInv
  BY OwnInvHolds DEF StoreInv
<1>2. /\ pc[i] = "rows" /\ pc'[i] = "commit" /\ \A k \in Instances \ {i} : pc'[k] = pc[k]
      /\ pc' \in [Instances -> Places]
  BY <1>1, MoveFacts, PlaceSets DEF InsertJob
<1> DEFINE all == Len(source[i])
<1>3. /\ work \in Contents /\ database \in Contents /\ op[i] \in Imports /\ all \in Nat
      /\ work = [database EXCEPT !.subjects[i] = RowOf(op[i], all, all)]
  BY <1>2, RowsSoFar DEF InsertJob
<1>4. Statement(i, work') /\ work' = [work EXCEPT !.jobs[i] = Queued(i, op[i])]
  BY DEF InsertJob, Statement, Queued
<1> HIDE DEF all
<1>5. work' = Imported(database, i, op[i], all)
  BY <1>3, <1>4 DEF Imported, Contents
<1>6. /\ RowsAreSound(database, Current) /\ database.subjects[i] = NoRow
  BY <1>1, <1>2, <1>3, PlaceSets DEF OwnInv, CommandInv, DatabaseInv
<1>7. work' \in Contents
  BY <1>3, <1>5, <1>6, ImportSound DEF SoundChange
<1>8. ImportInv(i)'
  BY <1>2, <1>4, <1>5 DEF InsertJob, Statement, ImportInv, locals, all
<1> QED
  BY <1>2, <1>4, <1>7, <1>8, ImportStatement DEF InsertJob

LEMMA CommitImportSound ==
    ASSUME StoreInv, NEW i \in Instances, CommitImport(i) PROVE StoreInv'
<1>1. StoreTypeOK /\ DatabaseInv /\ OwnInv(i)
  BY OwnInvHolds DEF StoreInv
<1>2. /\ pc[i] = "commit" /\ pc'[i] = "idle" /\ \A k \in Instances \ {i} : pc'[k] = pc[k]
      /\ pc' \in [Instances -> Places]
  BY <1>1, MoveFacts, PlaceSets DEF CommitImport
<1>3. writer = i /\ writer' = "none" /\ work' = Nothing /\ database' = work
  BY DEF CommitImport, Commit
<1>4. /\ database \in Contents /\ op[i] \in Imports /\ Len(source[i]) \in Nat
      /\ database.project /\ database.version = Current /\ database.recorded = Current
      /\ database.scripts = 1..(Current - 1) /\ RowsAreSound(database, Current)
      /\ database.subjects[i] = NoRow
      /\ work = Imported(database, i, op[i], Len(source[i]))
  BY <1>1, <1>2, PlaceSets DEF OwnInv, CommandInv, ImportInv, DatabaseInv, StoreTypeOK
<1>5. SoundChange(database, database', {i})
  <2>1. SoundChange(database, Imported(database, i, op[i], Len(source[i])), {i})
    BY <1>4, ImportSound
  <2> QED
    BY <1>3, <1>4, <2>1
<1>6. DatabaseInv'
  <2>1. Current # 0
    BY DEF Current
  <2> QED
    BY <1>4, <1>5, <2>1 DEF DatabaseInv, SameSchema, SoundChange
<1>7. StoreTypeOK'
  BY <1>1, <1>2, <1>3, <1>5, NothingSound
  DEF CommitImport, StoreTypeOK, SoundChange, locals, history, Places
<1>8. OwnInv(i)'
  BY <1>1, <1>2, <1>3, PlaceSets, Identities
  DEF CommitImport, OwnInv, CommandInv, MigrationInv, ImportInv, locals
<1>9. OthersUntouched(i) /\ Advances(i)
  BY <1>2, <1>3, <1>4, <1>5, NoOtherCreates, Identities
  DEF CommitImport, OthersUntouched, Advances, SoundChange, SameSchema, locals
<1> QED
  BY <1>6, <1>7, <1>8, <1>9, Assemble

(***************************************************************************)
(* The inductive invariant holds.                                          *)
(***************************************************************************)
LEMMA StoreInvStep == StoreInv /\ [StoreNext]_storeVars => StoreInv'
<1> SUFFICES ASSUME StoreInv, [StoreNext]_storeVars PROVE StoreInv'
  OBVIOUS
<1>1. ASSUME NEW i \in Instances, EndWithError(i), UNCHANGED refused PROVE StoreInv'
  BY <1>1, EndingSound DEF EndWithError, Moves, StoreInv, StoreTypeOK
<1>2. ASSUME NEW i \in Instances, Crash(i) PROVE StoreInv'
  <2>1. ran' \in [Instances -> SUBSET JobIds] /\ refused' \subseteq JobIds
    BY <1>2 DEF Crash, StoreInv, StoreTypeOK
  <2> QED
    BY <1>2, <2>1, EndingSound DEF Crash
<1>3. CASE UNCHANGED storeVars
  BY <1>3 DEF storeVars, StoreInv, StoreTypeOK, WriterInv, CreationInv, DatabaseInv, CommandInv,
              MigrationInv, ImportInv
<1>4. ASSUME NEW i \in Instances,
             \/ Create(i) \/ CreateStep(i) \/ CreateFails(i)
             \/ \E operation \in Operations : Open(i, operation)
             \/ ReadVersion(i) \/ BeginMigration(i) \/ RunScript(i) \/ ScriptFails(i)
             \/ CommitMigration(i) \/ Check(i) \/ CheckFails(i)
      PROVE  StoreInv'
  BY <1>1, <1>4, CreateSound, CreateStepSound, CreateFailsSound, OpenSound, ReadVersionSound,
     BeginMigrationSound, RunScriptSound, CommitMigrationSound, CheckSound
  DEF ScriptFails, CheckFails
<1>5. ASSUME NEW i \in Instances,
             \/ \E j \in Proxies : StartsProxy(i, j) \/ StartRefused(i, j)
             \/ InsertSubject(i) \/ InsertRow(i) \/ InsertNext(i) \/ InsertFails(i)
             \/ InsertJob(i) \/ CommitImport(i) \/ Fail(i)
      PROVE  StoreInv'
  BY <1>1, <1>5, StartsProxySound, StartRefusedSound, InsertSubjectSound, InsertRowSound,
     InsertNextSound, InsertJobSound, CommitImportSound
  DEF InsertFails, Fail
<1> QED
  BY <1>2, <1>3, <1>4, <1>5 DEF StoreNext

LEMMA StoreInvHolds == StoreSpec => []StoreInv
BY StoreInvInit, StoreInvStep, PTL DEF StoreSpec

(***************************************************************************)
(* What is committed, the transaction that writes and every command keep   *)
(* their types, for any number of instances, found projects, sources and   *)
(* faults (create_project_at, migrate_database).                           *)
(***************************************************************************)
THEOREM StoreTypeCorrect == StoreSpec => []StoreTypeOK
<1>1. StoreInv => StoreTypeOK
  BY DEF StoreInv
<1> QED
  BY <1>1, StoreInvHolds, PTL

(***************************************************************************)
(* The tables are those of the version, and commands go on only in whole   *)
(* projects of this release, whoever migrates at the same time, fails or   *)
(* crashes (create_project, migrate_database).                             *)
(***************************************************************************)
THEOREM SchemaStaysOneVersion == StoreSpec => []SchemaIsOneVersion
BY StoreInvHolds, StoreInvImplies, PTL

(***************************************************************************)
(* Every import is stored whole or not at all, and every reference of a    *)
(* job is to a row that is there (the import functions of the store).      *)
(***************************************************************************)
THEOREM ImportsAreWhole == StoreSpec => []ImportIsWhole
BY StoreInvHolds, StoreInvImplies, PTL

(***************************************************************************)
(* In a project of this release waiting and running jobs agree with the    *)
(* rows of their subjects, whichever release they come from (the scripts   *)
(* of the migrations).                                                     *)
(***************************************************************************)
THEOREM MigratedRowsAgree == StoreSpec => []OpenedRowsAgree
BY StoreInvHolds, StoreInvImplies, PTL
=============================================================================
