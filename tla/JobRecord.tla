------------------------------ MODULE JobRecord ------------------------------
(***************************************************************************)
(* The record file of one dependency installation: DependencyManager::     *)
(* update_job, persist_job and recover_interrupted_state                   *)
(* (src-tauri/src/dependency_manager.rs).                                  *)
(*                                                                         *)
(* update_job changes the job under the mutex of the jobs map and writes   *)
(* the copy it took to <job>.json after it has let the mutex go.  Two      *)
(* threads do so for one job: its worker, and the main thread when it      *)
(* starts or cancels the job or recovers it at launch.  Both write through *)
(* the same temporary file and keep the record before in the same          *)
(* .previous file.  Jobs have files of their own, so one job is enough.    *)
(*                                                                         *)
(* Faults: "disk" any file call fails, "crash" the application ends at any *)
(* moment and is launched again.  The names that other modules have as     *)
(* well begin with Record, so that both can be extended together.          *)
(***************************************************************************)
EXTENDS Naturals, FiniteSets

CONSTANT RecordFaults

ASSUME RecordAssumption == RecordFaults \subseteq {"disk", "crash"}

VARIABLES
    memory,           \* status of the job in the jobs map, "absent" if it is not there
    files,            \* what the temporary, final and previous files hold
    handle,           \* where the file a thread has open is now
    step,             \* where a thread stands in persist_job
    copy,             \* the status a thread is writing
    task,             \* what the main thread does
    worker,           \* whether the thread of the job runs
    cancelRequested,  \* whether the job is in the cancellations set
    accepted,         \* whether start has answered with the job
    outcome,          \* history: how the job ended, before it was written anywhere
    interfered        \* history: the user cancelled, or a file call failed

recordVars == <<memory, files, handle, step, copy, task, worker, cancelRequested, accepted,
                outcome, interfered>>
callerVars == <<memory, task, worker, cancelRequested, accepted, outcome>>

Threads == {"main", "worker"}
Paths == {"temporary", "final", "previous"}
Interruptible == {"queued", "downloading", "installing"}
Terminal == {"ready", "failed", "cancelled"}
Readable == Interruptible \union Terminal
FileContents == Readable \union {"missing", "empty", "torn"}
Steps == {"idle", "create", "write", "look", "dropPrevious", "backup", "publish",
          "restore", "clean", "ok", "error"}
Tasks == {"down", "idle", "starting", "cancelling", "cancelWriting", "recovering"}

RecordInit ==
    /\ memory = "absent"
    /\ files = [p \in Paths |-> "missing"]
    /\ handle = [t \in Threads |-> "none"]
    /\ step = [t \in Threads |-> "idle"]
    /\ copy = [t \in Threads |-> "queued"]
    /\ task = "idle"
    /\ worker = FALSE
    /\ cancelRequested = FALSE
    /\ accepted = FALSE
    /\ outcome = "none"
    /\ interfered = FALSE

-----------------------------------------------------------------------------
(* persist_job, one file call at a time.                                   *)

Goto(t, from, to) ==
    /\ step[t] = from
    /\ step' = [step EXCEPT ![t] = to]

\* persist_job returns and its file is closed
Return(t, result) ==
    /\ Goto(t, result, "idle")
    /\ handle' = [handle EXCEPT ![t] = "none"]

\* open files follow the file they are; the one that is replaced has no name left
Rename(from, to) ==
    /\ files' = [files EXCEPT ![to] = files[from], ![from] = "missing"]
    /\ handle' = [t \in Threads |-> CASE handle[t] = from -> to
                                      [] handle[t] = to   -> "unlinked"
                                      [] OTHER            -> handle[t]]

Remove(path) ==
    /\ files' = [files EXCEPT ![path] = "missing"]
    /\ handle' = [t \in Threads |-> IF handle[t] = path THEN "unlinked" ELSE handle[t]]

\* File::create truncates the file the other thread may be writing
CreateTemporary(t) ==
    /\ Goto(t, "create", "write")
    /\ files' = [files EXCEPT !["temporary"] = "empty"]
    /\ handle' = [handle EXCEPT ![t] = "temporary"]
    /\ UNCHANGED <<copy, callerVars, interfered>>

\* write_all from offset 0, and sync_all: over the text of the other thread the
\* result is this record or a mixture of the two
WriteTemporary(t) ==
    /\ Goto(t, "write", "look")
    /\ \/ handle[t] = "unlinked" /\ UNCHANGED files
       \/ handle[t] \in Paths /\ files' = [files EXCEPT ![handle[t]] = copy[t]]
       \/ /\ handle[t] \in Paths /\ files[handle[t]] # "empty"
          /\ files' = [files EXCEPT ![handle[t]] = "torn"]
    /\ UNCHANGED <<handle, copy, callerVars, interfered>>

\* final_path.exists()
LookForFinal(t) ==
    /\ IF files["final"] = "missing"
       THEN Goto(t, "look", "publish")
       ELSE Goto(t, "look", "dropPrevious")
    /\ UNCHANGED <<files, handle, copy, callerVars, interfered>>

DropPrevious(t) ==
    /\ Goto(t, "dropPrevious", "backup")
    /\ \/ Remove("previous") /\ UNCHANGED interfered
       \/ "disk" \in RecordFaults /\ interfered' = TRUE /\ UNCHANGED <<files, handle>>
    /\ UNCHANGED <<copy, callerVars>>

\* mutant: the record is removed to make room
RemoveFinal(t) ==
    /\ files["final"] # "missing"
    /\ Goto(t, "backup", "publish")
    /\ Remove("final")
    /\ UNCHANGED <<copy, callerVars, interfered>>

BackupFinal(t) ==
    /\ files["final"] # "missing"
    /\ Goto(t, "backup", "publish")
    /\ Rename("final", "previous")
    /\ UNCHANGED <<copy, callerVars, interfered>>

PublishTemporary(t) ==
    /\ files["temporary"] # "missing"
    /\ Goto(t, "publish", "clean")
    /\ Rename("temporary", "final")
    /\ UNCHANGED <<copy, callerVars, interfered>>

PublishTemporaryFails(t) ==
    /\ files["temporary"] = "missing" \/ "disk" \in RecordFaults
    /\ Goto(t, "publish", "restore")
    /\ interfered' = TRUE
    /\ UNCHANGED <<files, handle, copy, callerVars>>

\* put the previous record back if it is there; the result is discarded
RestorePrevious(t) ==
    /\ Goto(t, "restore", "error")
    /\ \/ files["previous"] # "missing" /\ Rename("previous", "final")
       \/ /\ files["previous"] = "missing" \/ "disk" \in RecordFaults
          /\ UNCHANGED <<files, handle>>
    /\ UNCHANGED <<copy, callerVars, interfered>>

CleanPrevious(t) ==
    /\ Goto(t, "clean", "ok")
    /\ \/ Remove("previous") /\ UNCHANGED interfered
       \/ "disk" \in RecordFaults /\ interfered' = TRUE /\ UNCHANGED <<files, handle>>
    /\ UNCHANGED <<copy, callerVars>>

\* creating, writing or renaming the final file fails; the write may have begun
PersistFails(t) ==
    /\ \/ "disk" \in RecordFaults /\ Goto(t, "create", "error") /\ UNCHANGED files
       \/ /\ "disk" \in RecordFaults /\ Goto(t, "write", "error")
          /\ \/ UNCHANGED files
             \/ handle[t] \in Paths /\ files' = [files EXCEPT ![handle[t]] = "torn"]
       \/ /\ "disk" \in RecordFaults \/ files["final"] = "missing"
          /\ Goto(t, "backup", "error") /\ UNCHANGED files
    /\ interfered' = TRUE
    /\ UNCHANGED <<handle, copy, callerVars>>

Persist(t) ==
    \/ CreateTemporary(t) \/ WriteTemporary(t) \/ LookForFinal(t)
    \/ DropPrevious(t) \/ BackupFinal(t) \/ PublishTemporary(t) \/ PublishTemporaryFails(t)
    \/ RestorePrevious(t) \/ CleanPrevious(t) \/ PersistFails(t)

-----------------------------------------------------------------------------
(* The callers: start, cancel and recovery on the main thread, run_job on  *)
(* its own.                                                                *)

\* update_job changes the job, takes a copy and starts to persist it
Update(t, status) ==
    /\ Goto(t, "idle", "create")
    /\ memory' = status
    /\ copy' = [copy EXCEPT ![t] = status]
    /\ UNCHANGED <<files, handle>>

\* start inserts the job under a new identity and persists it
StartInserts ==
    /\ task = "idle" /\ memory = "absent" /\ ~accepted
    /\ \A p \in Paths : files[p] = "missing"
    /\ Update("main", "queued")
    /\ task' = "starting"
    /\ UNCHANGED <<worker, cancelRequested, accepted, outcome, interfered>>

\* a start that cannot persist is refused: the job stays in the map without a thread
StartReturns ==
    /\ task = "starting"
    /\ \/ Return("main", "ok") /\ accepted' = TRUE /\ worker' = TRUE
       \/ Return("main", "error") /\ UNCHANGED <<accepted, worker>>
    /\ task' = "idle"
    /\ UNCHANGED <<memory, files, copy, cancelRequested, outcome, interfered>>

\* run_job: downloads and installs, one component after the other
Advance ==
    /\ worker
    /\ \/ memory \in Interruptible /\ Update("worker", "downloading") /\ UNCHANGED outcome
       \/ memory = "downloading" /\ Update("worker", "installing") /\ UNCHANGED outcome
       \/ memory = "installing" /\ Update("worker", "ready") /\ outcome' = "ready"
    /\ UNCHANGED <<task, worker, cancelRequested, accepted, interfered>>

\* finish_cancelled and finish_failed
GiveUp ==
    /\ worker
    /\ memory \in {"downloading", "installing"}
    /\ outcome' = IF cancelRequested THEN "cancelled" ELSE "failed"
    /\ Update("worker", outcome')
    /\ UNCHANGED <<task, worker, cancelRequested, accepted, interfered>>

\* update_job discards what persist_job answers; the thread ends with a finished job
WorkerContinues ==
    /\ \E result \in {"ok", "error"} : Return("worker", result)
    /\ worker' = (memory \notin Terminal)
    /\ UNCHANGED <<memory, files, copy, task, cancelRequested, accepted, outcome, interfered>>

\* cancel looks at the status and adds the job to the cancellations
CancelLooks ==
    /\ task = "idle" /\ memory \in Interruptible
    /\ cancelRequested' = TRUE
    /\ task' = "cancelling"
    /\ interfered' = TRUE
    /\ UNCHANGED <<memory, files, handle, step, copy, worker, accepted, outcome>>

\* cancel then changes the detail of whatever the job has become
CancelUpdates ==
    /\ task = "cancelling"
    /\ Update("main", memory)
    /\ task' = "cancelWriting"
    /\ UNCHANGED <<worker, cancelRequested, accepted, outcome, interfered>>

CancelReturns ==
    /\ task = "cancelWriting"
    /\ \E result \in {"ok", "error"} : Return("main", result)
    /\ task' = "idle"
    /\ UNCHANGED <<memory, files, copy, worker, cancelRequested, accepted, outcome, interfered>>

Crash ==
    /\ "crash" \in RecordFaults
    /\ task' = "down"
    /\ memory' = "absent" /\ worker' = FALSE /\ cancelRequested' = FALSE
    /\ step' = [t \in Threads |-> "idle"]
    /\ handle' = [t \in Threads |-> "none"]
    /\ UNCHANGED <<files, copy, accepted, outcome, interfered>>

\* mutant: a recovered job keeps its status
RecoveredAsRead(status) == status

\* mutant: a job cut short counts as cancelled
RecoveredAsCancelled(status) == IF status \in Interruptible THEN "cancelled" ELSE status

\* what recover_interrupted_state makes of a status it reads
Recovered(status) == IF status \in Interruptible THEN "failed" ELSE status

\* launch: only <job>.json is read, and only if it parses
Launch ==
    /\ task = "down" /\ files["final"] \notin Interruptible
    /\ task' = "idle"
    /\ memory' = IF files["final"] \in Terminal THEN Recovered(files["final"]) ELSE "absent"
    /\ UNCHANGED <<files, handle, step, copy, worker, cancelRequested, accepted, outcome,
                   interfered>>

\* an unfinished job is persisted before it is inserted
LaunchRecovers ==
    /\ task = "down" /\ files["final"] \in Interruptible
    /\ Goto("main", "idle", "create")
    /\ copy' = [copy EXCEPT !["main"] = Recovered(files["final"])]
    /\ task' = "recovering"
    /\ UNCHANGED <<memory, files, handle, worker, cancelRequested, accepted, outcome,
                   interfered>>

\* without a record load fails and the application does not start
RecoveryReturns ==
    /\ task = "recovering"
    /\ \/ Return("main", "ok") /\ memory' = copy["main"] /\ task' = "idle"
       \/ Return("main", "error") /\ task' = "down" /\ UNCHANGED memory
    /\ UNCHANGED <<files, copy, worker, cancelRequested, accepted, outcome, interfered>>

RecordNext ==
    \/ \E t \in Threads : Persist(t)
    \/ StartInserts \/ StartReturns \/ Advance \/ GiveUp \/ WorkerContinues
    \/ CancelLooks \/ CancelUpdates \/ CancelReturns
    \/ Crash \/ Launch \/ LaunchRecovers \/ RecoveryReturns

RecordSpec == RecordInit /\ [][RecordNext]_recordVars

-----------------------------------------------------------------------------
RecordTypeOK ==
    /\ memory \in Readable \union {"absent"}
    /\ files \in [Paths -> FileContents]
    /\ handle \in [Threads -> Paths \union {"none", "unlinked"}]
    /\ step \in [Threads -> Steps]
    /\ copy \in [Threads -> Readable]
    /\ task \in Tasks
    /\ worker \in BOOLEAN /\ cancelRequested \in BOOLEAN
    /\ accepted \in BOOLEAN /\ outcome \in Terminal \union {"none"}
    /\ interfered \in BOOLEAN

(* No job waits for a thread that is not there: an accepted job that is      *)
(* unfinished in the jobs map has its worker, whatever launches, crashes and *)
(* failing files were before (recover_interrupted_state fails such jobs).    *)
UnfinishedJobHasWorker == accepted /\ memory \in Interruptible => worker

(* No launch tells a false story: a job the jobs map calls ready or cancelled *)
(* did end so, whichever crash, older copy or mixture of two writers the      *)
(* record went through (persist_job, recover_interrupted_state).              *)
OutcomeIsTrue == memory \in {"ready", "cancelled"} => outcome = memory

\* once a job has ended and no thread is writing, the record tells how it ended
EndIsOnDisk == memory \in Terminal /\ ~worker /\ task = "idle" => files["final"] = memory

(* With one writer and no failing call a record of an accepted job survives   *)
(* in one of the two files through every crash, and once the job has ended it *)
(* is in its place and says how (the renames of persist_job).                 *)
OneCopySurvives ==
    ~interfered =>
        /\ accepted => files["final"] \in Readable \/ files["previous"] \in Readable
        /\ EndIsOnDisk

-----------------------------------------------------------------------------
(* What the documents say and the code does not do.                          *)

(* project-handoff.md: the installer persists job state for restart recovery. *)
JobStatePersisted == EndIsOnDisk
=============================================================================
