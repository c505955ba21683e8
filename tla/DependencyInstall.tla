-------------------------- MODULE DependencyInstall --------------------------
(***************************************************************************)
(* The managed components: DependencyManager::start, cancel, remove,       *)
(* run_job, install_one, promote_owned_directory and load                  *)
(* (src-tauri/src/dependency_manager.rs).                                  *)
(*                                                                         *)
(* Every accepted request gets a thread of its own that installs its       *)
(* components in the order of the request.  Nothing keeps two threads, or  *)
(* a thread and a removal, from the same component directory; they meet in *)
(* renames.  A directory is replaced by moving it to a backup of the job   *)
(* and the staged payload into its place.                                  *)
(*                                                                         *)
(* The records of jobs on disk are the subject of JobRecord; here a launch *)
(* finds every record.  A removal takes effect at one moment between its   *)
(* check of the marker and its end.                                        *)
(*                                                                         *)
(* Faults: "network" a download fails, "silence" its server stops sending  *)
(* without closing the connection, "process" a program of an installation  *)
(* keeps a stream open or a reader of one cannot be started, "payload" the *)
(* staged payload cannot be renamed, "disk" any file call or installation  *)
(* step fails, "crash" the application ends at any moment and is launched  *)
(* again.                                                                  *)
(***************************************************************************)
EXTENDS Naturals, Sequences, FiniteSets

CONSTANTS Components,
          Dependencies,  \* catalog: the components a component needs
          Jobs,
          Requests,      \* the component lists that pass the checks of start on the
                         \* catalog: no repetition, available, licenses accepted
          Installed,     \* components installed by earlier launches
          Foreign,       \* components whose directory belongs to someone else
          Faults

NotOwned == {"none", "foreign", "markerLost", "filesLost"}

ASSUME InstallAssumption ==
    /\ Dependencies \in [Components -> SUBSET Components]
    /\ Requests \subseteq Seq(Components) \ {<<>>}
    /\ \A request \in Requests : \A i, k \in DOMAIN request :
           request[i] = request[k] => i = k
    /\ Installed \subseteq Components
    /\ Foreign \subseteq Components \ Installed
    /\ "original" \notin Jobs \union NotOwned
    /\ Jobs \intersect NotOwned = {}

VARIABLES
    status,     \* status of the job in the jobs map, "absent" before start
    pending,    \* the components its thread has not installed yet
    phase,      \* where its thread stands, "idle" when there is none
    cancelled,  \* the cancellations set
    target,     \* what the directory of a component holds: the payload of a job,
                \* "original", or something that is not owned
    backup,     \* what the backup directory of a job beside a component holds
    removing,   \* the components that remove has checked and not yet removed
    expected,   \* history: installed, and not removed by the user since
    disturbed   \* history: the rename of a rollback failed, a removal stopped half-way,
                \* or the application ended inside a promotion

jobVars == <<status, pending, phase, cancelled>>
diskVars == <<target, backup, expected, disturbed>>
vars == <<jobVars, diskVars, removing>>

Owned == Jobs \union {"original"}
Contents == Owned \union NotOwned
Unfinished == {"queued", "downloading", "installing"}
Finished == {"ready", "failed", "cancelled"}
BeforePromotion == {"fetch", "unpack", "seal"}
Promotion == {"look", "backup", "publish", "rollBack", "dropBackup"}
Installing == BeforePromotion \union Promotion \union {"error"}
Phases == Installing \union {"idle", "loop", "stuck"}

Init ==
    /\ status = [j \in Jobs |-> "absent"]
    /\ pending = [j \in Jobs |-> <<>>]
    /\ phase = [j \in Jobs |-> "idle"]
    /\ cancelled = {}
    /\ target = [c \in Components |-> CASE c \in Installed -> "original"
                                        [] c \in Foreign   -> "foreign"
                                        [] OTHER           -> "none"]
    /\ backup = [c \in Components |-> [j \in Jobs |-> "none"]]
    /\ removing = {}
    /\ expected = [c \in Components |-> c \in Installed]
    /\ disturbed = FALSE

-----------------------------------------------------------------------------
Step(j, from, to) ==
    /\ phase[j] = from
    /\ phase' = [phase EXCEPT ![j] = to]

Current(j) == Head(pending[j])

\* mutant: a request that nobody can take back
CancelUnseen(j) == FALSE

\* is_cancelled
IsCancelled(j) == j \in cancelled

\* read_marker finds the marker of a RoadWatcher component
HasMarker(content) == content \in Owned \union {"filesLost"}

\* is_ready: marker, references and project imports are there
IsReady(c) == target[c] \in Owned

-----------------------------------------------------------------------------
(* Commands on the main thread.                                            *)

Start(j, request) ==
    /\ status[j] = "absent" /\ removing = {}
    /\ \A i \in DOMAIN request : \A d \in Dependencies[request[i]] :
           IsReady(d) \/ \E k \in DOMAIN request : request[k] = d
    /\ status' = [status EXCEPT ![j] = "queued"]
    /\ pending' = [pending EXCEPT ![j] = request]
    /\ Step(j, "idle", "loop")
    /\ UNCHANGED <<cancelled, diskVars, removing>>

\* the record cannot be written: the request is refused, and its job stays in the
\* map without a thread
StartRefused(j) ==
    /\ "disk" \in Faults
    /\ status[j] = "absent" /\ removing = {}
    /\ status' = [status EXCEPT ![j] = "queued"]
    /\ UNCHANGED <<pending, phase, cancelled, diskVars, removing>>

Cancel(j) ==
    /\ status[j] \in Unfinished /\ removing = {}
    /\ cancelled' = cancelled \union {j}
    /\ UNCHANGED <<status, pending, phase, diskVars, removing>>

\* mutant: a directory that is there is taken for the component
MarkerNotRead(c) == target[c] # "none"

\* what remove and promote_owned_directory ask of a directory before they touch it
MarkerRead(c) == HasMarker(target[c])

\* remove reads the marker; a directory without it is refused
RemoveChecks(c) ==
    /\ removing = {}
    /\ MarkerRead(c)
    /\ removing' = {c}
    /\ UNCHANGED <<jobVars, diskVars>>

\* remove_dir_all takes what the directory holds by now, or part of it
RemoveEnds(c) ==
    /\ c \in removing
    /\ removing' = {}
    /\ \/ /\ target[c] # "none"
          /\ expected' = [expected EXCEPT ![c] = FALSE]
          /\ \/ /\ target' = [target EXCEPT ![c] = "none"]
                /\ UNCHANGED disturbed
             \/ /\ "disk" \in Faults
                /\ \E left \in {"markerLost", "filesLost"} :
                       target' = [target EXCEPT ![c] = left]
                /\ disturbed' = TRUE
       \/ /\ target[c] = "none" \/ "disk" \in Faults
          /\ UNCHANGED <<target, expected, disturbed>>
    /\ UNCHANGED <<jobVars, backup>>

-----------------------------------------------------------------------------
(* The thread of a job: run_job and install_one.                           *)

NextComponent(j) ==
    /\ Step(j, "loop", "fetch")
    /\ pending[j] # <<>> /\ ~IsCancelled(j)
    /\ status' = [status EXCEPT ![j] = "downloading"]
    /\ UNCHANGED <<pending, cancelled, diskVars, removing>>

StopBeforeNext(j) ==
    /\ Step(j, "loop", "idle")
    /\ pending[j] # <<>> /\ IsCancelled(j)
    /\ status' = [status EXCEPT ![j] = "cancelled"]
    /\ UNCHANGED <<pending, cancelled, diskVars, removing>>

\* no look at the cancellations after the last component
AllInstalled(j) ==
    /\ Step(j, "loop", "idle")
    /\ pending[j] = <<>>
    /\ status' = [status EXCEPT ![j] = "ready"]
    /\ UNCHANGED <<pending, cancelled, diskVars, removing>>

\* download_verified
Fetch(j) ==
    /\ Step(j, "fetch", "unpack")
    /\ status' = [status EXCEPT ![j] = "installing"]
    /\ UNCHANGED <<pending, cancelled, diskVars, removing>>

\* mutant: the component is tried again for ever
FetchAgain(j) ==
    /\ Step(j, "fetch", "loop")
    /\ "network" \in Faults
    /\ UNCHANGED <<status, pending, cancelled, diskVars, removing>>

FetchFails(j) ==
    /\ Step(j, "fetch", "error")
    /\ IsCancelled(j) \/ "network" \in Faults \/ "disk" \in Faults
    /\ UNCHANGED <<status, pending, cancelled, diskVars, removing>>

\* install_strategy and install_bootstrap, with the managed references of the
\* components this one needs
Unpack(j) ==
    /\ Step(j, "unpack", "seal")
    /\ \A d \in Dependencies[Current(j)] : IsReady(d)
    /\ UNCHANGED <<status, pending, cancelled, diskVars, removing>>

UnpackFails(j) ==
    /\ Step(j, "unpack", "error")
    /\ \/ \E d \in Dependencies[Current(j)] : ~IsReady(d)
       \/ IsCancelled(j) \/ "disk" \in Faults
    /\ UNCHANGED <<status, pending, cancelled, diskVars, removing>>

\* the last look at the cancellations, then the marker is written and synced
Seal(j) ==
    /\ Step(j, "seal", "look")
    /\ ~IsCancelled(j)
    /\ UNCHANGED <<status, pending, cancelled, diskVars, removing>>

SealFails(j) ==
    /\ Step(j, "seal", "error")
    /\ IsCancelled(j) \/ "disk" \in Faults
    /\ UNCHANGED <<status, pending, cancelled, diskVars, removing>>

\* The requests and reads of a download have no timeout, and look at no cancellation
\* while they wait.  The readers of a program are joined after it was killed; one that
\* cannot be started is a panic, and run_job has no guard.  Nobody can tell which.
Hangs(j) ==
    /\ \/ "silence" \in Faults /\ Step(j, "fetch", "stuck")
       \/ "process" \in Faults /\ Step(j, "unpack", "stuck")
    /\ UNCHANGED <<status, pending, cancelled, diskVars, removing>>

-----------------------------------------------------------------------------
(* The thread of a job: promote_owned_directory.                           *)

\* target.exists() and read_marker(target)
LookAtTarget(j) ==
    /\ \/ Step(j, "look", "publish") /\ target[Current(j)] = "none"
       \/ Step(j, "look", "backup") /\ MarkerRead(Current(j))
       \/ /\ Step(j, "look", "error")
          /\ target[Current(j)] # "none" /\ ~MarkerRead(Current(j))
    /\ UNCHANGED <<status, pending, cancelled, diskVars, removing>>

\* mutant: the directory in the way is deleted
DeleteTarget(j) ==
    /\ Step(j, "backup", "publish")
    /\ target[Current(j)] # "none"
    /\ target' = [target EXCEPT ![Current(j)] = "none"]
    /\ UNCHANGED <<status, pending, cancelled, backup, expected, disturbed, removing>>

MoveToBackup(j) ==
    /\ Step(j, "backup", "publish")
    /\ target[Current(j)] # "none"
    /\ backup' = [backup EXCEPT ![Current(j)][j] = target[Current(j)]]
    /\ target' = [target EXCEPT ![Current(j)] = "none"]
    /\ UNCHANGED <<status, pending, cancelled, expected, disturbed, removing>>

MoveToBackupFails(j) ==
    /\ Step(j, "backup", "error")
    /\ target[Current(j)] = "none" \/ "disk" \in Faults
    /\ UNCHANGED <<status, pending, cancelled, diskVars, removing>>

\* the component is done, unless a backup is left to delete
Publish(j) ==
    /\ phase[j] = "publish"
    /\ target[Current(j)] = "none"
    /\ target' = [target EXCEPT ![Current(j)] = j]
    /\ expected' = [expected EXCEPT ![Current(j)] = TRUE]
    /\ \/ /\ backup[Current(j)][j] # "none"
          /\ Step(j, "publish", "dropBackup")
          /\ UNCHANGED pending
       \/ /\ backup[Current(j)][j] = "none"
          /\ Step(j, "publish", "loop")
          /\ pending' = [pending EXCEPT ![j] = Tail(@)]
    /\ UNCHANGED <<status, cancelled, backup, disturbed, removing>>

\* a directory cannot be renamed onto one that is there
PublishFails(j) ==
    /\ \/ Step(j, "publish", "rollBack") /\ backup[Current(j)][j] # "none"
       \/ Step(j, "publish", "error") /\ backup[Current(j)][j] = "none"
    /\ target[Current(j)] # "none" \/ Faults \intersect {"payload", "disk"} # {}
    /\ UNCHANGED <<status, pending, cancelled, diskVars, removing>>

\* the result of the second rename is discarded
RollBack(j) ==
    /\ Step(j, "rollBack", "error")
    /\ \/ /\ target[Current(j)] = "none"
          /\ target' = [target EXCEPT ![Current(j)] = backup[Current(j)][j]]
          /\ backup' = [backup EXCEPT ![Current(j)][j] = "none"]
          /\ UNCHANGED disturbed
       \/ /\ target[Current(j)] # "none"
          /\ UNCHANGED <<target, backup, disturbed>>
       \/ /\ "disk" \in Faults
          /\ disturbed' = TRUE
          /\ UNCHANGED <<target, backup>>
    /\ UNCHANGED <<status, pending, cancelled, expected, removing>>

DropBackup(j) ==
    /\ Step(j, "dropBackup", "loop")
    /\ backup' = [backup EXCEPT ![Current(j)][j] = "none"]
    /\ pending' = [pending EXCEPT ![j] = Tail(@)]
    /\ UNCHANGED <<status, cancelled, target, expected, disturbed, removing>>

\* an error although the payload is published
DropBackupFails(j) ==
    /\ Step(j, "dropBackup", "error")
    /\ "disk" \in Faults
    /\ \E left \in {backup[Current(j)][j], "markerLost", "filesLost"} :
           backup' = [backup EXCEPT ![Current(j)][j] = left]
    /\ UNCHANGED <<status, pending, cancelled, target, expected, disturbed, removing>>

\* finish_cancelled or finish_failed
Fail(j) ==
    /\ Step(j, "error", "idle")
    /\ status' = [status EXCEPT ![j] = IF IsCancelled(j) THEN "cancelled" ELSE "failed"]
    /\ UNCHANGED <<pending, cancelled, diskVars, removing>>

-----------------------------------------------------------------------------
\* The application ends, and load finds the records of the jobs: those that had
\* not ended are failed.  It removes staging directories and leaves backups.
Relaunch(unfinished) ==
    /\ "crash" \in Faults
    /\ status' = [j \in Jobs |-> IF status[j] \in Unfinished THEN unfinished ELSE status[j]]
    /\ phase' = [j \in Jobs |-> "idle"]
    /\ cancelled' = {}
    /\ removing' = {}
    /\ disturbed' = (disturbed \/ \E j \in Jobs : phase[j] \in Promotion)
    /\ UNCHANGED <<pending, target, backup, expected>>

Restart == Relaunch("failed")

Install(j) ==
    \/ NextComponent(j) \/ StopBeforeNext(j) \/ AllInstalled(j)
    \/ Fetch(j) \/ FetchFails(j) \/ Unpack(j) \/ UnpackFails(j) \/ Hangs(j)
    \/ Seal(j) \/ SealFails(j)
    \/ LookAtTarget(j) \/ MoveToBackup(j) \/ MoveToBackupFails(j)
    \/ Publish(j) \/ PublishFails(j) \/ RollBack(j) \/ DropBackup(j) \/ DropBackupFails(j)
    \/ Fail(j)

Next ==
    \/ \E j \in Jobs : (\E request \in Requests : Start(j, request)) \/ StartRefused(j) \/ Cancel(j) \/ Install(j)
    \/ \E c \in Components : RemoveChecks(c) \/ RemoveEnds(c)
    \/ Restart

Spec == Init /\ [][Next]_vars

(* A thread that is not stuck is scheduled: a server answers, breaks off or    *)
(* falls silent, a program ends, is killed or keeps the thread, and renames    *)
(* are tried a bounded number of times.                                        *)
FairSpec == Spec /\ \A j \in Jobs : WF_vars(Install(j))

-----------------------------------------------------------------------------
TypeOK ==
    /\ status \in [Jobs -> Unfinished \union Finished \union {"absent"}]
    /\ pending \in [Jobs -> Seq(Components)]
    /\ phase \in [Jobs -> Phases]
    /\ cancelled \subseteq Jobs
    /\ target \in [Components -> Contents]
    /\ backup \in [Components -> [Jobs -> Contents]]
    /\ removing \subseteq Components
    /\ expected \in [Components -> BOOLEAN]
    /\ disturbed \in BOOLEAN

(* An installed component is never lost: its directory or a backup beside it   *)
(* holds an owned payload until the user removes it, through every failing     *)
(* rename, collision of two jobs and crash (promote_owned_directory).          *)
OwnedPayloadSurvives ==
    \A c \in Components :
        expected[c] =>
            target[c] \in Owned \/ \E j \in Jobs : backup[c][j] \in Owned

(* Unless a rollback fails, a removal stops half-way or the application ends   *)
(* inside a promotion, an installed component is in its place whenever no job  *)
(* is promoting it, also when a payload cannot be published and however jobs   *)
(* collide with each other and with removals (promote_owned_directory).        *)
Promoting(c) == \E j \in Jobs : phase[j] \in Promotion /\ Current(j) = c

InPlace(c) == expected[c] /\ ~Promoting(c) => IsReady(c)

ComponentStaysInPlace == ~disturbed => \A c \in Components : InPlace(c)

(* A directory that RoadWatcher does not own is neither replaced nor removed   *)
(* (read_marker in promote_owned_directory and remove).                        *)
ForeignUntouched ==
    [][\A c \in Components : target[c] = "foreign" => target'[c] = "foreign"]_vars

(* A cancellation that is in the set before the marker is written keeps the    *)
(* current component and all that follow from being published                  *)
(* (run_job, install_one).                                                     *)
CancelStopsInstall ==
    [][\A j \in Jobs :
          j \in cancelled /\ phase[j] \in BeforePromotion \union {"loop"} =>
              phase'[j] \in BeforePromotion \union {"loop", "error", "idle", "stuck"}]_vars

(* Every job that has a thread ends and says how, also when downloads, renames *)
(* and removals fail under it, unless its thread is stuck with a silent server *)
(* or a program until the application ends (run_job).                          *)
JobSettles ==
    \A j \in Jobs :
        phase[j] # "idle" ~>
            \/ phase[j] = "idle" /\ status[j] \in Finished
            \/ [](phase[j] = "stuck")

-----------------------------------------------------------------------------
(* What the documents say and the code does not do.                            *)

(* managed-artifact-manifests.md: after any failure an existing owned          *)
(* component remains intact.                                                   *)
ExistingComponentIntact == \A c \in Components : InPlace(c)
=============================================================================
