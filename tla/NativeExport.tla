---------------------------- MODULE NativeExport ----------------------------
(***************************************************************************)
(* Publication of an evidence export (native_export.rs and the export      *)
(* functions of project_store.rs).  An export writes its artifacts and a   *)
(* manifest to a staging directory, renames it to its final name and       *)
(* completes a row of export_manifests.  The row and the directory cannot  *)
(* change together, so opening the project fails every row that is still   *)
(* staging and removes its directory.                                      *)
(*                                                                         *)
(* Commands of one instance of the application run one at a time; nothing  *)
(* keeps a second instance from opening the same project.  Every call to   *)
(* the file system and every transaction is a step.  A power loss keeps    *)
(* committed rows and loses directory changes that were not synced.        *)
(***************************************************************************)
EXTENDS Naturals, FiniteSets

CONSTANTS
    Exports,     \* export ids (Uuid::new_v4)
    Instances,   \* running copies of the application
    Artifacts,   \* number of artifacts in an export; the manifest comes after them
    Places,      \* directories the project may be moved to between two sessions
    NoExport,    \* value of current in an instance that works on no export
    Faults       \* what may go wrong: subset of {"store", "disk", "crash", "power"}

ASSUME ExportAssumption ==
    /\ NoExport \notin Exports
    /\ Artifacts \in Nat
    /\ Places # {}

VARIABLES
    \* the database
    row,         \* export_manifests.status, "absent" before the insert
    recorded,    \* the project directory in export_manifests.staging_directory
    \* the disk
    place,       \* where the project directory is
    at,          \* name the directory of an export has: none, staging or final
    files,       \* files of that directory that are whole (1..Artifacts and the manifest)
    sealed,      \* whether the entries of the directory were synced
    durableAt,   \* the name a power loss leaves it with
    \* the instances
    phase,       \* next step of the command an instance is executing
    current,     \* the export that command is working on
    written,     \* files this command wrote
    stale,       \* rows a load has still to fail
    reported,    \* exports whose success was returned to the user
    \* history
    contested,   \* exports a load of one instance failed under another's hands
    stranded,    \* exports whose directory nothing will remove
    due          \* rows that were staging when the load of an instance began

rowVars == <<row, recorded>>
diskVars == <<place, at, files, sealed, durableAt>>
instanceVars == <<phase, current, written, stale, reported>>
historyVars == <<contested, stranded, due>>
vars == <<rowVars, diskVars, instanceVars, historyVars>>

Manifest == Artifacts + 1
AllFiles == 1..Manifest
Rows == {"absent", "staging", "complete", "failed"}
Names == {"none", "staging", "final"}

Exporting == {"creating", "writing", "sealing", "renaming", "syncing", "completing",
              "undoing", "cleaning", "failing"}
Recovering == {"recovering", "removing", "marking"}
Phases == {"stopped", "idle"} \union Exporting \union Recovering

Init ==
    /\ row = [e \in Exports |-> "absent"]
    /\ place \in Places
    /\ recorded = [e \in Exports |-> place]
    /\ at = [e \in Exports |-> "none"]
    /\ files = [e \in Exports |-> {}]
    /\ sealed = [e \in Exports |-> FALSE]
    /\ durableAt = [e \in Exports |-> "none"]
    /\ phase = [i \in Instances |-> "stopped"]
    /\ current = [i \in Instances |-> NoExport]
    /\ written = [i \in Instances |-> 0]
    /\ stale = [i \in Instances |-> {}]
    /\ reported = {}
    /\ contested = {}
    /\ stranded = {}
    /\ due = [i \in Instances |-> {}]

-----------------------------------------------------------------------------
(* Building blocks.                                                        *)

Step(i, from, to) ==
    /\ phase[i] = from
    /\ phase' = [phase EXCEPT ![i] = to]

\* the command returns
Return(i, from) ==
    /\ Step(i, from, "idle")
    /\ current' = [current EXCEPT ![i] = NoExport]
    /\ written' = [written EXCEPT ![i] = 0]

WorkedOn(e) == \E i \in Instances : current[i] = e /\ phase[i] \in Exporting

\* another instance is working on the export this one is about to fail
WorkedOnElsewhere(i, e) ==
    \E k \in Instances \ {i} : current[k] = e /\ phase[k] \in Exporting

Strand(e) == stranded' = stranded \union {e}

Exists(e) == at[e] = "staging"

-----------------------------------------------------------------------------
(* export_native_at and stage_export.                                      *)

\* begin_export_manifest, with a fresh id
Begin(i, e) ==
    /\ row[e] = "absent"
    /\ Step(i, "idle", "creating")
    /\ row' = [row EXCEPT ![e] = "staging"]
    /\ recorded' = [recorded EXCEPT ![e] = place]
    /\ current' = [current EXCEPT ![i] = e]
    /\ UNCHANGED <<diskVars, written, stale, reported, historyVars>>

\* create_dir
CreateStaging(i) ==
    LET e == current[i] IN
    /\ Step(i, "creating", "writing")
    /\ at' = [at EXCEPT ![e] = "staging"]
    /\ UNCHANGED <<rowVars, place, files, sealed, durableAt,
                   current, written, stale, reported, historyVars>>

\* create_new, write and sync one artifact or, after them, the manifest
WriteFile(i) ==
    LET e == current[i] IN
    /\ Step(i, "writing", IF written[i] + 1 = Manifest THEN "sealing" ELSE "writing")
    /\ written[i] < Manifest /\ Exists(e)
    /\ written' = [written EXCEPT ![i] = @ + 1]
    /\ files' = [files EXCEPT ![e] = @ \union {written[i] + 1}]
    /\ UNCHANGED <<rowVars, place, at, sealed, durableAt,
                   current, stale, reported, historyVars>>

\* sync_directory of the staging directory
SealStaging(i) ==
    LET e == current[i] IN
    /\ Step(i, "sealing", "renaming")
    /\ Exists(e)
    /\ sealed' = [sealed EXCEPT ![e] = TRUE]
    /\ UNCHANGED <<rowVars, place, at, files, durableAt,
                   current, written, stale, reported, historyVars>>

\* the rename to the final name
Publish(i) ==
    LET e == current[i] IN
    /\ Step(i, "renaming", "syncing")
    /\ Exists(e)
    /\ at' = [at EXCEPT ![e] = "final"]
    /\ UNCHANGED <<rowVars, place, files, sealed, durableAt,
                   current, written, stale, reported, historyVars>>

\* a call before the publication fails, or finds that the directory is gone
StagingFails(i) ==
    /\ phase[i] \in {"creating", "writing", "sealing", "renaming"}
    /\ "disk" \in Faults \/ (phase[i] # "creating" /\ ~Exists(current[i]))
    /\ phase' = [phase EXCEPT ![i] = "cleaning"]
    /\ UNCHANGED <<rowVars, diskVars, current, written, stale, reported, historyVars>>

\* mutant: the rename is never made durable
SyncForgotten(i) ==
    /\ Step(i, "syncing", "completing")
    /\ UNCHANGED <<rowVars, diskVars, current, written, stale, reported, historyVars>>

\* sync_directory of the exports directory
SyncExports(i) ==
    /\ Step(i, "syncing", "completing")
    /\ durableAt' = at
    /\ UNCHANGED <<rowVars, place, at, files, sealed,
                   current, written, stale, reported, historyVars>>

SyncExportsFails(i) ==
    /\ "disk" \in Faults
    /\ Step(i, "syncing", "undoing")
    /\ UNCHANGED <<rowVars, diskVars, current, written, stale, reported, historyVars>>

\* mutant: an update without its status guard
NeverClosed(e) == FALSE

\* `updated != 1`: the row is no longer staging
NotStaging(e) == row[e] # "staging"

\* complete_export_manifest and the response
Complete(i) ==
    LET e == current[i] IN
    /\ Return(i, "completing")
    /\ ~NotStaging(e)
    /\ row' = [row EXCEPT ![e] = "complete"]
    /\ reported' = reported \union {e}
    /\ UNCHANGED <<recorded, diskVars, stale, historyVars>>

\* the transaction fails or rolls back
CompleteFails(i) ==
    /\ Step(i, "completing", "undoing")
    /\ NotStaging(current[i]) \/ "store" \in Faults
    /\ UNCHANGED <<rowVars, diskVars, current, written, stale, reported, historyVars>>

\* `let _ = rename(final, staging)`
Undo(i) ==
    LET e == current[i] IN
    /\ Return(i, "undoing")
    /\ \/ at' = [at EXCEPT ![e] = "staging"] /\ UNCHANGED stranded
       \/ "disk" \in Faults /\ Strand(e) /\ UNCHANGED at
    /\ UNCHANGED <<rowVars, place, files, sealed, durableAt, stale, reported, contested, due>>

\* `let _ = fail_export_manifest(..)`
RecordFailure(i) ==
    LET e == current[i] IN
    /\ Return(i, "failing")
    /\ \/ ~NotStaging(e) /\ row' = [row EXCEPT ![e] = "failed"]
       \/ (NotStaging(e) \/ "store" \in Faults) /\ UNCHANGED row
    /\ UNCHANGED <<recorded, diskVars, stale, reported, historyVars>>

-----------------------------------------------------------------------------
(* remove_flat_staging_directory, of an export that failed and of a load.  *)

AfterRemoval(i) == IF phase[i] = "cleaning" THEN "failing" ELSE "marking"

\* remove_file of one entry
RemoveFile(i) ==
    LET e == current[i] IN
    /\ phase[i] \in {"cleaning", "removing"} /\ Exists(e)
    /\ \E f \in files[e] : files' = [files EXCEPT ![e] = @ \ {f}]
    /\ sealed' = [sealed EXCEPT ![e] = FALSE]
    /\ UNCHANGED <<rowVars, place, at, durableAt, instanceVars, historyVars>>

\* remove_dir of the empty directory, or nothing to remove
RemoveStaging(i) ==
    LET e == current[i] IN
    /\ phase[i] \in {"cleaning", "removing"}
    /\ Exists(e) => files[e] = {}
    /\ phase' = [phase EXCEPT ![i] = AfterRemoval(i)]
    /\ at' = [at EXCEPT ![e] = IF Exists(e) THEN "none" ELSE @]
    /\ sealed' = [sealed EXCEPT ![e] = @ /\ ~Exists(e)]
    /\ UNCHANGED <<rowVars, place, files, durableAt,
                   current, written, stale, reported, historyVars>>

\* the removal stops at an error, and its result only shows in a detail
RemovalFails(i) ==
    /\ phase[i] \in {"cleaning", "removing"}
    /\ "disk" \in Faults
    /\ phase' = [phase EXCEPT ![i] = AfterRemoval(i)]
    /\ Strand(current[i])
    /\ UNCHANGED <<rowVars, diskVars, current, written, stale, reported, contested, due>>

-----------------------------------------------------------------------------
(* load_project_snapshot and recover_stale_exports.                        *)

\* open the database and read the rows that are staging
Load(i) ==
    /\ Step(i, "idle", "recovering")
    /\ stale' = [stale EXCEPT ![i] = {e \in Exports : row[e] = "staging"}]
    /\ due' = [due EXCEPT ![i] = stale'[i]]
    /\ UNCHANGED <<rowVars, diskVars, current, written, reported, contested, stranded>>

\* the staging directory is removed only at the path this project would give it
Confined(e) == recorded[e] = place

\* mutant: the row is failed and its directory forgotten
RecoverRowOnly(i, e) ==
    /\ e \in stale[i]
    /\ Step(i, "recovering", "marking")
    /\ current' = [current EXCEPT ![i] = e]
    /\ stale' = [stale EXCEPT ![i] = @ \ {e}]
    /\ contested' = contested \union {x \in {e} : WorkedOnElsewhere(i, e)}
    /\ stranded' = stranded \union {x \in {e} : ~Confined(e)}
    /\ UNCHANGED <<rowVars, diskVars, written, reported, due>>

\* the next row: remove its directory, or leave it where it is
RecoverNext(i, e) ==
    /\ e \in stale[i]
    /\ Step(i, "recovering", IF Confined(e) THEN "removing" ELSE "marking")
    /\ current' = [current EXCEPT ![i] = e]
    /\ stale' = [stale EXCEPT ![i] = @ \ {e}]
    /\ contested' = contested \union {x \in {e} : WorkedOnElsewhere(i, e)}
    /\ stranded' = stranded \union {x \in {e} : ~Confined(e)}
    /\ UNCHANGED <<rowVars, diskVars, written, reported, due>>

\* mutant: a row whose directory is not removed is skipped
MarkConfined(i) ==
    LET e == current[i] IN
    /\ Step(i, "marking", "recovering")
    /\ row' = [row EXCEPT ![e] = IF NotStaging(e) \/ ~Confined(e) THEN @ ELSE "failed"]
    /\ current' = [current EXCEPT ![i] = NoExport]
    /\ UNCHANGED <<recorded, diskVars, written, stale, reported, historyVars>>

\* `WHERE status = 'staging'`
MarkFailed(i) ==
    LET e == current[i] IN
    /\ Step(i, "marking", "recovering")
    /\ row' = [row EXCEPT ![e] = IF NotStaging(e) THEN @ ELSE "failed"]
    /\ current' = [current EXCEPT ![i] = NoExport]
    /\ UNCHANGED <<recorded, diskVars, written, stale, reported, historyVars>>

\* the update fails, and the load with it
LoadFails(i) ==
    /\ "store" \in Faults
    /\ Return(i, "marking")
    /\ stale' = [stale EXCEPT ![i] = {}]
    /\ UNCHANGED <<rowVars, diskVars, reported, historyVars>>

Loaded(i) ==
    /\ stale[i] = {}
    /\ Return(i, "recovering")
    /\ UNCHANGED <<rowVars, diskVars, stale, reported, historyVars>>

-----------------------------------------------------------------------------
(* Launches and ends of the application, the user and the machine.         *)

Launch(i) ==
    /\ Step(i, "stopped", "idle")
    /\ UNCHANGED <<rowVars, diskVars, current, written, stale, reported, historyVars>>

\* the instance ends: between two commands, or at any step of one.  A directory
\* published before its row was completed is left under its final name.
Exit(i) ==
    /\ phase[i] # "stopped"
    /\ "crash" \in Faults \/ phase[i] = "idle"
    /\ phase' = [phase EXCEPT ![i] = "stopped"]
    /\ current' = [current EXCEPT ![i] = NoExport]
    /\ written' = [written EXCEPT ![i] = 0]
    /\ stale' = [stale EXCEPT ![i] = {}]
    /\ stranded' = stranded \union
           {e \in {current[i]} : phase[i] \in {"syncing", "completing", "undoing"}}
    /\ UNCHANGED <<rowVars, diskVars, reported, contested, due>>

AllStopped == \A i \in Instances : phase[i] = "stopped"

\* the user moves the project directory while no instance has it open
MoveProject(p) ==
    /\ AllStopped
    /\ place' = p
    /\ UNCHANGED <<rowVars, at, files, sealed, durableAt, instanceVars, historyVars>>

\* after a power loss a directory has its current or its synced name, and holds
\* all of its files only if its entries were synced
PowerLoss ==
    /\ "power" \in Faults /\ AllStopped
    /\ \E lost \in SUBSET Exports :
           at' = [e \in Exports |-> IF e \in lost THEN durableAt[e] ELSE at[e]]
    /\ durableAt' = at'
    /\ files' \in [Exports -> SUBSET AllFiles]
    /\ \A e \in Exports :
           /\ at'[e] = "none" => files'[e] = {}
           /\ at'[e] # "none" /\ at[e] # "none" =>
                  IF sealed[e] THEN files'[e] = files[e] ELSE files'[e] \subseteq files[e]
    /\ sealed' = [e \in Exports |-> at'[e] # "none" /\ sealed[e]]
    /\ stranded' = stranded \union
           {e \in Exports : \/ at'[e] = "final" /\ row[e] = "staging"
                            \/ at'[e] # "none" /\ row[e] = "failed"}
    /\ UNCHANGED <<rowVars, place, instanceVars, contested, due>>

ExportStep(i) ==
    \/ \E e \in Exports : Begin(i, e)
    \/ CreateStaging(i) \/ WriteFile(i) \/ SealStaging(i) \/ StagingFails(i)
    \/ Publish(i) \/ SyncExports(i) \/ SyncExportsFails(i)
    \/ Complete(i) \/ CompleteFails(i) \/ Undo(i) \/ RecordFailure(i)

RemovalStep(i) == RemoveFile(i) \/ RemoveStaging(i) \/ RemovalFails(i)

LoadStep(i) ==
    \/ Load(i) \/ MarkFailed(i) \/ LoadFails(i) \/ Loaded(i)
    \/ \E e \in Exports : RecoverNext(i, e)

Next ==
    \/ \E i \in Instances :
           ExportStep(i) \/ RemovalStep(i) \/ LoadStep(i) \/ Launch(i) \/ Exit(i)
    \/ \E p \in Places : MoveProject(p)
    \/ PowerLoss

Spec == Init /\ [][Next]_vars

-----------------------------------------------------------------------------
TypeOK ==
    /\ row \in [Exports -> Rows]
    /\ recorded \in [Exports -> Places]
    /\ place \in Places
    /\ at \in [Exports -> Names]
    /\ files \in [Exports -> SUBSET AllFiles]
    /\ sealed \in [Exports -> BOOLEAN]
    /\ durableAt \in [Exports -> Names]
    /\ phase \in [Instances -> Phases]
    /\ current \in [Instances -> Exports \union {NoExport}]
    /\ written \in [Instances -> 0..Manifest]
    /\ stale \in [Instances -> SUBSET Exports]
    /\ reported \subseteq Exports
    /\ due \in [Instances -> SUBSET Exports]
    /\ contested \subseteq Exports
    /\ stranded \subseteq Exports

\* whole, under its final name, and so after a power loss
Published(e) ==
    /\ at[e] = "final" /\ durableAt[e] = "final"
    /\ files[e] = AllFiles /\ sealed[e]

\* A complete row advertises a directory that holds the manifest and every
\* artifact under its final name, and that a power loss at any moment leaves so
\* (the order of the syncs, the rename and complete_export_manifest).
CompleteIsPublished ==
    \A e \in Exports \ contested : row[e] = "complete" => Published(e)

\* An export whose success was returned stays complete, whatever is exported,
\* loaded, lost or done by another instance later (export_native, the status
\* guards of the updates of export_manifests).
ReportedIsComplete == \A e \in reported : row[e] = "complete"

\* An export that failed has left nothing behind, unless a removal or the rename
\* back failed, the application ended between the publication and its row, or
\* the project was moved (recover_stale_exports, the error paths of
\* export_native_at).
FailureLeavesNothing ==
    \A e \in Exports \ (contested \union stranded) :
        row[e] = "failed" /\ ~WorkedOn(e) => at[e] = "none"

\* A row that was completed or failed never changes again, also when an export
\* and the load of another instance race for it (`WHERE status = 'staging'`).
ClosedRowsAreFinal ==
    [][\A e \in Exports : row[e] \in {"complete", "failed"} => row'[e] = row[e]]_vars

\* When a load is done, no row is staging that was staging when it began: those
\* of this project, of one that was moved here, and of one whose removal failed
\* (recover_stale_exports).
LoadClosesAbandoned ==
    \A i \in Instances :
        phase[i] = "recovering" /\ stale[i] = {} => \A e \in due[i] : row[e] # "staging"

\* What the documents promise also when two instances share a project: only an
\* abandoned export is failed by a load, so a complete one is published.
CompleteIsAlwaysPublished ==
    \A e \in Exports : row[e] = "complete" => Published(e)
=============================================================================
