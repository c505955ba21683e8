------------------------- MODULE NativeExportProof -------------------------
(***************************************************************************)
(* Proofs about NativeExport for every set of exports, instances and       *)
(* places, every number of artifacts and every combination of faults.      *)
(***************************************************************************)
EXTENDS NativeExport, TLAPS

\* an instance has an export exactly while a step of its command needs one, and
\* that export has begun; so have the ones a load has still to visit
Busy ==
    \A i \in Instances :
        /\ phase[i] \in Exporting \union {"removing", "marking"} =>
               current[i] \in Exports /\ row[current[i]] # "absent"
        /\ phase[i] \notin Exporting \union {"removing", "marking"} => current[i] = NoExport
        /\ phase[i] \notin Exporting => written[i] = 0
        /\ \A e \in stale[i] : row[e] # "absent"

\* nothing is on disk before the row is inserted
Fresh ==
    \A e \in Exports : row[e] = "absent" =>
        at[e] = "none" /\ durableAt[e] = "none" /\ files[e] = {} /\ ~sealed[e]

\* an export is written by one instance, and visited by a load at the same time
\* only if it is contested
Alone ==
    \A i, k \in Instances :
        i # k /\ phase[i] \in Exporting /\ phase[k] \in Exporting => current[i] # current[k]

Unshared ==
    \A i, k \in Instances :
        phase[i] \in Exporting /\ phase[k] \in {"removing", "marking"} =>
            (current[i] = current[k] => current[i] \in contested)

\* what the directory holds when a step of export_native_at is due
Whole(e) == files[e] = AllFiles /\ sealed[e]

Due(i, e) ==
    /\ row[e] = "staging"
    /\ phase[i] = "creating" => at[e] = "none" /\ files[e] = {} /\ written[i] = 0
    /\ phase[i] = "writing" =>
           at[e] = "staging" /\ written[i] < Manifest /\ files[e] = 1..written[i]
    /\ phase[i] = "sealing" => at[e] = "staging" /\ files[e] = AllFiles
    /\ phase[i] = "renaming" => at[e] = "staging" /\ Whole(e)
    /\ phase[i] = "syncing" => at[e] = "final" /\ Whole(e)
    /\ phase[i] = "completing" => Published(e)
    /\ phase[i] = "undoing" => at[e] = "final"
    /\ phase[i] = "cleaning" => at[e] # "final"
    /\ phase[i] = "failing" => at[e] = "none" \/ (at[e] = "staging" /\ e \in stranded)

Progressing ==
    \A i \in Instances :
        phase[i] \in Exporting /\ current[i] \notin contested => Due(i, current[i])

\* a load is about to fail a row whose directory is gone
Emptied ==
    \A i \in Instances :
        LET e == current[i] IN
        phase[i] = "marking" /\ e \notin contested \union stranded =>
            (row[e] = "staging" => at[e] = "none")

\* a published directory whose row is staging has an exporter
Tended ==
    \A e \in Exports \ (contested \union stranded) :
        row[e] = "staging" /\ at[e] = "final" =>
            \E i \in Instances :
                current[i] = e /\ phase[i] \in {"syncing", "completing", "undoing"}

FailedIsGone ==
    \A e \in Exports \ (contested \union stranded) : row[e] = "failed" => at[e] = "none"

IInv ==
    /\ TypeOK /\ Busy /\ Fresh /\ Alone /\ Unshared
    /\ Progressing /\ Emptied /\ Tended /\ FailedIsGone
    /\ CompleteIsPublished

-----------------------------------------------------------------------------
(***************************************************************************)
(* Every variable keeps its type, and an instance has an export exactly    *)
(* when a step needs one, under every step of an export, a load, a launch, *)
(* an exit, a move and a power loss.                                       *)
(***************************************************************************)
LEMMA TypeAndBusy == Spec => [](TypeOK /\ Busy)
<1> USE ExportAssumption
<1> USE DEF rowVars, diskVars, instanceVars, historyVars, vars, AllFiles, Manifest, Rows, Names,
            Exporting, Recovering, Phases
<1>1. Init => TypeOK /\ Busy
  BY DEF Init, TypeOK, Busy
<1>2. TypeOK /\ Busy /\ [Next]_vars => (TypeOK /\ Busy)'
  <2> SUFFICES ASSUME TypeOK, Busy, [Next]_vars PROVE (TypeOK /\ Busy)'
    OBVIOUS
  <2> USE DEF TypeOK, Busy
  <2>1. ASSUME NEW i \in Instances, NEW e \in Exports, Begin(i, e) PROVE (TypeOK /\ Busy)'
    BY <2>1 DEF Begin, Step
  <2>2. ASSUME NEW i \in Instances, CreateStaging(i) PROVE (TypeOK /\ Busy)'
    BY <2>2 DEF CreateStaging, Step
  <2>3. ASSUME NEW i \in Instances, WriteFile(i) PROVE (TypeOK /\ Busy)'
    <3>1. /\ current[i] \in Exports /\ written[i] + 1 \in AllFiles
          /\ files[current[i]] \union {written[i] + 1} \in SUBSET AllFiles
      BY <2>3 DEF WriteFile, Step
    <3>2. files' \in [Exports -> SUBSET AllFiles] /\ written' \in [Instances -> 0..Manifest]
      BY <2>3, <3>1 DEF WriteFile
    <3> QED
      BY <2>3, <3>1, <3>2 DEF WriteFile, Step
  <2>4. ASSUME NEW i \in Instances, SealStaging(i) PROVE (TypeOK /\ Busy)'
    BY <2>4 DEF SealStaging, Step
  <2>5. ASSUME NEW i \in Instances, StagingFails(i) PROVE (TypeOK /\ Busy)'
    BY <2>5 DEF StagingFails
  <2>6. ASSUME NEW i \in Instances, Publish(i) PROVE (TypeOK /\ Busy)'
    BY <2>6 DEF Publish, Step
  <2>7. ASSUME NEW i \in Instances, SyncExports(i) PROVE (TypeOK /\ Busy)'
    BY <2>7 DEF SyncExports, Step
  <2>8. ASSUME NEW i \in Instances, SyncExportsFails(i) PROVE (TypeOK /\ Busy)'
    BY <2>8 DEF SyncExportsFails, Step
  <2>9. ASSUME NEW i \in Instances, Complete(i) PROVE (TypeOK /\ Busy)'
    BY <2>9 DEF Complete, Return, Step
  <2>10. ASSUME NEW i \in Instances, CompleteFails(i) PROVE (TypeOK /\ Busy)'
    BY <2>10 DEF CompleteFails, Step
  <2>11. ASSUME NEW i \in Instances, Undo(i) PROVE (TypeOK /\ Busy)'
    BY <2>11 DEF Undo, Return, Strand, Step
  <2>12. ASSUME NEW i \in Instances, RecordFailure(i) PROVE (TypeOK /\ Busy)'
    BY <2>12 DEF RecordFailure, Return, Step
  <2>13. ASSUME NEW i \in Instances, RemoveFile(i) PROVE (TypeOK /\ Busy)'
    <3>1. files' \in [Exports -> SUBSET AllFiles]
      BY <2>13 DEF RemoveFile
    <3> QED
      BY <2>13, <3>1 DEF RemoveFile
  <2>14. ASSUME NEW i \in Instances, RemoveStaging(i) PROVE (TypeOK /\ Busy)'
    BY <2>14 DEF RemoveStaging, AfterRemoval
  <2>15. ASSUME NEW i \in Instances, RemovalFails(i) PROVE (TypeOK /\ Busy)'
    BY <2>15 DEF RemovalFails, AfterRemoval, Strand
  <2>16. ASSUME NEW i \in Instances, Load(i) PROVE (TypeOK /\ Busy)'
    BY <2>16 DEF Load, Step
  <2>17. ASSUME NEW i \in Instances, MarkFailed(i) PROVE (TypeOK /\ Busy)'
    BY <2>17 DEF MarkFailed, Step
  <2>18. ASSUME NEW i \in Instances, NEW e \in Exports, RecoverNext(i, e) PROVE (TypeOK /\ Busy)'
    BY <2>18 DEF RecoverNext, Step
  <2>19. ASSUME NEW i \in Instances, LoadFails(i) PROVE (TypeOK /\ Busy)'
    BY <2>19 DEF LoadFails, Return, Step
  <2>20. ASSUME NEW i \in Instances, Loaded(i) PROVE (TypeOK /\ Busy)'
    BY <2>20 DEF Loaded, Return, Step
  <2>21. ASSUME NEW i \in Instances, Launch(i) PROVE (TypeOK /\ Busy)'
    BY <2>21 DEF Launch, Step
  <2>22. ASSUME NEW i \in Instances, Exit(i) PROVE (TypeOK /\ Busy)'
    <3>1. stranded' \subseteq Exports
      BY <2>22 DEF Exit
    <3> QED
      BY <2>22, <3>1 DEF Exit
  <2>23. ASSUME NEW p \in Places, MoveProject(p) PROVE (TypeOK /\ Busy)'
    BY <2>23 DEF MoveProject
  <2>24. CASE PowerLoss
    BY <2>24 DEF PowerLoss
  <2>25. CASE UNCHANGED vars
    BY <2>25
  <2> QED
    BY <2>1, <2>2, <2>3, <2>4, <2>5, <2>6, <2>7, <2>8, <2>9, <2>10, <2>11, <2>12, <2>13, <2>14, <2>15, <2>16, <2>17, <2>18, <2>19, <2>20, <2>21, <2>22, <2>23, <2>24, <2>25 DEF Next, ExportStep, RemovalStep, LoadStep
<1> QED
  BY <1>1, <1>2, PTL DEF Spec

(***************************************************************************)
(* Every variable has its type in every behaviour.                         *)
(***************************************************************************)
THEOREM TypeCorrect == Spec => []TypeOK
  BY TypeAndBusy, PTL

(***************************************************************************)
(* A row that was completed or failed never changes again, whichever       *)
(* exports and loads race for it.                                          *)
(***************************************************************************)
THEOREM ClosedStaysClosed == Spec => ClosedRowsAreFinal
<1> DEFINE Final == \A e \in Exports : row[e] \in {"complete", "failed"} => row'[e] = row[e]
<1>1. TypeOK /\ Busy /\ [Next]_vars => Final
  <2> SUFFICES ASSUME TypeOK, Busy, [Next]_vars PROVE Final
    OBVIOUS
  <2> USE DEF TypeOK, rowVars
  <2>1. ASSUME NEW i \in Instances, NEW e \in Exports, Begin(i, e) PROVE Final
    BY <2>1 DEF Begin, NotStaging
  <2>2. ASSUME NEW i \in Instances, CreateStaging(i) PROVE Final
    BY <2>2 DEF CreateStaging
  <2>3. ASSUME NEW i \in Instances, WriteFile(i) PROVE Final
    BY <2>3 DEF WriteFile
  <2>4. ASSUME NEW i \in Instances, SealStaging(i) PROVE Final
    BY <2>4 DEF SealStaging
  <2>5. ASSUME NEW i \in Instances, StagingFails(i) PROVE Final
    BY <2>5 DEF StagingFails
  <2>6. ASSUME NEW i \in Instances, Publish(i) PROVE Final
    BY <2>6 DEF Publish
  <2>7. ASSUME NEW i \in Instances, SyncExports(i) PROVE Final
    BY <2>7 DEF SyncExports
  <2>8. ASSUME NEW i \in Instances, SyncExportsFails(i) PROVE Final
    BY <2>8 DEF SyncExportsFails
  <2>9. ASSUME NEW i \in Instances, Complete(i) PROVE Final
    BY <2>9 DEF Complete, NotStaging
  <2>10. ASSUME NEW i \in Instances, CompleteFails(i) PROVE Final
    BY <2>10 DEF CompleteFails
  <2>11. ASSUME NEW i \in Instances, Undo(i) PROVE Final
    BY <2>11 DEF Undo
  <2>12. ASSUME NEW i \in Instances, RecordFailure(i) PROVE Final
    BY <2>12 DEF RecordFailure, NotStaging
  <2>13. ASSUME NEW i \in Instances, RemoveFile(i) PROVE Final
    BY <2>13 DEF RemoveFile
  <2>14. ASSUME NEW i \in Instances, RemoveStaging(i) PROVE Final
    BY <2>14 DEF RemoveStaging
  <2>15. ASSUME NEW i \in Instances, RemovalFails(i) PROVE Final
    BY <2>15 DEF RemovalFails
  <2>16. ASSUME NEW i \in Instances, Load(i) PROVE Final
    BY <2>16 DEF Load
  <2>17. ASSUME NEW i \in Instances, MarkFailed(i) PROVE Final
    BY <2>17 DEF MarkFailed, NotStaging
  <2>18. ASSUME NEW i \in Instances, NEW e \in Exports, RecoverNext(i, e) PROVE Final
    BY <2>18 DEF RecoverNext
  <2>19. ASSUME NEW i \in Instances, LoadFails(i) PROVE Final
    BY <2>19 DEF LoadFails
  <2>20. ASSUME NEW i \in Instances, Loaded(i) PROVE Final
    BY <2>20 DEF Loaded
  <2>21. ASSUME NEW i \in Instances, Launch(i) PROVE Final
    BY <2>21 DEF Launch
  <2>22. ASSUME NEW i \in Instances, Exit(i) PROVE Final
    BY <2>22 DEF Exit
  <2>23. ASSUME NEW p \in Places, MoveProject(p) PROVE Final
    BY <2>23 DEF MoveProject
  <2>24. CASE PowerLoss
    BY <2>24 DEF PowerLoss
  <2>25. CASE UNCHANGED vars
    BY <2>25 DEF vars
  <2> QED
    BY <2>1, <2>2, <2>3, <2>4, <2>5, <2>6, <2>7, <2>8, <2>9, <2>10, <2>11, <2>12, <2>13, <2>14, <2>15, <2>16, <2>17, <2>18, <2>19, <2>20, <2>21, <2>22, <2>23, <2>24, <2>25 DEF Next, ExportStep, RemovalStep, LoadStep
<1>2. [](TypeOK /\ Busy) /\ [][Next]_vars => [][Final]_vars
  BY <1>1, PTL
<1> QED
  BY <1>2, TypeAndBusy, PTL DEF Spec, ClosedRowsAreFinal

(***************************************************************************)
(* A success that was returned stays true.                                 *)
(***************************************************************************)
THEOREM SuccessLasts == Spec => []ReportedIsComplete
<1>1. Init => ReportedIsComplete
  BY DEF Init, ReportedIsComplete
<1>2. TypeOK /\ Busy /\ ReportedIsComplete /\ [Next]_vars => ReportedIsComplete'
  <2> SUFFICES ASSUME TypeOK, Busy, ReportedIsComplete, [Next]_vars PROVE ReportedIsComplete'
    OBVIOUS
  <2> USE DEF TypeOK, ReportedIsComplete, rowVars, instanceVars
  <2>1. ASSUME NEW i \in Instances, NEW e \in Exports, Begin(i, e) PROVE ReportedIsComplete'
    BY <2>1 DEF Begin, NotStaging
  <2>2. ASSUME NEW i \in Instances, CreateStaging(i) PROVE ReportedIsComplete'
    BY <2>2 DEF CreateStaging
  <2>3. ASSUME NEW i \in Instances, WriteFile(i) PROVE ReportedIsComplete'
    BY <2>3 DEF WriteFile
  <2>4. ASSUME NEW i \in Instances, SealStaging(i) PROVE ReportedIsComplete'
    BY <2>4 DEF SealStaging
  <2>5. ASSUME NEW i \in Instances, StagingFails(i) PROVE ReportedIsComplete'
    BY <2>5 DEF StagingFails
  <2>6. ASSUME NEW i \in Instances, Publish(i) PROVE ReportedIsComplete'
    BY <2>6 DEF Publish
  <2>7. ASSUME NEW i \in Instances, SyncExports(i) PROVE ReportedIsComplete'
    BY <2>7 DEF SyncExports
  <2>8. ASSUME NEW i \in Instances, SyncExportsFails(i) PROVE ReportedIsComplete'
    BY <2>8 DEF SyncExportsFails
  <2>9. ASSUME NEW i \in Instances, Complete(i) PROVE ReportedIsComplete'
    BY <2>9 DEF Complete, NotStaging, Return, Step, Busy, Exporting
  <2>10. ASSUME NEW i \in Instances, CompleteFails(i) PROVE ReportedIsComplete'
    BY <2>10 DEF CompleteFails
  <2>11. ASSUME NEW i \in Instances, Undo(i) PROVE ReportedIsComplete'
    BY <2>11 DEF Undo
  <2>12. ASSUME NEW i \in Instances, RecordFailure(i) PROVE ReportedIsComplete'
    BY <2>12 DEF RecordFailure, NotStaging
  <2>13. ASSUME NEW i \in Instances, RemoveFile(i) PROVE ReportedIsComplete'
    BY <2>13 DEF RemoveFile
  <2>14. ASSUME NEW i \in Instances, RemoveStaging(i) PROVE ReportedIsComplete'
    BY <2>14 DEF RemoveStaging
  <2>15. ASSUME NEW i \in Instances, RemovalFails(i) PROVE ReportedIsComplete'
    BY <2>15 DEF RemovalFails
  <2>16. ASSUME NEW i \in Instances, Load(i) PROVE ReportedIsComplete'
    BY <2>16 DEF Load
  <2>17. ASSUME NEW i \in Instances, MarkFailed(i) PROVE ReportedIsComplete'
    BY <2>17 DEF MarkFailed, NotStaging
  <2>18. ASSUME NEW i \in Instances, NEW e \in Exports, RecoverNext(i, e) PROVE ReportedIsComplete'
    BY <2>18 DEF RecoverNext
  <2>19. ASSUME NEW i \in Instances, LoadFails(i) PROVE ReportedIsComplete'
    BY <2>19 DEF LoadFails
  <2>20. ASSUME NEW i \in Instances, Loaded(i) PROVE ReportedIsComplete'
    BY <2>20 DEF Loaded
  <2>21. ASSUME NEW i \in Instances, Launch(i) PROVE ReportedIsComplete'
    BY <2>21 DEF Launch
  <2>22. ASSUME NEW i \in Instances, Exit(i) PROVE ReportedIsComplete'
    BY <2>22 DEF Exit
  <2>23. ASSUME NEW p \in Places, MoveProject(p) PROVE ReportedIsComplete'
    BY <2>23 DEF MoveProject
  <2>24. CASE PowerLoss
    BY <2>24 DEF PowerLoss
  <2>25. CASE UNCHANGED vars
    BY <2>25 DEF vars
  <2> QED
    BY <2>1, <2>2, <2>3, <2>4, <2>5, <2>6, <2>7, <2>8, <2>9, <2>10, <2>11, <2>12, <2>13, <2>14, <2>15, <2>16, <2>17, <2>18, <2>19, <2>20, <2>21, <2>22, <2>23, <2>24, <2>25 DEF Next, ExportStep, RemovalStep, LoadStep
<1> QED
  BY <1>1, <1>2, TypeAndBusy, PTL DEF Spec

(***************************************************************************)
(* When a load is done, every row that was staging when it began is closed *)
(* (recover_stale_exports).                                                *)
(***************************************************************************)

\* a row of the list that is still staging is one the load has still to close
Visited ==
    \A i \in Instances : phase[i] \in Recovering =>
        \A x \in due[i] :
            /\ row[x] # "absent"
            /\ row[x] = "staging" =>
                   x \in stale[i] \/ (phase[i] # "recovering" /\ x = current[i])

THEOREM LoadClosesRows == Spec => []LoadClosesAbandoned
<1>1. Init => Visited
  BY DEF Init, Visited, Recovering
<1>2. TypeOK /\ Busy /\ Visited /\ [Next]_vars => Visited'
  <2> SUFFICES ASSUME TypeOK, Busy, Visited, [Next]_vars PROVE Visited'
    OBVIOUS
  <2> USE DEF TypeOK, Busy, Visited, rowVars, diskVars, instanceVars, historyVars, Exporting,
              Recovering
  <2>1. ASSUME NEW i \in Instances, NEW e \in Exports, Begin(i, e) PROVE Visited'
    BY <2>1 DEF Begin, Step
  <2>2. ASSUME NEW i \in Instances, CreateStaging(i) PROVE Visited'
    BY <2>2 DEF CreateStaging, Step
  <2>3. ASSUME NEW i \in Instances, WriteFile(i) PROVE Visited'
    BY <2>3 DEF WriteFile, Step
  <2>4. ASSUME NEW i \in Instances, SealStaging(i) PROVE Visited'
    BY <2>4 DEF SealStaging, Step
  <2>5. ASSUME NEW i \in Instances, StagingFails(i) PROVE Visited'
    BY <2>5 DEF StagingFails
  <2>6. ASSUME NEW i \in Instances, Publish(i) PROVE Visited'
    BY <2>6 DEF Publish, Step
  <2>7. ASSUME NEW i \in Instances, SyncExports(i) PROVE Visited'
    BY <2>7 DEF SyncExports, Step
  <2>8. ASSUME NEW i \in Instances, SyncExportsFails(i) PROVE Visited'
    BY <2>8 DEF SyncExportsFails, Step
  <2>9. ASSUME NEW i \in Instances, Complete(i) PROVE Visited'
    BY <2>9 DEF Complete, Return, Step
  <2>10. ASSUME NEW i \in Instances, CompleteFails(i) PROVE Visited'
    BY <2>10 DEF CompleteFails, Step
  <2>11. ASSUME NEW i \in Instances, Undo(i) PROVE Visited'
    BY <2>11 DEF Undo, Return, Step
  <2>12. ASSUME NEW i \in Instances, RecordFailure(i) PROVE Visited'
    BY <2>12 DEF RecordFailure, Return, Step, NotStaging
  <2>13. ASSUME NEW i \in Instances, RemoveFile(i) PROVE Visited'
    BY <2>13 DEF RemoveFile
  <2>14. ASSUME NEW i \in Instances, RemoveStaging(i) PROVE Visited'
    BY <2>14 DEF RemoveStaging, AfterRemoval
  <2>15. ASSUME NEW i \in Instances, RemovalFails(i) PROVE Visited'
    BY <2>15 DEF RemovalFails, AfterRemoval
  <2>16. ASSUME NEW i \in Instances, Load(i) PROVE Visited'
    BY <2>16 DEF Load, Step
  <2>17. ASSUME NEW i \in Instances, MarkFailed(i) PROVE Visited'
    BY <2>17 DEF MarkFailed, Step, NotStaging
  <2>18. ASSUME NEW i \in Instances, NEW e \in Exports, RecoverNext(i, e) PROVE Visited'
    BY <2>18 DEF RecoverNext, Step
  <2>19. ASSUME NEW i \in Instances, LoadFails(i) PROVE Visited'
    BY <2>19 DEF LoadFails, Return, Step
  <2>20. ASSUME NEW i \in Instances, Loaded(i) PROVE Visited'
    BY <2>20 DEF Loaded, Return, Step
  <2>21. ASSUME NEW i \in Instances, Launch(i) PROVE Visited'
    BY <2>21 DEF Launch, Step
  <2>22. ASSUME NEW i \in Instances, Exit(i) PROVE Visited'
    BY <2>22 DEF Exit
  <2>23. ASSUME NEW p \in Places, MoveProject(p) PROVE Visited'
    BY <2>23 DEF MoveProject
  <2>24. CASE PowerLoss
    BY <2>24 DEF PowerLoss
  <2>25. CASE UNCHANGED vars
    BY <2>25 DEF vars
  <2> QED
    BY <2>1, <2>2, <2>3, <2>4, <2>5, <2>6, <2>7, <2>8, <2>9, <2>10, <2>11, <2>12, <2>13, <2>14, <2>15, <2>16, <2>17, <2>18, <2>19, <2>20, <2>21, <2>22, <2>23, <2>24, <2>25 DEF Next, ExportStep, RemovalStep, LoadStep
<1>3. Visited => LoadClosesAbandoned
  BY DEF Visited, LoadClosesAbandoned, Recovering
<1> QED
  BY <1>1, <1>2, <1>3, TypeAndBusy, PTL DEF Spec

(***************************************************************************)
(* The inductive invariant.                                                *)
(***************************************************************************)
LEMMA InvariantHolds == Spec => []IInv
<1> USE ExportAssumption
<1> USE DEF rowVars, diskVars, instanceVars, historyVars, vars, Exporting, Recovering
<1>1. Init => IInv
  <2> SUFFICES ASSUME Init PROVE IInv
    OBVIOUS
  <2>1. TypeOK
    BY DEF Init, TypeOK, Rows, Names, Phases, AllFiles, Manifest
  <2> QED
    BY <2>1 DEF Init, IInv, Busy, Fresh, Alone, Unshared, Progressing, Emptied, Tended,
                FailedIsGone, CompleteIsPublished
<1>2. IInv /\ TypeOK' /\ Busy' /\ [Next]_vars => IInv'
  <2> SUFFICES ASSUME IInv, TypeOK', Busy', [Next]_vars PROVE IInv'
    OBVIOUS
  <2>1. ASSUME NEW i \in Instances, NEW e \in Exports, Begin(i, e) PROVE IInv'
    <3>1. Progressing'
      <4> SUFFICES ASSUME NEW k \in Instances, (phase[k] \in Exporting)',
                          (current[k] \notin contested)'
                   PROVE  Due(k, current[k])'
        BY DEF Progressing
      <4>1. CASE k = i
        <5>1. /\ current'[i] = e /\ phase'[i] = "creating" /\ row'[e] = "staging"
              /\ at'[e] = "none" /\ files'[e] = {}
          BY <2>1 DEF Begin, Step, IInv, TypeOK, Fresh
        <5>2. written'[i] = 0
          BY <2>1 DEF Begin, Step, IInv, Busy, Exporting
        <5> QED
          BY <4>1, <5>1, <5>2 DEF Due
      <4>2. CASE k # i
        <5>1. /\ phase'[k] = phase[k] /\ current'[k] = current[k] /\ written'[k] = written[k]
              /\ current[k] \in Exports /\ current[k] \notin contested /\ row[current[k]] # "absent"
          BY <2>1, <4>2 DEF Begin, Step, IInv, TypeOK, Busy
        <5>2. Due(k, current[k]) /\ row'[current[k]] = row[current[k]]
          BY <2>1, <5>1 DEF Begin, IInv, TypeOK, Progressing
        <5> QED
          BY <2>1, <5>1, <5>2 DEF Begin, Due, Whole, Published
      <4> QED
        BY <4>1, <4>2
    <3>2. Tended'
      <4> SUFFICES ASSUME NEW x \in Exports \ (contested \union stranded),
                          row'[x] = "staging", at'[x] = "final"
                   PROVE  \E k \in Instances : current'[k] = x
                              /\ phase'[k] \in {"syncing", "completing", "undoing"}
        BY <2>1 DEF Begin, Tended
      <4>1. x # e /\ row[x] = "staging" /\ at[x] = "final"
        BY <2>1 DEF Begin, IInv, TypeOK, Fresh
      <4>2. PICK k \in Instances :
                current[k] = x /\ phase[k] \in {"syncing", "completing", "undoing"}
        BY <4>1 DEF IInv, Tended
      <4>3. current'[k] = x /\ phase'[k] = phase[k]
        BY <2>1, <4>2 DEF Begin, Step, IInv, TypeOK
      <4> QED
        BY <4>2, <4>3
    <3>3. (Fresh /\ Alone /\ Unshared /\ Emptied /\ FailedIsGone /\ CompleteIsPublished)'
      BY <2>1 DEF Begin, Step, IInv, TypeOK, Busy, Fresh, Alone, Unshared, Emptied, Exists,
             Tended, Progressing, Due, FailedIsGone, CompleteIsPublished, Published
    <3> QED
      BY <3>1, <3>2, <3>3 DEF IInv
  <2>2. ASSUME NEW i \in Instances, CreateStaging(i) PROVE IInv'
    <3>1. Progressing'
      <4> SUFFICES ASSUME NEW k \in Instances, (phase[k] \in Exporting)',
                          (current[k] \notin contested)'
                   PROVE  Due(k, current[k])'
        BY DEF Progressing
      <4>1. CASE k = i
        <5>1. Due(i, current[i]) /\ current'[i] = current[i] /\ current[i] \in Exports
          BY <2>2, <4>1 DEF CreateStaging, Step, IInv, TypeOK, Busy, Progressing
        <5>2. files'[current[i]] = {} /\ written'[i] = 0 /\ row'[current[i]] = "staging"
          BY <2>2, <5>1 DEF CreateStaging, Step, Due
        <5>3. phase'[i] = "writing" /\ at'[current[i]] = "staging"
          BY <2>2, <5>1 DEF CreateStaging, Step, IInv, TypeOK
        <5>4. 1..0 = {} /\ 0 < Manifest
          BY DEF Manifest
        <5> QED
          BY <4>1, <5>1, <5>2, <5>3, <5>4 DEF Due
      <4>2. CASE k # i
        <5>1. /\ phase'[k] = phase[k] /\ current'[k] = current[k] /\ written'[k] = written[k]
              /\ current[k] \in Exports /\ current[k] \notin contested
          BY <2>2, <4>2 DEF CreateStaging, Step, IInv, TypeOK, Busy
        <5>2. current[k] # current[i]
          BY <2>2, <4>2, <5>1 DEF CreateStaging, Step, IInv, Alone
        <5>3. Due(k, current[k])
          BY <5>1 DEF IInv, Progressing
        <5>4. /\ row'[current[k]] = row[current[k]] /\ at'[current[k]] = at[current[k]]
              /\ files'[current[k]] = files[current[k]] /\ sealed'[current[k]] = sealed[current[k]]
              /\ durableAt'[current[k]] = durableAt[current[k]]
              /\ current[k] \in stranded => current[k] \in stranded'
          BY <2>2, <5>1, <5>2 DEF CreateStaging, Step, IInv, TypeOK
        <5> QED
          BY <5>1, <5>3, <5>4 DEF Due, Whole, Published
      <4> QED
        BY <4>1, <4>2
    <3>2. (Fresh /\ Alone /\ Unshared /\ Emptied /\ Tended /\ FailedIsGone /\ CompleteIsPublished)'
      BY <2>2 DEF CreateStaging, Step, IInv, TypeOK, Busy, Fresh, Alone, Unshared, Emptied,
             Exists, Tended, Progressing, Due, FailedIsGone, CompleteIsPublished,
             Published
    <3> QED
      BY <3>1, <3>2 DEF IInv
  <2>3. ASSUME NEW i \in Instances, WriteFile(i) PROVE IInv'
    <3>1. Progressing'
      <4> SUFFICES ASSUME NEW k \in Instances, (phase[k] \in Exporting)',
                          (current[k] \notin contested)'
                   PROVE  Due(k, current[k])'
        BY DEF Progressing
      <4>1. CASE k = i
        <5>1. Due(i, current[i]) /\ current'[i] = current[i] /\ current[i] \in Exports
          BY <2>3, <4>1 DEF WriteFile, Step, IInv, TypeOK, Busy, Progressing
        <5>2. files'[current[i]] = 1..written'[i] /\ written'[i] = written[i] + 1
          BY <2>3, <5>1 DEF WriteFile, Step, IInv, TypeOK, Due
        <5>3. written[i] + 1 # Manifest => written'[i] < Manifest
          BY <2>3, <5>2 DEF WriteFile, IInv, TypeOK, Manifest
        <5>4. /\ at'[current[i]] = "staging" /\ row'[current[i]] = "staging"
              /\ phase'[i] = IF written[i] + 1 = Manifest THEN "sealing" ELSE "writing"
          BY <2>3, <5>1 DEF WriteFile, Step, Exists, IInv, TypeOK, Due
        <5> QED
          BY <4>1, <5>1, <5>2, <5>3, <5>4 DEF Due, AllFiles
      <4>2. CASE k # i
        <5>1. /\ phase'[k] = phase[k] /\ current'[k] = current[k] /\ written'[k] = written[k]
              /\ current[k] \in Exports /\ current[k] \notin contested
          BY <2>3, <4>2 DEF WriteFile, Step, IInv, TypeOK, Busy
        <5>2. current[k] # current[i]
          BY <2>3, <4>2, <5>1 DEF WriteFile, Step, IInv, Alone
        <5>3. Due(k, current[k])
          BY <5>1 DEF IInv, Progressing
        <5>4. /\ row'[current[k]] = row[current[k]] /\ at'[current[k]] = at[current[k]]
              /\ files'[current[k]] = files[current[k]] /\ sealed'[current[k]] = sealed[current[k]]
              /\ durableAt'[current[k]] = durableAt[current[k]]
              /\ current[k] \in stranded => current[k] \in stranded'
          BY <2>3, <5>1, <5>2 DEF WriteFile, Step, IInv, TypeOK
        <5> QED
          BY <5>1, <5>3, <5>4 DEF Due, Whole, Published
      <4> QED
        BY <4>1, <4>2
    <3>2. (Fresh /\ Alone /\ Unshared /\ Emptied /\ Tended /\ FailedIsGone /\ CompleteIsPublished)'
      BY <2>3 DEF WriteFile, Step, IInv, TypeOK, Busy, Fresh, Alone, Unshared, Emptied,
             Exists, Tended, Progressing, Due, FailedIsGone, CompleteIsPublished,
             Published
    <3> QED
      BY <3>1, <3>2 DEF IInv
  <2>4. ASSUME NEW i \in Instances, SealStaging(i) PROVE IInv'
    <3>1. (Fresh /\ Alone /\ Unshared /\ Progressing /\ Emptied /\ Tended /\ FailedIsGone /\ CompleteIsPublished)'
      BY <2>4 DEF SealStaging, Step, IInv, TypeOK, Busy, Fresh, Alone, Unshared, Progressing,
             Due, Whole, Published, Emptied, Exists, Tended, FailedIsGone,
             CompleteIsPublished
    <3> QED
      BY <3>1 DEF IInv
  <2>5. ASSUME NEW i \in Instances, StagingFails(i) PROVE IInv'
    <3>1. (Fresh /\ Alone /\ Unshared /\ Progressing /\ Emptied /\ Tended /\ FailedIsGone /\ CompleteIsPublished)'
      BY <2>5 DEF StagingFails, IInv, TypeOK, Busy, Fresh, Alone, Unshared, Progressing, Due,
             Whole, Published, Emptied, Exists, Tended, FailedIsGone,
             CompleteIsPublished
    <3> QED
      BY <3>1 DEF IInv
  <2>6. ASSUME NEW i \in Instances, Publish(i) PROVE IInv'
    <3>1. Progressing'
      <4> SUFFICES ASSUME NEW k \in Instances, (phase[k] \in Exporting)',
                          (current[k] \notin contested)'
                   PROVE  Due(k, current[k])'
        BY DEF Progressing
      <4>1. CASE k = i
        BY <2>6, <4>1 DEF Publish, Step, IInv, TypeOK, Busy, Progressing, Due, Whole, Published, Exists
      <4>2. CASE k # i
        <5>1. /\ phase'[k] = phase[k] /\ current'[k] = current[k] /\ written'[k] = written[k]
              /\ current[k] \in Exports /\ current[k] \notin contested
          BY <2>6, <4>2 DEF Publish, Step, IInv, TypeOK, Busy
        <5>2. current[k] # current[i]
          BY <2>6, <4>2, <5>1 DEF Publish, Step, IInv, Alone
        <5>3. Due(k, current[k])
          BY <5>1 DEF IInv, Progressing
        <5>4. /\ row'[current[k]] = row[current[k]] /\ at'[current[k]] = at[current[k]]
              /\ files'[current[k]] = files[current[k]] /\ sealed'[current[k]] = sealed[current[k]]
              /\ durableAt'[current[k]] = durableAt[current[k]]
              /\ current[k] \in stranded => current[k] \in stranded'
          BY <2>6, <5>1, <5>2 DEF Publish, Step, IInv, TypeOK
        <5> QED
          BY <5>1, <5>3, <5>4 DEF Due, Whole, Published
      <4> QED
        BY <4>1, <4>2
    <3>2. (Fresh /\ Alone /\ Unshared /\ Emptied /\ Tended /\ FailedIsGone /\ CompleteIsPublished)'
      BY <2>6 DEF Publish, Step, IInv, TypeOK, Busy, Fresh, Alone, Unshared, Emptied, Exists,
             Tended, Progressing, Due, FailedIsGone, CompleteIsPublished, Published
    <3> QED
      BY <3>1, <3>2 DEF IInv
  <2>7. ASSUME NEW i \in Instances, SyncExports(i) PROVE IInv'
    <3>1. (Fresh /\ Alone /\ Unshared /\ Progressing /\ Emptied /\ Tended /\ FailedIsGone /\ CompleteIsPublished)'
      BY <2>7 DEF SyncExports, Step, IInv, TypeOK, Busy, Fresh, Alone, Unshared, Progressing,
             Due, Whole, Published, Emptied, Exists, Tended, FailedIsGone,
             CompleteIsPublished
    <3> QED
      BY <3>1 DEF IInv
  <2>8. ASSUME NEW i \in Instances, SyncExportsFails(i) PROVE IInv'
    <3>1. (Fresh /\ Alone /\ Unshared /\ Progressing /\ Emptied /\ Tended /\ FailedIsGone /\ CompleteIsPublished)'
      BY <2>8 DEF SyncExportsFails, Step, IInv, TypeOK, Busy, Fresh, Alone, Unshared,
             Progressing, Due, Whole, Published, Emptied, Exists, Tended, FailedIsGone,
             CompleteIsPublished
    <3> QED
      BY <3>1 DEF IInv
  <2>9. ASSUME NEW i \in Instances, Complete(i) PROVE IInv'
    <3>1. Progressing'
      <4> SUFFICES ASSUME NEW k \in Instances, (phase[k] \in Exporting)',
                          (current[k] \notin contested)'
                   PROVE  Due(k, current[k])'
        BY DEF Progressing
      <4>1. k # i
        BY <2>9 DEF Complete, Return, Step, TypeOK
      <4>2. Due(k, current[k])'
        <5>1. /\ phase'[k] = phase[k] /\ current'[k] = current[k] /\ written'[k] = written[k]
              /\ current[k] \in Exports /\ current[k] \notin contested
          BY <2>9, <4>1 DEF Complete, Return, Step, IInv, TypeOK, Busy
        <5>2. current[k] # current[i]
          BY <2>9, <4>1, <5>1 DEF Complete, Return, Step, IInv, Alone
        <5>3. Due(k, current[k])
          BY <5>1 DEF IInv, Progressing
        <5>4. /\ row'[current[k]] = row[current[k]] /\ at'[current[k]] = at[current[k]]
              /\ files'[current[k]] = files[current[k]] /\ sealed'[current[k]] = sealed[current[k]]
              /\ durableAt'[current[k]] = durableAt[current[k]]
              /\ current[k] \in stranded => current[k] \in stranded'
          BY <2>9, <5>1, <5>2 DEF Complete, Return, Step, IInv, TypeOK
        <5> QED
          BY <5>1, <5>3, <5>4 DEF Due, Whole, Published
      <4> QED
        BY <4>2
    <3>2. (Fresh /\ Alone /\ Unshared /\ Emptied /\ Tended /\ FailedIsGone /\ CompleteIsPublished)'
      BY <2>9 DEF Complete, Return, Step, IInv, TypeOK, Busy, Fresh, Alone, Unshared, Emptied,
             Exists, Tended, Progressing, Due, FailedIsGone, CompleteIsPublished,
             Published
    <3> QED
      BY <3>1, <3>2 DEF IInv
  <2>10. ASSUME NEW i \in Instances, CompleteFails(i) PROVE IInv'
    <3>1. (Fresh /\ Alone /\ Unshared /\ Progressing /\ Emptied /\ Tended /\ FailedIsGone /\ CompleteIsPublished)'
      BY <2>10 DEF CompleteFails, Step, IInv, TypeOK, Busy, Fresh, Alone, Unshared,
             Progressing, Due, Whole, Published, Emptied, Exists, Tended, FailedIsGone,
             CompleteIsPublished
    <3> QED
      BY <3>1 DEF IInv
  <2>11. ASSUME NEW i \in Instances, Undo(i) PROVE IInv'
    <3>1. Progressing'
      <4> SUFFICES ASSUME NEW k \in Instances, (phase[k] \in Exporting)',
                          (current[k] \notin contested)'
                   PROVE  Due(k, current[k])'
        BY DEF Progressing
      <4>1. k # i
        BY <2>11 DEF Undo, Return, Strand, Step, TypeOK
      <4>2. Due(k, current[k])'
        <5>1. /\ phase'[k] = phase[k] /\ current'[k] = current[k] /\ written'[k] = written[k]
              /\ current[k] \in Exports /\ current[k] \notin contested
          BY <2>11, <4>1 DEF Undo, Return, Strand, Step, IInv, TypeOK, Busy
        <5>2. current[k] # current[i]
          BY <2>11, <4>1, <5>1 DEF Undo, Return, Strand, Step, IInv, Alone
        <5>3. Due(k, current[k])
          BY <5>1 DEF IInv, Progressing
        <5>4. /\ row'[current[k]] = row[current[k]] /\ at'[current[k]] = at[current[k]]
              /\ files'[current[k]] = files[current[k]] /\ sealed'[current[k]] = sealed[current[k]]
              /\ durableAt'[current[k]] = durableAt[current[k]]
              /\ current[k] \in stranded => current[k] \in stranded'
          BY <2>11, <5>1, <5>2 DEF Undo, Return, Strand, Step, IInv, TypeOK
        <5> QED
          BY <5>1, <5>3, <5>4 DEF Due, Whole, Published
      <4> QED
        BY <4>2
    <3>2. (Fresh /\ Alone /\ Unshared /\ Emptied /\ Tended /\ FailedIsGone /\ CompleteIsPublished)'
      BY <2>11 DEF Undo, Return, Strand, Step, IInv, TypeOK, Busy, Fresh, Alone, Unshared,
             Emptied, Exists, Tended, Progressing, Due, FailedIsGone,
             CompleteIsPublished, Published
    <3> QED
      BY <3>1, <3>2 DEF IInv
  <2>12. ASSUME NEW i \in Instances, RecordFailure(i) PROVE IInv'
    <3>1. Progressing'
      <4> SUFFICES ASSUME NEW k \in Instances, (phase[k] \in Exporting)',
                          (current[k] \notin contested)'
                   PROVE  Due(k, current[k])'
        BY DEF Progressing
      <4>1. k # i
        BY <2>12 DEF RecordFailure, Return, Step, TypeOK
      <4>2. Due(k, current[k])'
        <5>1. /\ phase'[k] = phase[k] /\ current'[k] = current[k] /\ written'[k] = written[k]
              /\ current[k] \in Exports /\ current[k] \notin contested
          BY <2>12, <4>1 DEF RecordFailure, Return, Step, IInv, TypeOK, Busy
        <5>2. current[k] # current[i]
          BY <2>12, <4>1, <5>1 DEF RecordFailure, Return, Step, IInv, Alone
        <5>3. Due(k, current[k])
          BY <5>1 DEF IInv, Progressing
        <5>4. /\ row'[current[k]] = row[current[k]] /\ at'[current[k]] = at[current[k]]
              /\ files'[current[k]] = files[current[k]] /\ sealed'[current[k]] = sealed[current[k]]
              /\ durableAt'[current[k]] = durableAt[current[k]]
              /\ current[k] \in stranded => current[k] \in stranded'
          BY <2>12, <5>1, <5>2 DEF RecordFailure, Return, Step, IInv, TypeOK
        <5> QED
          BY <5>1, <5>3, <5>4 DEF Due, Whole, Published
      <4> QED
        BY <4>2
    <3>2. (Fresh /\ Alone /\ Unshared /\ Emptied /\ Tended /\ CompleteIsPublished)'
      BY <2>12 DEF RecordFailure, Return, Step, IInv, TypeOK, Busy, Fresh, Alone, Unshared,
             Emptied, Exists, Tended, Progressing, Due, CompleteIsPublished, Published
    <3>3. (FailedIsGone)'
      BY <2>12 DEF RecordFailure, Return, Step, IInv, TypeOK, Busy, FailedIsGone, Progressing,
             Due, Emptied, Exists
    <3> QED
      BY <3>1, <3>2, <3>3 DEF IInv
  <2>13. ASSUME NEW i \in Instances, RemoveFile(i) PROVE IInv'
    <3>1. Progressing'
      <4> SUFFICES ASSUME NEW k \in Instances, (phase[k] \in Exporting)',
                          (current[k] \notin contested)'
                   PROVE  Due(k, current[k])'
        BY DEF Progressing
      <4>1. CASE k = i
        BY <2>13, <4>1 DEF RemoveFile, IInv, TypeOK, Busy, Progressing, Due, Whole, Published, Exists
      <4>2. CASE k # i
        <5>1. /\ phase'[k] = phase[k] /\ current'[k] = current[k] /\ written'[k] = written[k]
              /\ current[k] \in Exports /\ current[k] \notin contested
          BY <2>13, <4>2 DEF RemoveFile, IInv, TypeOK, Busy
        <5>2. current[k] # current[i]
          BY <2>13, <4>2, <5>1 DEF RemoveFile, IInv, Alone, Unshared
        <5>3. Due(k, current[k])
          BY <5>1 DEF IInv, Progressing
        <5>4. /\ row'[current[k]] = row[current[k]] /\ at'[current[k]] = at[current[k]]
              /\ files'[current[k]] = files[current[k]] /\ sealed'[current[k]] = sealed[current[k]]
              /\ durableAt'[current[k]] = durableAt[current[k]]
              /\ current[k] \in stranded => current[k] \in stranded'
          BY <2>13, <5>1, <5>2 DEF RemoveFile, IInv, TypeOK
        <5> QED
          BY <5>1, <5>3, <5>4 DEF Due, Whole, Published
      <4> QED
        BY <4>1, <4>2
    <3>2. (Fresh /\ Alone /\ Unshared /\ Emptied /\ Tended /\ FailedIsGone /\ CompleteIsPublished)'
      BY <2>13 DEF RemoveFile, IInv, TypeOK, Busy, Fresh, Alone, Unshared, Emptied, Exists,
             Tended, Progressing, Due, FailedIsGone, CompleteIsPublished, Published
    <3> QED
      BY <3>1, <3>2 DEF IInv
  <2>14. ASSUME NEW i \in Instances, RemoveStaging(i) PROVE IInv'
    <3>1. Progressing'
      <4> SUFFICES ASSUME NEW k \in Instances, (phase[k] \in Exporting)',
                          (current[k] \notin contested)'
                   PROVE  Due(k, current[k])'
        BY DEF Progressing
      <4>1. CASE k = i
        <5>1. /\ phase[i] = "cleaning" /\ phase'[i] = "failing" /\ current'[i] = current[i]
              /\ current[i] \in Exports
          BY <2>14, <4>1 DEF RemoveStaging, AfterRemoval, IInv, TypeOK, Busy
        <5>2. Due(i, current[i])
          BY <2>14, <5>1, <4>1 DEF RemoveStaging, IInv, Progressing
        <5>3. at[current[i]] \in {"none", "staging"} /\ row'[current[i]] = "staging"
          BY <2>14, <5>1, <5>2 DEF RemoveStaging, Due, IInv, TypeOK, Names
        <5>4. at'[current[i]] = "none" \/ (at'[current[i]] = "staging" /\ current[i] \in stranded')
          BY <2>14, <5>1, <5>3 DEF RemoveStaging, Strand, Exists, IInv, TypeOK
        <5> QED
          BY <4>1, <5>1, <5>3, <5>4 DEF Due
      <4>2. CASE k # i
        <5>1. /\ phase'[k] = phase[k] /\ current'[k] = current[k] /\ written'[k] = written[k]
              /\ current[k] \in Exports /\ current[k] \notin contested
          BY <2>14, <4>2 DEF RemoveStaging, AfterRemoval, IInv, TypeOK, Busy
        <5>2. current[k] # current[i]
          BY <2>14, <4>2, <5>1 DEF RemoveStaging, AfterRemoval, IInv, Alone, Unshared
        <5>3. Due(k, current[k])
          BY <5>1 DEF IInv, Progressing
        <5>4. /\ row'[current[k]] = row[current[k]] /\ at'[current[k]] = at[current[k]]
              /\ files'[current[k]] = files[current[k]] /\ sealed'[current[k]] = sealed[current[k]]
              /\ durableAt'[current[k]] = durableAt[current[k]]
              /\ current[k] \in stranded => current[k] \in stranded'
          BY <2>14, <5>1, <5>2 DEF RemoveStaging, AfterRemoval, IInv, TypeOK
        <5> QED
          BY <5>1, <5>3, <5>4 DEF Due, Whole, Published
      <4> QED
        BY <4>1, <4>2
    <3>2. Emptied'
      <4> SUFFICES ASSUME NEW k \in Instances, phase'[k] = "marking",
                          current[k] \notin contested \union stranded,
                          row[current[k]] = "staging"
                   PROVE  at'[current[k]] = "none"
        BY <2>14 DEF RemoveStaging, Emptied
      <4>1. current[k] \in Exports
        BY <2>14 DEF RemoveStaging, TypeOK, Busy
      <4>2. CASE phase[k] = "marking"
        <5>1. at[current[k]] = "none"
          BY <4>2 DEF IInv, Emptied
        <5> QED
          BY <2>14, <4>1, <5>1 DEF RemoveStaging, IInv, TypeOK, Exists
      <4>3. CASE phase[k] # "marking"
        <5>1. k = i /\ phase[i] = "removing"
          BY <2>14, <4>3 DEF RemoveStaging, AfterRemoval, IInv, TypeOK
        <5>2. at[current[i]] # "final"
          BY <5>1, <4>1 DEF IInv, Tended, Unshared
        <5> QED
          BY <2>14, <4>1, <5>1, <5>2 DEF RemoveStaging, IInv, TypeOK, Exists, Names
      <4> QED
        BY <4>2, <4>3
    <3>3. (Fresh /\ Alone /\ Unshared /\ Tended /\ FailedIsGone /\ CompleteIsPublished)'
      BY <2>14 DEF RemoveStaging, AfterRemoval, IInv, TypeOK, Busy, Fresh, Alone, Unshared,
             Tended, FailedIsGone, Progressing, Due, Emptied, Exists,
             CompleteIsPublished, Published
    <3> QED
      BY <3>1, <3>2, <3>3 DEF IInv
  <2>15. ASSUME NEW i \in Instances, RemovalFails(i) PROVE IInv'
    <3>1. Progressing'
      <4> SUFFICES ASSUME NEW k \in Instances, (phase[k] \in Exporting)',
                          (current[k] \notin contested)'
                   PROVE  Due(k, current[k])'
        BY DEF Progressing
      <4>1. CASE k = i
        <5>1. /\ phase[i] = "cleaning" /\ phase'[i] = "failing" /\ current'[i] = current[i]
              /\ current[i] \in Exports
          BY <2>15, <4>1 DEF RemovalFails, AfterRemoval, IInv, TypeOK, Busy
        <5>2. Due(i, current[i])
          BY <2>15, <5>1, <4>1 DEF RemovalFails, IInv, Progressing
        <5>3. at[current[i]] \in {"none", "staging"} /\ row'[current[i]] = "staging"
          BY <2>15, <5>1, <5>2 DEF RemovalFails, Due, IInv, TypeOK, Names
        <5>4. at'[current[i]] = "none" \/ (at'[current[i]] = "staging" /\ current[i] \in stranded')
          BY <2>15, <5>1, <5>3 DEF RemovalFails, Strand, Exists, IInv, TypeOK
        <5> QED
          BY <4>1, <5>1, <5>3, <5>4 DEF Due
      <4>2. CASE k # i
        <5>1. /\ phase'[k] = phase[k] /\ current'[k] = current[k] /\ written'[k] = written[k]
              /\ current[k] \in Exports /\ current[k] \notin contested
          BY <2>15, <4>2 DEF RemovalFails, AfterRemoval, Strand, IInv, TypeOK, Busy
        <5>2. current[k] # current[i]
          BY <2>15, <4>2, <5>1 DEF RemovalFails, AfterRemoval, Strand, IInv, Alone, Unshared
        <5>3. Due(k, current[k])
          BY <5>1 DEF IInv, Progressing
        <5>4. /\ row'[current[k]] = row[current[k]] /\ at'[current[k]] = at[current[k]]
              /\ files'[current[k]] = files[current[k]] /\ sealed'[current[k]] = sealed[current[k]]
              /\ durableAt'[current[k]] = durableAt[current[k]]
              /\ current[k] \in stranded => current[k] \in stranded'
          BY <2>15, <5>1, <5>2 DEF RemovalFails, AfterRemoval, Strand, IInv, TypeOK
        <5> QED
          BY <5>1, <5>3, <5>4 DEF Due, Whole, Published
      <4> QED
        BY <4>1, <4>2
    <3>2. (Fresh /\ Alone /\ Unshared /\ Emptied /\ Tended /\ FailedIsGone /\ CompleteIsPublished)'
      BY <2>15 DEF RemovalFails, AfterRemoval, Strand, IInv, TypeOK, Busy, Fresh, Alone,
             Unshared, Emptied, Exists, Tended, Progressing, Due, FailedIsGone,
             CompleteIsPublished, Published
    <3> QED
      BY <3>1, <3>2 DEF IInv
  <2>16. ASSUME NEW i \in Instances, Load(i) PROVE IInv'
    <3>1. (Fresh /\ Alone /\ Unshared /\ Progressing /\ Emptied /\ Tended /\ FailedIsGone /\ CompleteIsPublished)'
      BY <2>16 DEF Load, Step, IInv, TypeOK, Busy, Fresh, Alone, Unshared, Progressing, Due,
             Whole, Published, Emptied, Exists, Tended, FailedIsGone,
             CompleteIsPublished
    <3> QED
      BY <3>1 DEF IInv
  <2>17. ASSUME NEW i \in Instances, MarkFailed(i) PROVE IInv'
    <3>1. Progressing'
      <4> SUFFICES ASSUME NEW k \in Instances, (phase[k] \in Exporting)',
                          (current[k] \notin contested)'
                   PROVE  Due(k, current[k])'
        BY DEF Progressing
      <4>1. k # i
        BY <2>17 DEF MarkFailed, Step, TypeOK
      <4>2. Due(k, current[k])'
        <5>1. /\ phase'[k] = phase[k] /\ current'[k] = current[k] /\ written'[k] = written[k]
              /\ current[k] \in Exports /\ current[k] \notin contested
          BY <2>17, <4>1 DEF MarkFailed, Step, IInv, TypeOK, Busy
        <5>2. current[k] # current[i]
          BY <2>17, <4>1, <5>1 DEF MarkFailed, Step, IInv, Unshared
        <5>3. Due(k, current[k])
          BY <5>1 DEF IInv, Progressing
        <5>4. /\ row'[current[k]] = row[current[k]] /\ at'[current[k]] = at[current[k]]
              /\ files'[current[k]] = files[current[k]] /\ sealed'[current[k]] = sealed[current[k]]
              /\ durableAt'[current[k]] = durableAt[current[k]]
              /\ current[k] \in stranded => current[k] \in stranded'
          BY <2>17, <5>1, <5>2 DEF MarkFailed, Step, IInv, TypeOK
        <5> QED
          BY <5>1, <5>3, <5>4 DEF Due, Whole, Published
      <4> QED
        BY <4>2
    <3>2. FailedIsGone'
      <4> SUFFICES ASSUME NEW x \in Exports \ (contested \union stranded), row'[x] = "failed"
                   PROVE  at'[x] = "none"
        BY <2>17 DEF MarkFailed, FailedIsGone
      <4>1. CASE row[x] = "failed"
        BY <2>17, <4>1 DEF MarkFailed, IInv, FailedIsGone
      <4>2. CASE row[x] # "failed"
        <5>1. x = current[i] /\ row[x] = "staging" /\ phase[i] = "marking"
          BY <2>17, <4>2 DEF MarkFailed, Step, NotStaging, IInv, TypeOK
        <5> QED
          BY <2>17, <5>1 DEF MarkFailed, IInv, Emptied
      <4> QED
        BY <4>1, <4>2
    <3>3. (Fresh /\ Alone /\ Unshared /\ Emptied /\ Tended /\ CompleteIsPublished)'
      BY <2>17 DEF MarkFailed, Step, IInv, TypeOK, Busy, Fresh, Alone, Unshared, Emptied,
             Exists, Tended, Progressing, Due, CompleteIsPublished, Published
    <3> QED
      BY <3>1, <3>2, <3>3 DEF IInv
  <2>18. ASSUME NEW i \in Instances, NEW e \in Exports, RecoverNext(i, e) PROVE IInv'
    <3>1. Unshared'
      <4> SUFFICES ASSUME NEW k \in Instances, NEW m \in Instances, phase'[k] \in Exporting,
                          phase'[m] \in {"removing", "marking"}, current'[k] = current'[m]
                   PROVE  current'[k] \in contested'
        BY DEF Unshared
      <4>1. k # i /\ phase'[k] = phase[k] /\ current'[k] = current[k]
        BY <2>18 DEF RecoverNext, Step, IInv, TypeOK
      <4>2. CASE m = i
        <5>1. current[k] = e /\ WorkedOnElsewhere(i, e)
          BY <2>18, <4>1, <4>2 DEF RecoverNext, WorkedOnElsewhere, IInv, TypeOK
        <5> QED
          BY <2>18, <4>1, <5>1 DEF RecoverNext
      <4>3. CASE m # i
        <5>1. phase'[m] = phase[m] /\ current'[m] = current[m]
          BY <2>18, <4>3 DEF RecoverNext, Step, IInv, TypeOK
        <5> QED
          BY <2>18, <4>1, <5>1 DEF RecoverNext, IInv, Unshared
      <4> QED
        BY <4>2, <4>3
    <3>2. (Fresh /\ Alone /\ Progressing /\ Emptied /\ Tended /\ FailedIsGone /\ CompleteIsPublished)'
      BY <2>18 DEF RecoverNext, Step, IInv, TypeOK, Busy, Fresh, Alone, Progressing, Due,
             Whole, Published, Emptied, Exists, Tended, Unshared, FailedIsGone,
             CompleteIsPublished
    <3> QED
      BY <3>1, <3>2 DEF IInv
  <2>19. ASSUME NEW i \in Instances, LoadFails(i) PROVE IInv'
    <3>1. (Fresh /\ Alone /\ Unshared /\ Progressing /\ Emptied /\ Tended /\ FailedIsGone /\ CompleteIsPublished)'
      BY <2>19 DEF LoadFails, Return, Step, IInv, TypeOK, Busy, Fresh, Alone, Unshared,
             Progressing, Due, Whole, Published, Emptied, Exists, Tended, FailedIsGone,
             CompleteIsPublished
    <3> QED
      BY <3>1 DEF IInv
  <2>20. ASSUME NEW i \in Instances, Loaded(i) PROVE IInv'
    <3>1. (Fresh /\ Alone /\ Unshared /\ Progressing /\ Emptied /\ Tended /\ FailedIsGone /\ CompleteIsPublished)'
      BY <2>20 DEF Loaded, Return, Step, IInv, TypeOK, Busy, Fresh, Alone, Unshared,
             Progressing, Due, Whole, Published, Emptied, Exists, Tended, FailedIsGone,
             CompleteIsPublished
    <3> QED
      BY <3>1 DEF IInv
  <2>21. ASSUME NEW i \in Instances, Launch(i) PROVE IInv'
    <3>1. (Fresh /\ Alone /\ Unshared /\ Progressing /\ Emptied /\ Tended /\ FailedIsGone /\ CompleteIsPublished)'
      BY <2>21 DEF Launch, Step, IInv, TypeOK, Busy, Fresh, Alone, Unshared, Progressing, Due,
             Whole, Published, Emptied, Exists, Tended, FailedIsGone,
             CompleteIsPublished
    <3> QED
      BY <3>1 DEF IInv
  <2>22. ASSUME NEW i \in Instances, Exit(i) PROVE IInv'
    <3>1. (Fresh /\ Alone /\ Unshared /\ Progressing /\ Emptied /\ Tended /\ FailedIsGone /\ CompleteIsPublished)'
      BY <2>22 DEF Exit, IInv, TypeOK, Busy, Fresh, Alone, Unshared, Progressing, Due, Whole,
             Published, Emptied, Exists, Tended, FailedIsGone, CompleteIsPublished
    <3> QED
      BY <3>1 DEF IInv
  <2>23. ASSUME NEW p \in Places, MoveProject(p) PROVE IInv'
    <3>1. (Fresh /\ Alone /\ Unshared /\ Progressing /\ Emptied /\ Tended /\ FailedIsGone /\ CompleteIsPublished)'
      BY <2>23 DEF MoveProject, IInv, TypeOK, Busy, Fresh, Alone, Unshared, Progressing, Due,
             Whole, Published, Emptied, Exists, Tended, FailedIsGone,
             CompleteIsPublished
    <3> QED
      BY <3>1 DEF IInv
  <2>24. CASE PowerLoss
    <3>1. Progressing'
      <4>1. \A k \in Instances : phase'[k] = "stopped"
        BY <2>24 DEF PowerLoss, AllStopped
      <4> QED
        BY <4>1 DEF Progressing
    <3>2. Emptied'
      <4>1. \A k \in Instances : phase'[k] = "stopped"
        BY <2>24 DEF PowerLoss, AllStopped
      <4> QED
        BY <4>1 DEF Emptied
    <3>3. (Fresh /\ Alone /\ Unshared /\ Tended /\ FailedIsGone /\ CompleteIsPublished)'
      BY <2>24 DEF PowerLoss, IInv, TypeOK, Busy, Fresh, Alone, Unshared, Tended,
             FailedIsGone, Progressing, Due, Emptied, Exists, CompleteIsPublished,
             Published
    <3> QED
      BY <3>1, <3>2, <3>3 DEF IInv
  <2>25. CASE UNCHANGED vars
    <3>1. (Fresh /\ Alone /\ Unshared /\ Progressing /\ Emptied /\ Tended /\ FailedIsGone /\ CompleteIsPublished)'
      BY <2>25 DEF IInv, TypeOK, Busy, Fresh, Alone, Unshared, Progressing, Due, Whole,
             Published, Emptied, Exists, Tended, FailedIsGone, CompleteIsPublished
    <3> QED
      BY <3>1 DEF IInv
  <2> QED
    BY <2>1, <2>2, <2>3, <2>4, <2>5, <2>6, <2>7, <2>8, <2>9, <2>10, <2>11, <2>12, <2>13, <2>14, <2>15, <2>16, <2>17, <2>18, <2>19, <2>20, <2>21, <2>22, <2>23, <2>24, <2>25 DEF Next, ExportStep, RemovalStep, LoadStep
<1> QED
  BY <1>1, <1>2, TypeAndBusy, PTL DEF Spec

(***************************************************************************)
(* A complete row advertises a whole directory that survives a power loss, *)
(* unless two instances fought over the export.                            *)
(***************************************************************************)
THEOREM CompleteIsWhole == Spec => []CompleteIsPublished
<1>1. IInv => CompleteIsPublished
  BY DEF IInv
<1> QED
  BY <1>1, InvariantHolds, PTL

(***************************************************************************)
(* A failed export that recovery could reach has left nothing on disk.     *)
(***************************************************************************)
THEOREM FailedIsCleanedUp == Spec => []FailureLeavesNothing
<1>1. IInv => FailureLeavesNothing
  BY DEF IInv, FailedIsGone, FailureLeavesNothing
<1> QED
  BY <1>1, InvariantHolds, PTL
=============================================================================
