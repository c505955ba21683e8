----------------------- MODULE DependencyManagerProof -----------------------
(***************************************************************************)
(* Proofs about DependencyInstall for every catalog, every set of jobs and *)
(* requests and every combination of faults, and about JobRecord for every *)
(* combination of its faults.                                              *)
(***************************************************************************)
EXTENDS DependencyInstall, JobRecord, TLAPS

\* a thread between two promotions has no component, one in install_one has
CurrentExists ==
    \A j \in Jobs : phase[j] \in Installing \ {"error"} => pending[j] # <<>>

\* the check for repetitions of start
NoRepetition ==
    \A j \in Jobs : \A i, k \in DOMAIN pending[j] : pending[j][i] = pending[j][k] => i = k

Untouched(j) ==
    status[j] = "absent" =>
        phase[j] = "idle" /\ pending[j] = <<>> /\ \A c \in Components : backup[c][j] = "none"

\* a job has a backup of a component only from its second rename on
BackupOfCurrent(j) ==
    \A c \in Components : backup[c][j] # "none" =>
        \A i \in DOMAIN pending[j] : pending[j][i] = c =>
            i = 1 /\ phase[j] \in {"publish", "rollBack", "dropBackup", "error", "idle"}

\* a backup with an owned payload that nobody is about to delete
Spare(c, j) == backup[c][j] \in Owned /\ ~(phase[j] = "dropBackup" /\ Current(j) = c)

Kept ==
    \A c \in Components : expected[c] => target[c] \in Owned \/ \E j \in Jobs : Spare(c, j)

\* a thread that can still put back the payload it moved out of the way
Held(c, j) == phase[j] \in {"publish", "rollBack"} /\ Current(j) = c /\ backup[c][j] \in Owned

\* an undisturbed directory is whole, and an installed component that is not in its
\* directory has a thread that holds it
Undisturbed ==
    ~disturbed =>
        /\ \A c \in Components : target[c] \in Owned \union {"none", "foreign"}
        /\ \A c \in Components : target[c] = "foreign" => ~expected[c]
        /\ \A j \in Jobs :
              /\ phase[j] = "publish" => backup[Current(j)][j] \in Owned \union {"none"}
              /\ phase[j] = "rollBack" => backup[Current(j)][j] \in Owned
        /\ \A c \in Components : expected[c] =>
              target[c] \in Owned \/ \E j \in Jobs : Held(c, j)

\* nobody has taken a foreign directory for a component
ForeignRespected ==
    /\ \A c \in Components : target[c] = "foreign" =>
           c \notin removing /\ \A j \in Jobs : phase[j] = "backup" => Current(j) # c
    /\ \A c \in Components, j \in Jobs : backup[c][j] # "foreign"

-----------------------------------------------------------------------------
(***************************************************************************)
(* What the list of a job holds once its first component is done.          *)
(***************************************************************************)
LEMMA HeadAndTail ==
    ASSUME NEW S, NEW s \in Seq(S), s # <<>>
    PROVE  /\ Head(s) \in S /\ Head(s) = s[1] /\ 1 \in DOMAIN s
           /\ Tail(s) \in Seq(S)
           /\ \A i \in DOMAIN Tail(s) : i + 1 \in DOMAIN s /\ Tail(s)[i] = s[i + 1]
OBVIOUS

(***************************************************************************)
(* A function changed at one point keeps its type.                         *)
(***************************************************************************)
LEMMA ExceptType ==
    ASSUME NEW S, NEW T, NEW f \in [S -> T], NEW x, NEW y \in T
    PROVE  [f EXCEPT ![x] = y] \in [S -> T]
OBVIOUS

(***************************************************************************)
(* Every variable keeps its type, and a thread inside install_one has a    *)
(* component, under every command, thread step, fault and launch.          *)
(***************************************************************************)
LEMMA TypeAndCurrent == Spec => [](TypeOK /\ CurrentExists)
<1> USE InstallAssumption
<1> USE DEF jobVars, diskVars, vars, Owned, NotOwned, Contents, Unfinished, Finished,
            BeforePromotion, Promotion, Installing, Phases, Current
<1>1. ASSUME Init PROVE TypeOK /\ CurrentExists
  <2>1. /\ status \in [Jobs -> Unfinished \union Finished \union {"absent"}]
        /\ pending \in [Jobs -> Seq(Components)]
        /\ phase \in [Jobs -> Phases]
    BY <1>1 DEF Init
  <2>2. target \in [Components -> Contents] /\ backup \in [Components -> [Jobs -> Contents]]
    BY <1>1 DEF Init
  <2>3. expected \in [Components -> BOOLEAN] /\ disturbed \in BOOLEAN
    <3>1. expected = [c \in Components |-> c \in Installed] /\ disturbed = FALSE
      BY <1>1 DEF Init
    <3>2. \A c \in Components : (c \in Installed) \in BOOLEAN
      OBVIOUS
    <3>3. expected \in [Components -> BOOLEAN]
      BY <3>1, <3>2
    <3> QED
      BY <3>1, <3>3
  <2>4. cancelled \subseteq Jobs /\ removing \subseteq Components /\ CurrentExists
    BY <1>1 DEF Init, CurrentExists
  <2> QED
    BY <2>1, <2>2, <2>3, <2>4 DEF TypeOK
<1>2. TypeOK /\ CurrentExists /\ [Next]_vars => (TypeOK /\ CurrentExists)'
  <2> SUFFICES ASSUME TypeOK, CurrentExists, [Next]_vars PROVE (TypeOK /\ CurrentExists)'
    OBVIOUS
  <2> USE DEF TypeOK, CurrentExists
  <2>1. ASSUME NEW j \in Jobs, NEW request \in Requests, Start(j, request) PROVE (TypeOK /\ CurrentExists)'
    BY <2>1 DEF Start, Step
  <2>2. ASSUME NEW j \in Jobs, StartRefused(j) PROVE (TypeOK /\ CurrentExists)'
    BY <2>2 DEF StartRefused
  <2>3. ASSUME NEW j \in Jobs, Cancel(j) PROVE (TypeOK /\ CurrentExists)'
    BY <2>3 DEF Cancel
  <2>4. ASSUME NEW j \in Jobs, NextComponent(j) PROVE (TypeOK /\ CurrentExists)'
    BY <2>4 DEF NextComponent, Step
  <2>5. ASSUME NEW j \in Jobs, StopBeforeNext(j) PROVE (TypeOK /\ CurrentExists)'
    BY <2>5 DEF StopBeforeNext, Step
  <2>6. ASSUME NEW j \in Jobs, AllInstalled(j) PROVE (TypeOK /\ CurrentExists)'
    BY <2>6 DEF AllInstalled, Step
  <2>7. ASSUME NEW j \in Jobs, Fetch(j) PROVE (TypeOK /\ CurrentExists)'
    BY <2>7 DEF Fetch, Step
  <2>8. ASSUME NEW j \in Jobs, FetchFails(j) PROVE (TypeOK /\ CurrentExists)'
    BY <2>8 DEF FetchFails, Step
  <2>9. ASSUME NEW j \in Jobs, Unpack(j) PROVE (TypeOK /\ CurrentExists)'
    BY <2>9 DEF Unpack, Step
  <2>10. ASSUME NEW j \in Jobs, UnpackFails(j) PROVE (TypeOK /\ CurrentExists)'
    BY <2>10 DEF UnpackFails, Step
  <2>11. ASSUME NEW j \in Jobs, Hangs(j) PROVE (TypeOK /\ CurrentExists)'
    BY <2>11 DEF Hangs, Step
  <2>12. ASSUME NEW j \in Jobs, Seal(j) PROVE (TypeOK /\ CurrentExists)'
    BY <2>12 DEF Seal, Step
  <2>13. ASSUME NEW j \in Jobs, SealFails(j) PROVE (TypeOK /\ CurrentExists)'
    BY <2>13 DEF SealFails, Step
  <2>14. ASSUME NEW j \in Jobs, LookAtTarget(j) PROVE (TypeOK /\ CurrentExists)'
    BY <2>14 DEF LookAtTarget, Step
  <2>15. ASSUME NEW j \in Jobs, MoveToBackup(j) PROVE (TypeOK /\ CurrentExists)'
    <3>1. Current(j) \in Components /\ Tail(pending[j]) \in Seq(Components)
      BY <2>15, HeadAndTail DEF MoveToBackup, Step
    <3> QED
      BY <2>15, <3>1 DEF MoveToBackup, Step
  <2>16. ASSUME NEW j \in Jobs, MoveToBackupFails(j) PROVE (TypeOK /\ CurrentExists)'
    BY <2>16 DEF MoveToBackupFails, Step
  <2>17. ASSUME NEW j \in Jobs, Publish(j) PROVE (TypeOK /\ CurrentExists)'
    <3>1. Current(j) \in Components /\ Tail(pending[j]) \in Seq(Components)
      BY <2>17, HeadAndTail DEF Publish, Step
    <3>2. target' \in [Components -> Contents] /\ expected' \in [Components -> BOOLEAN]
      BY <2>17, <3>1 DEF Publish
    <3>3. phase' = [phase EXCEPT ![j] = "dropBackup"] \/ phase' = [phase EXCEPT ![j] = "loop"]
      BY <2>17 DEF Publish, Step
    <3>5. phase' \in [Jobs -> Phases]
      BY <3>3
    <3>6. pending' = pending \/ pending' = [pending EXCEPT ![j] = Tail(pending[j])]
      BY <2>17 DEF Publish
    <3>7. pending' \in [Jobs -> Seq(Components)]
      BY <3>1, <3>6, ExceptType
    <3>4. CurrentExists'
      <4>1. phase[j] = "publish" /\ pending[j] # <<>>
        BY <2>17 DEF Publish, Step
      <4>2. CASE phase' = [phase EXCEPT ![j] = "dropBackup"] /\ pending' = pending
        BY <4>1, <4>2
      <4>3. CASE /\ phase' = [phase EXCEPT ![j] = "loop"]
                 /\ pending' = [pending EXCEPT ![j] = Tail(pending[j])]
        BY <4>3
      <4> QED
        BY <2>17, <4>2, <4>3 DEF Publish, Step
    <3> QED
      BY <2>17, <3>2, <3>5, <3>7, <3>4 DEF Publish
  <2>18. ASSUME NEW j \in Jobs, PublishFails(j) PROVE (TypeOK /\ CurrentExists)'
    <3>1. phase' = [phase EXCEPT ![j] = "rollBack"] \/ phase' = [phase EXCEPT ![j] = "error"]
      BY <2>18 DEF PublishFails, Step
    <3>2. phase[j] = "publish" /\ UNCHANGED <<status, pending, cancelled, diskVars, removing>>
      BY <2>18 DEF PublishFails, Step
    <3> QED
      BY <3>1, <3>2
  <2>19. ASSUME NEW j \in Jobs, RollBack(j) PROVE (TypeOK /\ CurrentExists)'
    <3>1. Current(j) \in Components /\ Tail(pending[j]) \in Seq(Components)
      BY <2>19, HeadAndTail DEF RollBack, Step
    <3>2. target' \in [Components -> Contents] /\ backup' \in [Components -> [Jobs -> Contents]]
      <4> HIDE DEF Contents
      <4>1. "none" \in Contents
        BY DEF Contents
      <4>2. backup[Current(j)][j] \in Contents
        BY <3>1
      <4>3. CASE UNCHANGED <<target, backup>>
        BY <4>3
      <4>4. CASE /\ target' = [target EXCEPT ![Current(j)] = backup[Current(j)][j]]
                 /\ backup' = [backup EXCEPT ![Current(j)][j] = "none"]
        BY <4>1, <4>2, <4>4, <3>1
      <4> QED
        BY <2>19, <4>3, <4>4 DEF RollBack
    <3>3. phase' \in [Jobs -> Phases] /\ CurrentExists'
      BY <2>19 DEF RollBack, Step
    <3> QED
      BY <2>19, <3>2, <3>3 DEF RollBack
  <2>20. ASSUME NEW j \in Jobs, DropBackup(j) PROVE (TypeOK /\ CurrentExists)'
    <3>1. Current(j) \in Components /\ Tail(pending[j]) \in Seq(Components)
      BY <2>20, HeadAndTail DEF DropBackup, Step
    <3> QED
      BY <2>20, <3>1 DEF DropBackup, Step
  <2>21. ASSUME NEW j \in Jobs, DropBackupFails(j) PROVE (TypeOK /\ CurrentExists)'
    <3>1. Current(j) \in Components /\ Tail(pending[j]) \in Seq(Components)
      BY <2>21, HeadAndTail DEF DropBackupFails, Step
    <3> QED
      BY <2>21, <3>1 DEF DropBackupFails, Step
  <2>22. ASSUME NEW j \in Jobs, Fail(j) PROVE (TypeOK /\ CurrentExists)'
    BY <2>22 DEF Fail, Step
  <2>23. ASSUME NEW c \in Components, RemoveChecks(c) PROVE (TypeOK /\ CurrentExists)'
    BY <2>23 DEF RemoveChecks
  <2>24. ASSUME NEW c \in Components, RemoveEnds(c) PROVE (TypeOK /\ CurrentExists)'
    <3>1. target' \in [Components -> Contents]
      <4>1. "none" \in Contents /\ "markerLost" \in Contents /\ "filesLost" \in Contents
        OBVIOUS
      <4> QED
        BY <2>24, <4>1 DEF RemoveEnds
    <3>2. expected' = expected \/ expected' = [expected EXCEPT ![c] = FALSE]
      BY <2>24 DEF RemoveEnds
    <3>3. expected' \in [Components -> BOOLEAN]
      BY <3>2
    <3> QED
      BY <2>24, <3>1, <3>3 DEF RemoveEnds
  <2>25. CASE Restart
    BY <2>25 DEF Restart, Relaunch
  <2>26. CASE UNCHANGED vars
    BY <2>26
  <2> QED
    BY <2>1, <2>2, <2>3, <2>4, <2>5, <2>6, <2>7, <2>8, <2>9, <2>10, <2>11, <2>12, <2>13, <2>14,
       <2>15, <2>16, <2>17, <2>18, <2>19, <2>20, <2>21, <2>22, <2>23, <2>24, <2>25, <2>26 DEF Next, Install
<1> QED
  BY <1>1, <1>2, PTL DEF Spec

-----------------------------------------------------------------------------
(***************************************************************************)
(* A cancellation that comes before the last look of install_one keeps the *)
(* thread from promoting anything (run_job, install_one).                  *)
(***************************************************************************)
THEOREM CancellationStops == Spec => CancelStopsInstall
<1> USE DEF jobVars, diskVars, vars, BeforePromotion, IsCancelled
<1>1. TypeOK /\ [Next]_vars =>
        [\A j \in Jobs :
            j \in cancelled /\ phase[j] \in BeforePromotion \union {"loop"} =>
                phase'[j] \in BeforePromotion \union {"loop", "error", "idle", "stuck"}]_vars
  <2> SUFFICES ASSUME TypeOK, [Next]_vars, NEW j \in Jobs,
                      j \in cancelled, phase[j] \in BeforePromotion \union {"loop"}
               PROVE  phase'[j] \in BeforePromotion \union {"loop", "error", "idle", "stuck"}
    OBVIOUS
  <2> DEFINE Stopped == phase'[j] \in BeforePromotion \union {"loop", "error", "idle", "stuck"}
  <2> USE DEF TypeOK
  <2>1. ASSUME NEW k \in Jobs, NEW request \in Requests, Start(k, request) PROVE Stopped
    BY <2>1 DEF Start, Step
  <2>2. ASSUME NEW k \in Jobs, StartRefused(k) PROVE Stopped
    BY <2>2 DEF StartRefused
  <2>3. ASSUME NEW k \in Jobs, Cancel(k) PROVE Stopped
    BY <2>3 DEF Cancel
  <2>4. ASSUME NEW k \in Jobs, NextComponent(k) PROVE Stopped
    BY <2>4 DEF NextComponent, Step
  <2>5. ASSUME NEW k \in Jobs, StopBeforeNext(k) PROVE Stopped
    BY <2>5 DEF StopBeforeNext, Step
  <2>6. ASSUME NEW k \in Jobs, AllInstalled(k) PROVE Stopped
    BY <2>6 DEF AllInstalled, Step
  <2>7. ASSUME NEW k \in Jobs, Fetch(k) PROVE Stopped
    BY <2>7 DEF Fetch, Step
  <2>8. ASSUME NEW k \in Jobs, FetchFails(k) PROVE Stopped
    BY <2>8 DEF FetchFails, Step
  <2>9. ASSUME NEW k \in Jobs, Unpack(k) PROVE Stopped
    BY <2>9 DEF Unpack, Step
  <2>10. ASSUME NEW k \in Jobs, UnpackFails(k) PROVE Stopped
    BY <2>10 DEF UnpackFails, Step
  <2>11. ASSUME NEW k \in Jobs, Hangs(k) PROVE Stopped
    BY <2>11 DEF Hangs, Step
  <2>12. ASSUME NEW k \in Jobs, Seal(k) PROVE Stopped
    BY <2>12 DEF Seal, Step
  <2>13. ASSUME NEW k \in Jobs, SealFails(k) PROVE Stopped
    BY <2>13 DEF SealFails, Step
  <2>14. ASSUME NEW k \in Jobs, LookAtTarget(k) PROVE Stopped
    BY <2>14 DEF LookAtTarget, Step
  <2>15. ASSUME NEW k \in Jobs, MoveToBackup(k) PROVE Stopped
    BY <2>15 DEF MoveToBackup, Step
  <2>16. ASSUME NEW k \in Jobs, MoveToBackupFails(k) PROVE Stopped
    BY <2>16 DEF MoveToBackupFails, Step
  <2>17. ASSUME NEW k \in Jobs, Publish(k) PROVE Stopped
    BY <2>17 DEF Publish, Step
  <2>18. ASSUME NEW k \in Jobs, PublishFails(k) PROVE Stopped
    BY <2>18 DEF PublishFails, Step
  <2>19. ASSUME NEW k \in Jobs, RollBack(k) PROVE Stopped
    BY <2>19 DEF RollBack, Step
  <2>20. ASSUME NEW k \in Jobs, DropBackup(k) PROVE Stopped
    BY <2>20 DEF DropBackup, Step
  <2>21. ASSUME NEW k \in Jobs, DropBackupFails(k) PROVE Stopped
    BY <2>21 DEF DropBackupFails, Step
  <2>22. ASSUME NEW k \in Jobs, Fail(k) PROVE Stopped
    BY <2>22 DEF Fail, Step
  <2>23. ASSUME NEW d \in Components, RemoveChecks(d) PROVE Stopped
    BY <2>23 DEF RemoveChecks
  <2>24. ASSUME NEW d \in Components, RemoveEnds(d) PROVE Stopped
    BY <2>24 DEF RemoveEnds
  <2>25. CASE Restart
    BY <2>25 DEF Restart, Relaunch
  <2>26. CASE UNCHANGED vars
    BY <2>26
  <2> QED
    BY <2>1, <2>2, <2>3, <2>4, <2>5, <2>6, <2>7, <2>8, <2>9, <2>10, <2>11, <2>12, <2>13, <2>14,
       <2>15, <2>16, <2>17, <2>18, <2>19, <2>20, <2>21, <2>22, <2>23, <2>24, <2>25, <2>26 DEF Next, Install
<1>2. Spec => []TypeOK
  BY TypeAndCurrent, PTL
<1> QED
  BY <1>1, <1>2, PTL DEF Spec, CancelStopsInstall

(***************************************************************************)
(* Types, by themselves.                                                   *)
(***************************************************************************)
THEOREM TypeCorrect == Spec => []TypeOK
BY TypeAndCurrent, PTL

-----------------------------------------------------------------------------
(***************************************************************************)
(* No thread and no removal ever holds a foreign directory for a component *)
(* between its look at the marker and its rename or removal.               *)
(***************************************************************************)
LEMMA ForeignStaysRespected == Spec => []ForeignRespected
<1> USE InstallAssumption
<1> USE DEF jobVars, diskVars, vars, Owned, NotOwned, MarkerRead, HasMarker
<1>1. Init => ForeignRespected
  BY DEF Init, ForeignRespected
<1>2. TypeOK /\ CurrentExists /\ ForeignRespected /\ [Next]_vars => ForeignRespected'
  <2> SUFFICES ASSUME TypeOK, CurrentExists, ForeignRespected, [Next]_vars
               PROVE  ForeignRespected'
    OBVIOUS
  <2> USE DEF TypeOK, ForeignRespected
  <2>0. \A j \in Jobs : phase[j] \in Promotion => Current(j) \in Components
    BY HeadAndTail DEF CurrentExists, Installing, Current, Promotion
  <2>1. ASSUME NEW j \in Jobs, NEW request \in Requests, Start(j, request) PROVE ForeignRespected'
    BY <2>1, <2>0 DEF Start, Step, Current, Promotion
  <2>2. ASSUME NEW j \in Jobs, StartRefused(j) PROVE ForeignRespected'
    BY <2>2, <2>0 DEF StartRefused, Current, Promotion
  <2>3. ASSUME NEW j \in Jobs, Cancel(j) PROVE ForeignRespected'
    BY <2>3, <2>0 DEF Cancel, Current, Promotion
  <2>4. ASSUME NEW j \in Jobs, NextComponent(j) PROVE ForeignRespected'
    BY <2>4, <2>0 DEF NextComponent, Step, Current, Promotion
  <2>5. ASSUME NEW j \in Jobs, StopBeforeNext(j) PROVE ForeignRespected'
    BY <2>5, <2>0 DEF StopBeforeNext, Step, Current, Promotion
  <2>6. ASSUME NEW j \in Jobs, AllInstalled(j) PROVE ForeignRespected'
    BY <2>6, <2>0 DEF AllInstalled, Step, Current, Promotion
  <2>7. ASSUME NEW j \in Jobs, Fetch(j) PROVE ForeignRespected'
    BY <2>7, <2>0 DEF Fetch, Step, Current, Promotion
  <2>8. ASSUME NEW j \in Jobs, FetchFails(j) PROVE ForeignRespected'
    BY <2>8, <2>0 DEF FetchFails, Step, Current, Promotion
  <2>9. ASSUME NEW j \in Jobs, Unpack(j) PROVE ForeignRespected'
    BY <2>9, <2>0 DEF Unpack, Step, Current, Promotion
  <2>10. ASSUME NEW j \in Jobs, UnpackFails(j) PROVE ForeignRespected'
    BY <2>10, <2>0 DEF UnpackFails, Step, Current, Promotion
  <2>11. ASSUME NEW j \in Jobs, Hangs(j) PROVE ForeignRespected'
    BY <2>11, <2>0 DEF Hangs, Step, Current, Promotion
  <2>12. ASSUME NEW j \in Jobs, Seal(j) PROVE ForeignRespected'
    BY <2>12, <2>0 DEF Seal, Step, Current, Promotion
  <2>13. ASSUME NEW j \in Jobs, SealFails(j) PROVE ForeignRespected'
    BY <2>13, <2>0 DEF SealFails, Step, Current, Promotion
  <2>14. ASSUME NEW j \in Jobs, LookAtTarget(j) PROVE ForeignRespected'
    BY <2>14, <2>0 DEF LookAtTarget, Step, Current, Promotion
  <2>15. ASSUME NEW j \in Jobs, MoveToBackup(j) PROVE ForeignRespected'
    BY <2>15, <2>0 DEF MoveToBackup, Step, Current, Promotion
  <2>16. ASSUME NEW j \in Jobs, MoveToBackupFails(j) PROVE ForeignRespected'
    BY <2>16, <2>0 DEF MoveToBackupFails, Step, Current, Promotion
  <2>17. ASSUME NEW j \in Jobs, Publish(j) PROVE ForeignRespected'
    BY <2>17, <2>0 DEF Publish, Step, Current, Promotion
  <2>18. ASSUME NEW j \in Jobs, PublishFails(j) PROVE ForeignRespected'
    BY <2>18, <2>0 DEF PublishFails, Step, Current, Promotion
  <2>19. ASSUME NEW j \in Jobs, RollBack(j) PROVE ForeignRespected'
    <3>1. CASE UNCHANGED <<target, backup>>
      BY <2>19, <3>1 DEF RollBack, Step, Current
    <3>2. CASE /\ target' = [target EXCEPT ![Current(j)] = backup[Current(j)][j]]
               /\ backup' = [backup EXCEPT ![Current(j)][j] = "none"]
      <4>1. Current(j) \in Components
        BY <2>19, <2>0 DEF RollBack, Step, Promotion
      <4>2. \A c \in Components : target'[c] = "foreign" => target[c] = "foreign"
        BY <3>2, <4>1
      <4>3. \A c \in Components, k \in Jobs : backup'[c][k] # "foreign"
        BY <3>2, <4>1
      <4> QED
        BY <2>19, <4>2, <4>3 DEF RollBack, Step, Current
    <3> QED
      BY <2>19, <3>1, <3>2 DEF RollBack
  <2>20. ASSUME NEW j \in Jobs, DropBackup(j) PROVE ForeignRespected'
    BY <2>20, <2>0 DEF DropBackup, Step, Current, Promotion
  <2>21. ASSUME NEW j \in Jobs, DropBackupFails(j) PROVE ForeignRespected'
    BY <2>21, <2>0 DEF DropBackupFails, Step, Current, Promotion
  <2>22. ASSUME NEW j \in Jobs, Fail(j) PROVE ForeignRespected'
    BY <2>22, <2>0 DEF Fail, Step, Current, Promotion
  <2>23. ASSUME NEW d \in Components, RemoveChecks(d) PROVE ForeignRespected'
    BY <2>23, <2>0 DEF RemoveChecks, Current, Promotion
  <2>24. ASSUME NEW d \in Components, RemoveEnds(d) PROVE ForeignRespected'
    BY <2>24, <2>0 DEF RemoveEnds, Current, Promotion
  <2>25. CASE Restart
    BY <2>25, <2>0 DEF Restart, Relaunch, Current, Promotion
  <2>26. CASE UNCHANGED vars
    BY <2>26, <2>0 DEF Current, Promotion
  <2> QED
    BY <2>1, <2>2, <2>3, <2>4, <2>5, <2>6, <2>7, <2>8, <2>9, <2>10, <2>11, <2>12, <2>13, <2>14,
       <2>15, <2>16, <2>17, <2>18, <2>19, <2>20, <2>21, <2>22, <2>23, <2>24, <2>25, <2>26 DEF Next, Install
<1> QED
  BY <1>1, <1>2, TypeAndCurrent, PTL DEF Spec

(***************************************************************************)
(* A directory without the marker of a component is neither moved away nor *)
(* removed, by however many threads and removals (read_marker in           *)
(* promote_owned_directory and remove).                                    *)
(***************************************************************************)
THEOREM ForeignDirectoriesUntouched == Spec => ForeignUntouched
<1> USE DEF jobVars, diskVars, vars
<1>1. TypeOK /\ CurrentExists /\ ForeignRespected /\ [Next]_vars =>
        [\A c \in Components : target[c] = "foreign" => target'[c] = "foreign"]_vars
  <2> SUFFICES ASSUME TypeOK, CurrentExists, ForeignRespected, [Next]_vars,
                      NEW c \in Components, target[c] = "foreign"
               PROVE  target'[c] = "foreign"
    OBVIOUS
  <2> USE DEF TypeOK, ForeignRespected
  <2>0. \A j \in Jobs : phase[j] \in Promotion => Current(j) \in Components
    BY HeadAndTail DEF CurrentExists, Installing, Current, Promotion
  <2>1. ASSUME NEW j \in Jobs, NEW request \in Requests, Start(j, request) PROVE target'[c] = "foreign"
    BY <2>1, <2>0 DEF Start, Step, Promotion
  <2>2. ASSUME NEW j \in Jobs, StartRefused(j) PROVE target'[c] = "foreign"
    BY <2>2, <2>0 DEF StartRefused, Promotion
  <2>3. ASSUME NEW j \in Jobs, Cancel(j) PROVE target'[c] = "foreign"
    BY <2>3, <2>0 DEF Cancel, Promotion
  <2>4. ASSUME NEW j \in Jobs, NextComponent(j) PROVE target'[c] = "foreign"
    BY <2>4, <2>0 DEF NextComponent, Step, Promotion
  <2>5. ASSUME NEW j \in Jobs, StopBeforeNext(j) PROVE target'[c] = "foreign"
    BY <2>5, <2>0 DEF StopBeforeNext, Step, Promotion
  <2>6. ASSUME NEW j \in Jobs, AllInstalled(j) PROVE target'[c] = "foreign"
    BY <2>6, <2>0 DEF AllInstalled, Step, Promotion
  <2>7. ASSUME NEW j \in Jobs, Fetch(j) PROVE target'[c] = "foreign"
    BY <2>7, <2>0 DEF Fetch, Step, Promotion
  <2>8. ASSUME NEW j \in Jobs, FetchFails(j) PROVE target'[c] = "foreign"
    BY <2>8, <2>0 DEF FetchFails, Step, Promotion
  <2>9. ASSUME NEW j \in Jobs, Unpack(j) PROVE target'[c] = "foreign"
    BY <2>9, <2>0 DEF Unpack, Step, Promotion
  <2>10. ASSUME NEW j \in Jobs, UnpackFails(j) PROVE target'[c] = "foreign"
    BY <2>10, <2>0 DEF UnpackFails, Step, Promotion
  <2>11. ASSUME NEW j \in Jobs, Hangs(j) PROVE target'[c] = "foreign"
    BY <2>11, <2>0 DEF Hangs, Step, Promotion
  <2>12. ASSUME NEW j \in Jobs, Seal(j) PROVE target'[c] = "foreign"
    BY <2>12, <2>0 DEF Seal, Step, Promotion
  <2>13. ASSUME NEW j \in Jobs, SealFails(j) PROVE target'[c] = "foreign"
    BY <2>13, <2>0 DEF SealFails, Step, Promotion
  <2>14. ASSUME NEW j \in Jobs, LookAtTarget(j) PROVE target'[c] = "foreign"
    BY <2>14, <2>0 DEF LookAtTarget, Step, Promotion
  <2>15. ASSUME NEW j \in Jobs, MoveToBackup(j) PROVE target'[c] = "foreign"
    BY <2>15, <2>0 DEF MoveToBackup, Step, Promotion
  <2>16. ASSUME NEW j \in Jobs, MoveToBackupFails(j) PROVE target'[c] = "foreign"
    BY <2>16, <2>0 DEF MoveToBackupFails, Step, Promotion
  <2>17. ASSUME NEW j \in Jobs, Publish(j) PROVE target'[c] = "foreign"
    BY <2>17, <2>0 DEF Publish, Step, Promotion
  <2>18. ASSUME NEW j \in Jobs, PublishFails(j) PROVE target'[c] = "foreign"
    BY <2>18, <2>0 DEF PublishFails, Step, Promotion
  <2>19. ASSUME NEW j \in Jobs, RollBack(j) PROVE target'[c] = "foreign"
    BY <2>19, <2>0 DEF RollBack, Step, Promotion
  <2>20. ASSUME NEW j \in Jobs, DropBackup(j) PROVE target'[c] = "foreign"
    BY <2>20, <2>0 DEF DropBackup, Step, Promotion
  <2>21. ASSUME NEW j \in Jobs, DropBackupFails(j) PROVE target'[c] = "foreign"
    BY <2>21, <2>0 DEF DropBackupFails, Step, Promotion
  <2>22. ASSUME NEW j \in Jobs, Fail(j) PROVE target'[c] = "foreign"
    BY <2>22, <2>0 DEF Fail, Step, Promotion
  <2>23. ASSUME NEW d \in Components, RemoveChecks(d) PROVE target'[c] = "foreign"
    BY <2>23, <2>0 DEF RemoveChecks, Promotion
  <2>24. ASSUME NEW d \in Components, RemoveEnds(d) PROVE target'[c] = "foreign"
    BY <2>24, <2>0 DEF RemoveEnds, Promotion
  <2>25. CASE Restart
    BY <2>25, <2>0 DEF Restart, Relaunch, Promotion
  <2>26. CASE UNCHANGED vars
    BY <2>26, <2>0 DEF Promotion
  <2> QED
    BY <2>1, <2>2, <2>3, <2>4, <2>5, <2>6, <2>7, <2>8, <2>9, <2>10, <2>11, <2>12, <2>13, <2>14,
       <2>15, <2>16, <2>17, <2>18, <2>19, <2>20, <2>21, <2>22, <2>23, <2>24, <2>25, <2>26 DEF Next, Install
<1> QED
  BY <1>1, TypeAndCurrent, ForeignStaysRespected, PTL DEF Spec, ForeignUntouched

-----------------------------------------------------------------------------
\* a job promotes a component once, so that its backup is written once
Bookkeeping == NoRepetition /\ \A j \in Jobs : Untouched(j) /\ BackupOfCurrent(j)

(***************************************************************************)
(* When the current component leaves the list of a job and its backup is   *)
(* gone, what is left on the list has no backup.                           *)
(***************************************************************************)
LEMMA Shorter ==
    ASSUME TypeOK, Bookkeeping, NEW j \in Jobs, pending[j] # <<>>,
           phase[j] \in {"publish", "dropBackup"},
           phase' = [phase EXCEPT ![j] = "loop"],
           pending' = [pending EXCEPT ![j] = Tail(pending[j])],
           UNCHANGED status,
           \A c \in Components, k \in Jobs :
               backup'[c][k] = backup[c][k] \/ backup'[c][k] = "none",
           backup'[Current(j)][j] = "none"
    PROVE  Bookkeeping'
<1> USE DEF TypeOK, Bookkeeping, NoRepetition, Untouched, BackupOfCurrent
<1>1. /\ Current(j) \in Components /\ Current(j) = pending[j][1]
      /\ \A i \in DOMAIN Tail(pending[j]) :
            /\ i + 1 \in DOMAIN pending[j] /\ i \in Nat \ {0}
            /\ Tail(pending[j])[i] = pending[j][i + 1]
  BY HeadAndTail DEF Current
<1>2. NoRepetition'
  BY <1>1
<1>3. \A k \in Jobs : Untouched(k)'
  OBVIOUS
<1>4. \A k \in Jobs \ {j} : BackupOfCurrent(k)'
  OBVIOUS
<1>5. BackupOfCurrent(j)'
  <2> SUFFICES ASSUME NEW c \in Components, backup'[c][j] # "none",
                      NEW i \in DOMAIN Tail(pending[j]), Tail(pending[j])[i] = c
               PROVE  FALSE
    OBVIOUS
  <2>1. i + 1 \in DOMAIN pending[j] /\ pending[j][i + 1] = c /\ backup[c][j] # "none"
    BY <1>1
  <2> QED
    BY <2>1, <1>1
<1> QED
  BY <1>2, <1>3, <1>4, <1>5

(***************************************************************************)
(* A thread that leaves its list alone has only its own backups to answer  *)
(* for.                                                                    *)
(***************************************************************************)
LEMMA SameList ==
    ASSUME Bookkeeping, NEW j \in Jobs, status[j] # "absent", UNCHANGED <<status, pending>>,
           \A k \in Jobs \ {j} :
               phase'[k] = phase[k] /\ \A c \in Components : backup'[c][k] = backup[c][k],
           \A c \in Components : backup'[c][j] # "none" =>
               \A i \in DOMAIN pending[j] : pending[j][i] = c =>
                   i = 1 /\ phase'[j] \in {"publish", "rollBack", "dropBackup", "error", "idle"}
    PROVE  Bookkeeping'
<1>1. NoRepetition'
  BY DEF Bookkeeping, NoRepetition
<1>2. Untouched(j)' /\ BackupOfCurrent(j)'
  BY DEF Untouched, BackupOfCurrent
<1>3. ASSUME NEW k \in Jobs \ {j} PROVE Untouched(k)' /\ BackupOfCurrent(k)'
  BY <1>3 DEF Bookkeeping, Untouched, BackupOfCurrent
<1> QED
  BY <1>1, <1>2, <1>3 DEF Bookkeeping

(***************************************************************************)
(* The list of a job has no repetition, and a job holds a backup of its    *)
(* current component from the second rename on, of a later component       *)
(* never (start, promote_owned_directory).                                 *)
(***************************************************************************)
LEMMA BackupsAreWrittenOnce == Spec => []Bookkeeping
<1> USE InstallAssumption
<1> USE DEF jobVars, diskVars, vars, Bookkeeping, NoRepetition, Untouched, BackupOfCurrent
<1>1. Init => Bookkeeping
  BY DEF Init
<1>2. TypeOK /\ CurrentExists /\ Bookkeeping /\ [Next]_vars => Bookkeeping'
  <2> SUFFICES ASSUME TypeOK, CurrentExists, Bookkeeping, [Next]_vars PROVE Bookkeeping'
    OBVIOUS
  <2> USE DEF TypeOK
  <2>0. \A j \in Jobs : phase[j] \in Promotion =>
          /\ Current(j) \in Components /\ Current(j) = pending[j][1]
          /\ 1 \in DOMAIN pending[j]
          /\ Tail(pending[j]) \in Seq(Components)
          /\ \A i \in DOMAIN Tail(pending[j]) :
                /\ i + 1 \in DOMAIN pending[j] /\ i \in Nat \ {0}
                /\ Tail(pending[j])[i] = pending[j][i + 1]
    BY HeadAndTail DEF CurrentExists, Installing, Current, Promotion
  <2>1. ASSUME NEW j \in Jobs, NEW request \in Requests, Start(j, request) PROVE Bookkeeping'
    BY <2>1, <2>0 DEF Start, Step, Promotion
  <2>2. ASSUME NEW j \in Jobs, StartRefused(j) PROVE Bookkeeping'
    BY <2>2, <2>0 DEF StartRefused, Promotion
  <2>3. ASSUME NEW j \in Jobs, Cancel(j) PROVE Bookkeeping'
    BY <2>3, <2>0 DEF Cancel, Promotion
  <2>4. ASSUME NEW j \in Jobs, NextComponent(j) PROVE Bookkeeping'
    BY <2>4, <2>0 DEF NextComponent, Step, Promotion
  <2>5. ASSUME NEW j \in Jobs, StopBeforeNext(j) PROVE Bookkeeping'
    BY <2>5, <2>0 DEF StopBeforeNext, Step, Promotion
  <2>6. ASSUME NEW j \in Jobs, AllInstalled(j) PROVE Bookkeeping'
    BY <2>6, <2>0 DEF AllInstalled, Step, Promotion
  <2>7. ASSUME NEW j \in Jobs, Fetch(j) PROVE Bookkeeping'
    BY <2>7, <2>0 DEF Fetch, Step, Promotion
  <2>8. ASSUME NEW j \in Jobs, FetchFails(j) PROVE Bookkeeping'
    BY <2>8, <2>0 DEF FetchFails, Step, Promotion
  <2>9. ASSUME NEW j \in Jobs, Unpack(j) PROVE Bookkeeping'
    BY <2>9, <2>0 DEF Unpack, Step, Promotion
  <2>10. ASSUME NEW j \in Jobs, UnpackFails(j) PROVE Bookkeeping'
    BY <2>10, <2>0 DEF UnpackFails, Step, Promotion
  <2>11. ASSUME NEW j \in Jobs, Hangs(j) PROVE Bookkeeping'
    BY <2>11, <2>0 DEF Hangs, Step, Promotion
  <2>12. ASSUME NEW j \in Jobs, Seal(j) PROVE Bookkeeping'
    BY <2>12, <2>0 DEF Seal, Step, Promotion
  <2>13. ASSUME NEW j \in Jobs, SealFails(j) PROVE Bookkeeping'
    BY <2>13, <2>0 DEF SealFails, Step, Promotion
  <2>14. ASSUME NEW j \in Jobs, LookAtTarget(j) PROVE Bookkeeping'
    <3>1. phase[j] = "look" /\ UNCHANGED <<status, pending, backup>>
      BY <2>14 DEF LookAtTarget, Step
    <3>2. \A k \in Jobs \ {j} : phase'[k] = phase[k]
      BY <2>14 DEF LookAtTarget, Step
    <3> QED
      BY <3>1, <3>2, SameList
  <2>15. ASSUME NEW j \in Jobs, MoveToBackup(j) PROVE Bookkeeping'
    <3>1. /\ phase[j] = "backup" /\ phase' = [phase EXCEPT ![j] = "publish"]
          /\ backup' = [backup EXCEPT ![Current(j)][j] = target[Current(j)]]
          /\ UNCHANGED <<status, pending>>
      BY <2>15 DEF MoveToBackup, Step
    <3>2. \A c \in Components, i \in DOMAIN pending[j] :
            backup'[c][j] # "none" /\ pending[j][i] = c => i = 1
      BY <3>1, <2>0 DEF Promotion
    <3> QED
      BY <3>1, <3>2, SameList
  <2>16. ASSUME NEW j \in Jobs, MoveToBackupFails(j) PROVE Bookkeeping'
    BY <2>16, <2>0 DEF MoveToBackupFails, Step, Promotion
  <2>17. ASSUME NEW j \in Jobs, Publish(j) PROVE Bookkeeping'
    <3>1. /\ phase[j] = "publish" /\ UNCHANGED <<status, backup>>
      BY <2>17 DEF Publish
    <3>2. CASE phase' = [phase EXCEPT ![j] = "dropBackup"] /\ UNCHANGED pending
      BY <3>1, <3>2
    <3>3. CASE /\ phase' = [phase EXCEPT ![j] = "loop"] /\ backup[Current(j)][j] = "none"
               /\ pending' = [pending EXCEPT ![j] = Tail(pending[j])]
      <4>1. pending[j] # <<>>
        BY <3>1 DEF CurrentExists, Installing, Promotion
      <4> QED
        BY <3>1, <3>3, <4>1, Shorter
    <3> QED
      BY <2>17, <3>2, <3>3 DEF Publish, Step
  <2>18. ASSUME NEW j \in Jobs, PublishFails(j) PROVE Bookkeeping'
    <3>1. phase[j] = "publish" /\ UNCHANGED <<status, pending, backup>>
      BY <2>18 DEF PublishFails, Step
    <3>2. phase'[j] \in {"rollBack", "error"} /\ \A k \in Jobs \ {j} : phase'[k] = phase[k]
      BY <2>18 DEF PublishFails, Step
    <3>3. \A i \in DOMAIN pending[j] : \A c \in Components :
              backup[c][j] # "none" /\ pending[j][i] = c => i = 1
      BY <2>0
    <3>4. status[j] # "absent"
      BY <3>1, <2>0 DEF Promotion
    <3>5. \A k \in Jobs \ {j} :
              phase'[k] = phase[k] /\ \A c \in Components : backup'[c][k] = backup[c][k]
      BY <3>1, <3>2
    <3>6. \A c \in Components : backup'[c][j] # "none" =>
              \A i \in DOMAIN pending[j] : pending[j][i] = c =>
                  i = 1 /\ phase'[j] \in {"publish", "rollBack", "dropBackup", "error", "idle"}
      BY <3>1, <3>2, <3>3
    <3> QED
      BY <3>1, <3>4, <3>5, <3>6, SameList
  <2>19. ASSUME NEW j \in Jobs, RollBack(j) PROVE Bookkeeping'
    <3>1. /\ phase[j] = "rollBack" /\ phase' = [phase EXCEPT ![j] = "error"]
          /\ UNCHANGED <<status, pending>>
      BY <2>19 DEF RollBack, Step
    <3>2. Current(j) \in Components
      BY <3>1, <2>0 DEF Promotion
    <3>3. \A c \in Components, k \in Jobs : c # Current(j) \/ k # j => backup'[c][k] = backup[c][k]
      <4>1. \/ backup' = [backup EXCEPT ![Current(j)][j] = "none"]
            \/ backup' = backup
        BY <2>19 DEF RollBack
      <4> QED
        BY <4>1, <3>2
    <3>4. \A i \in DOMAIN pending[j] : pending[j][i] = Current(j) => i = 1
      BY <3>1, <2>0 DEF Promotion
    <3> QED
      BY <3>1, <3>3, <3>4, SameList
  <2>20. ASSUME NEW j \in Jobs, DropBackup(j) PROVE Bookkeeping'
    <3>1. /\ phase[j] = "dropBackup" /\ phase' = [phase EXCEPT ![j] = "loop"]
          /\ backup' = [backup EXCEPT ![Current(j)][j] = "none"]
          /\ pending' = [pending EXCEPT ![j] = Tail(pending[j])]
          /\ UNCHANGED status
      BY <2>20 DEF DropBackup, Step
    <3>2. pending[j] # <<>> /\ Current(j) \in Components
      BY <3>1, <2>0 DEF CurrentExists, Installing, Promotion
    <3>3. /\ \A c \in Components, k \in Jobs :
                backup'[c][k] = backup[c][k] \/ backup'[c][k] = "none"
          /\ backup'[Current(j)][j] = "none"
      BY <3>1, <3>2
    <3> QED
      BY <3>1, <3>2, <3>3, Shorter
  <2>21. ASSUME NEW j \in Jobs, DropBackupFails(j) PROVE Bookkeeping'
    <3>1. /\ phase[j] = "dropBackup" /\ phase' = [phase EXCEPT ![j] = "error"]
          /\ UNCHANGED <<status, pending>>
      BY <2>21 DEF DropBackupFails, Step
    <3>2. Current(j) \in Components
      BY <3>1, <2>0 DEF Promotion
    <3>3. \A c \in Components, k \in Jobs : c # Current(j) \/ k # j => backup'[c][k] = backup[c][k]
      BY <2>21, <3>2 DEF DropBackupFails
    <3>4. \A i \in DOMAIN pending[j] : pending[j][i] = Current(j) => i = 1
      BY <3>1, <2>0 DEF Promotion
    <3> QED
      BY <3>1, <3>3, <3>4, SameList
  <2>22. ASSUME NEW j \in Jobs, Fail(j) PROVE Bookkeeping'
    BY <2>22, <2>0 DEF Fail, Step, Promotion
  <2>23. ASSUME NEW d \in Components, RemoveChecks(d) PROVE Bookkeeping'
    BY <2>23, <2>0 DEF RemoveChecks, Promotion
  <2>24. ASSUME NEW d \in Components, RemoveEnds(d) PROVE Bookkeeping'
    BY <2>24, <2>0 DEF RemoveEnds, Promotion
  <2>25. CASE Restart
    BY <2>25, <2>0 DEF Restart, Relaunch, Promotion
  <2>26. CASE UNCHANGED vars
    BY <2>26, <2>0 DEF Promotion
  <2> QED
    BY <2>1, <2>2, <2>3, <2>4, <2>5, <2>6, <2>7, <2>8, <2>9, <2>10, <2>11, <2>12, <2>13, <2>14,
       <2>15, <2>16, <2>17, <2>18, <2>19, <2>20, <2>21, <2>22, <2>23, <2>24, <2>25, <2>26 DEF Next, Install
<1> QED
  BY <1>1, <1>2, TypeAndCurrent, PTL DEF Spec

-----------------------------------------------------------------------------
(***************************************************************************)
(* Where there is nothing there is no payload.                             *)
(***************************************************************************)
LEMMA NoneIsNotOwned == "none" \notin Owned
<1>1. "none" \in NotOwned /\ "none" # "original"
  BY DEF NotOwned
<1>2. "none" \notin Jobs
  BY <1>1, InstallAssumption
<1> QED
  BY <1>1, <1>2 DEF Owned

(***************************************************************************)
(* A component that is installed and not removed is in its directory, or   *)
(* in a backup that nobody is about to delete, through every collision,    *)
(* failing rename and crash (promote_owned_directory).                     *)
(***************************************************************************)
LEMMA SpareIsKept == Spec => []Kept
<1> USE InstallAssumption
<1> USE DEF jobVars, diskVars, vars, Owned
<1>1. Init => Kept
  BY DEF Init, Kept
<1>2. TypeOK /\ CurrentExists /\ Bookkeeping /\ Kept /\ [Next]_vars => Kept'
  <2> SUFFICES ASSUME TypeOK, CurrentExists, Bookkeeping, Kept, [Next]_vars PROVE Kept'
    OBVIOUS
  <2> USE DEF TypeOK, Kept, Spare, Current
  <2>0. \A j \in Jobs : phase[j] \in Promotion =>
          Current(j) \in Components /\ Current(j) = pending[j][1] /\ 1 \in DOMAIN pending[j]
    BY HeadAndTail DEF CurrentExists, Installing, Current, Promotion
  <2>1. ASSUME NEW j \in Jobs, NEW request \in Requests, Start(j, request) PROVE Kept'
    BY <2>1, <2>0 DEF Start, Step, Promotion
  <2>2. ASSUME NEW j \in Jobs, StartRefused(j) PROVE Kept'
    BY <2>2, <2>0 DEF StartRefused, Promotion
  <2>3. ASSUME NEW j \in Jobs, Cancel(j) PROVE Kept'
    BY <2>3, <2>0 DEF Cancel, Promotion
  <2>4. ASSUME NEW j \in Jobs, NextComponent(j) PROVE Kept'
    BY <2>4, <2>0 DEF NextComponent, Step, Promotion
  <2>5. ASSUME NEW j \in Jobs, StopBeforeNext(j) PROVE Kept'
    BY <2>5, <2>0 DEF StopBeforeNext, Step, Promotion
  <2>6. ASSUME NEW j \in Jobs, AllInstalled(j) PROVE Kept'
    BY <2>6, <2>0 DEF AllInstalled, Step, Promotion
  <2>7. ASSUME NEW j \in Jobs, Fetch(j) PROVE Kept'
    BY <2>7, <2>0 DEF Fetch, Step, Promotion
  <2>8. ASSUME NEW j \in Jobs, FetchFails(j) PROVE Kept'
    BY <2>8, <2>0 DEF FetchFails, Step, Promotion
  <2>9. ASSUME NEW j \in Jobs, Unpack(j) PROVE Kept'
    BY <2>9, <2>0 DEF Unpack, Step, Promotion
  <2>10. ASSUME NEW j \in Jobs, UnpackFails(j) PROVE Kept'
    BY <2>10, <2>0 DEF UnpackFails, Step, Promotion
  <2>11. ASSUME NEW j \in Jobs, Hangs(j) PROVE Kept'
    BY <2>11, <2>0 DEF Hangs, Step, Promotion
  <2>12. ASSUME NEW j \in Jobs, Seal(j) PROVE Kept'
    BY <2>12, <2>0 DEF Seal, Step, Promotion
  <2>13. ASSUME NEW j \in Jobs, SealFails(j) PROVE Kept'
    BY <2>13, <2>0 DEF SealFails, Step, Promotion
  <2>14. ASSUME NEW j \in Jobs, LookAtTarget(j) PROVE Kept'
    BY <2>14, <2>0 DEF LookAtTarget, Step, Promotion
  <2>15. ASSUME NEW j \in Jobs, MoveToBackup(j) PROVE Kept'
    <3>1. Current(j) \in Components /\ phase[j] = "backup"
      BY <2>15, <2>0 DEF MoveToBackup, Step, Promotion
    <3>2. /\ phase' = [phase EXCEPT ![j] = "publish"]
          /\ backup' = [backup EXCEPT ![Current(j)][j] = target[Current(j)]]
          /\ target' = [target EXCEPT ![Current(j)] = "none"]
          /\ UNCHANGED <<pending, expected>>
      BY <2>15, <3>1 DEF MoveToBackup, Step
    <3> SUFFICES ASSUME NEW c \in Components, expected'[c]
                 PROVE  target'[c] \in Owned \/ \E k \in Jobs : Spare(c, k)'
      OBVIOUS
    <3>3. CASE target[c] \in Owned
      <4>1. CASE c = Current(j)
        <5>1. Spare(c, j)'
          BY <3>1, <3>2, <3>3, <4>1
        <5> QED
          BY <5>1
      <4>2. CASE c # Current(j)
        BY <3>1, <3>2, <3>3, <4>2
      <4> QED
        BY <4>1, <4>2
    <3>4. ASSUME NEW k \in Jobs, Spare(c, k)
          PROVE  target'[c] \in Owned \/ \E l \in Jobs : Spare(c, l)'
      <4>1. ~(c = Current(j) /\ k = j)
        <5>1. backup[c][k] # "none"
          BY <3>4, NoneIsNotOwned
        <5>2. backup[Current(j)][j] = "none"
          <6> HIDE DEF TypeOK, Kept, Current
          <6>1. BackupOfCurrent(j)
            BY DEF Bookkeeping
          <6>2. Current(j) = pending[j][1] /\ 1 \in DOMAIN pending[j]
            BY <3>1, <2>0 DEF Promotion
          <6> QED
            BY <6>1, <6>2, <3>1 DEF BackupOfCurrent
        <5> QED
          BY <5>1, <5>2
      <4>2. Spare(c, k)'
        BY <3>1, <3>2, <3>4, <4>1
      <4> QED
        BY <4>2
    <3>5. expected[c] \/ target'[c] \in Owned
      BY <2>15, <3>1 DEF MoveToBackup
    <3> QED
      BY <3>3, <3>4, <3>5
  <2>16. ASSUME NEW j \in Jobs, MoveToBackupFails(j) PROVE Kept'
    BY <2>16, <2>0 DEF MoveToBackupFails, Step, Promotion
  <2>17. ASSUME NEW j \in Jobs, Publish(j) PROVE Kept'
    <3>1. /\ Current(j) \in Components /\ phase[j] = "publish"
          /\ target' = [target EXCEPT ![Current(j)] = j]
          /\ expected' = [expected EXCEPT ![Current(j)] = TRUE]
          /\ UNCHANGED backup
      BY <2>17, <2>0 DEF Publish, Promotion
    <3>2. \A k \in Jobs \ {j} : phase'[k] = phase[k] /\ pending'[k] = pending[k]
      BY <2>17 DEF Publish, Step
    <3>3. (phase'[j] = "dropBackup" /\ pending' = pending) \/ phase'[j] = "loop"
      BY <2>17, <3>1 DEF Publish, Step
    <3> SUFFICES ASSUME NEW c \in Components, expected'[c], c # Current(j)
                 PROVE  target'[c] \in Owned \/ \E k \in Jobs : Spare(c, k)'
      BY <3>1
    <3>4. target'[c] = target[c] /\ expected[c]
      BY <3>1
    <3>5. ASSUME NEW k \in Jobs, Spare(c, k) PROVE Spare(c, k)'
      BY <3>1, <3>2, <3>3, <3>5
    <3> QED
      BY <3>4, <3>5
  <2>18. ASSUME NEW j \in Jobs, PublishFails(j) PROVE Kept'
    BY <2>18, <2>0 DEF PublishFails, Step, Promotion
  <2>19. ASSUME NEW j \in Jobs, RollBack(j) PROVE Kept'
    <3>1. Current(j) \in Components /\ phase[j] = "rollBack" /\ UNCHANGED <<pending, expected>>
      BY <2>19, <2>0 DEF RollBack, Step, Promotion
    <3>2. phase' = [phase EXCEPT ![j] = "error"]
      BY <2>19 DEF RollBack, Step
    <3>3. CASE UNCHANGED <<target, backup>>
      BY <3>1, <3>2, <3>3
    <3>4. CASE /\ target[Current(j)] = "none"
               /\ target' = [target EXCEPT ![Current(j)] = backup[Current(j)][j]]
               /\ backup' = [backup EXCEPT ![Current(j)][j] = "none"]
      <4> SUFFICES ASSUME NEW c \in Components, expected[c]
                   PROVE  target'[c] \in Owned \/ \E k \in Jobs : Spare(c, k)'
        BY <3>1
      <4>1. CASE target[c] \in Owned
        <5>1. c # Current(j)
          BY <3>4, <4>1 DEF NotOwned
        <5> QED
          BY <3>1, <3>4, <4>1, <5>1
      <4>2. ASSUME NEW k \in Jobs, Spare(c, k)
            PROVE  target'[c] \in Owned \/ \E l \in Jobs : Spare(c, l)'
        <5>1. CASE c = Current(j) /\ k = j
          BY <3>1, <3>4, <4>2, <5>1
        <5>2. CASE ~(c = Current(j) /\ k = j)
          <6>1. Spare(c, k)'
            BY <3>1, <3>2, <3>4, <4>2, <5>2
          <6> QED
            BY <6>1
        <5> QED
          BY <5>1, <5>2
      <4> QED
        BY <4>1, <4>2
    <3> QED
      BY <2>19, <3>3, <3>4 DEF RollBack
  <2>20. ASSUME NEW j \in Jobs, DropBackup(j) PROVE Kept'
    <3>1. /\ Current(j) \in Components /\ phase[j] = "dropBackup"
          /\ phase' = [phase EXCEPT ![j] = "loop"] /\ UNCHANGED <<target, expected>>
      BY <2>20, <2>0 DEF DropBackup, Step, Promotion
    <3>2. \A k \in Jobs \ {j} : pending'[k] = pending[k]
      BY <2>20 DEF DropBackup
    <3>3. \A c \in Components, k \in Jobs : c # Current(j) \/ k # j => backup'[c][k] = backup[c][k]
      BY <2>20, <3>1 DEF DropBackup
    <3>4. ASSUME NEW c \in Components, NEW k \in Jobs, Spare(c, k) PROVE Spare(c, k)'
      BY <3>1, <3>2, <3>3, <3>4
    <3> QED
      BY <3>1, <3>4
  <2>21. ASSUME NEW j \in Jobs, DropBackupFails(j) PROVE Kept'
    <3>1. /\ Current(j) \in Components /\ phase[j] = "dropBackup"
          /\ phase' = [phase EXCEPT ![j] = "error"] /\ UNCHANGED <<target, expected>>
      BY <2>21, <2>0 DEF DropBackupFails, Step, Promotion
    <3>2. \A k \in Jobs \ {j} : pending'[k] = pending[k]
      BY <2>21 DEF DropBackupFails
    <3>3. \A c \in Components, k \in Jobs : c # Current(j) \/ k # j => backup'[c][k] = backup[c][k]
      BY <2>21, <3>1 DEF DropBackupFails
    <3>4. ASSUME NEW c \in Components, NEW k \in Jobs, Spare(c, k) PROVE Spare(c, k)'
      BY <3>1, <3>2, <3>3, <3>4
    <3> QED
      BY <3>1, <3>4
  <2>22. ASSUME NEW j \in Jobs, Fail(j) PROVE Kept'
    BY <2>22, <2>0 DEF Fail, Step, Promotion
  <2>23. ASSUME NEW d \in Components, RemoveChecks(d) PROVE Kept'
    BY <2>23, <2>0 DEF RemoveChecks, Promotion
  <2>24. ASSUME NEW d \in Components, RemoveEnds(d) PROVE Kept'
    BY <2>24, <2>0 DEF RemoveEnds, Promotion
  <2>25. CASE Restart
    BY <2>25, <2>0 DEF Restart, Relaunch, Promotion
  <2>26. CASE UNCHANGED vars
    BY <2>26, <2>0 DEF Promotion
  <2> QED
    BY <2>1, <2>2, <2>3, <2>4, <2>5, <2>6, <2>7, <2>8, <2>9, <2>10, <2>11, <2>12, <2>13, <2>14,
       <2>15, <2>16, <2>17, <2>18, <2>19, <2>20, <2>21, <2>22, <2>23, <2>24, <2>25, <2>26 DEF Next, Install
<1> QED
  BY <1>1, <1>2, TypeAndCurrent, BackupsAreWrittenOnce, PTL DEF Spec

(***************************************************************************)
(* An installed component is never lost: the payload survives in its       *)
(* directory or in a backup until the user removes it                      *)
(* (promote_owned_directory, remove).                                      *)
(***************************************************************************)
THEOREM InstalledIsNeverLost == Spec => []OwnedPayloadSurvives
<1>1. Kept => OwnedPayloadSurvives
  BY DEF Kept, Spare, OwnedPayloadSurvives
<1> QED
  BY <1>1, SpareIsKept, PTL

-----------------------------------------------------------------------------
(***************************************************************************)
(* A step of a thread outside publish and rollBack that leaves the disk    *)
(* alone moves no payload.                                                 *)
(***************************************************************************)
LEMMA Elsewhere ==
    ASSUME Undisturbed, NEW j \in Jobs, UNCHANGED diskVars,
           phase[j] \notin {"publish", "rollBack"}, phase'[j] \notin {"publish", "rollBack"},
           \A k \in Jobs \ {j} : phase'[k] = phase[k] /\ pending'[k] = pending[k]
    PROVE  Undisturbed'
<1>1. \A c \in Components, k \in Jobs : Held(c, k) => Held(c, k)'
  BY DEF Held, Current, diskVars
<1> QED
  BY <1>1 DEF Undisturbed, Current, diskVars

(***************************************************************************)
(* Neither does a step outside publish and rollBack that changes only what *)
(* the thread has in its own backups.                                      *)
(***************************************************************************)
LEMMA OwnBackup ==
    ASSUME Undisturbed, NEW j \in Jobs, UNCHANGED <<target, expected, disturbed>>,
           phase[j] \notin {"publish", "rollBack"}, phase'[j] \notin {"publish", "rollBack"},
           \A k \in Jobs \ {j} : phase'[k] = phase[k] /\ pending'[k] = pending[k],
           \A k \in Jobs : phase[k] \in Promotion => Current(k) \in Components,
           \A c \in Components, k \in Jobs \ {j} : backup'[c][k] = backup[c][k]
    PROVE  Undisturbed'
<1>1. \A c \in Components, k \in Jobs : Held(c, k) => Held(c, k)'
  BY DEF Held, Current
<1>2. \A k \in Jobs : phase'[k] \in {"publish", "rollBack"} =>
          /\ phase[k] = phase'[k] /\ Current(k)' = Current(k)
          /\ backup'[Current(k)][k] = backup[Current(k)][k]
  BY DEF Current, Promotion
<1> QED
  BY <1>1, <1>2 DEF Undisturbed

(***************************************************************************)
(* While no rollback fails, no removal stops half-way and no promotion is  *)
(* cut short, an installed component that is not in its directory is held  *)
(* by a thread that will publish or roll back (promote_owned_directory).   *)
(***************************************************************************)
LEMMA SomeoneHoldsIt == Spec => []Undisturbed
<1> USE InstallAssumption
<1>1. ASSUME Init PROVE Undisturbed
  <2>1. \A c \in Components :
            /\ c \in Installed => target[c] = "original"
            /\ c \notin Installed => target[c] \in {"foreign", "none"}
    BY <1>1 DEF Init
  <2>2. \A c \in Components : expected[c] = (c \in Installed)
    BY <1>1 DEF Init
  <2>3. \A j \in Jobs : phase[j] = "idle"
    BY <1>1 DEF Init
  <2>4. "original" \in Owned /\ "original" # "foreign"
    BY DEF Owned
  <2> QED
    BY <2>1, <2>2, <2>3, <2>4 DEF Undisturbed
<1>2. TypeOK /\ CurrentExists /\ Bookkeeping /\ ForeignRespected /\ Undisturbed /\ [Next]_vars => Undisturbed'
  <2> SUFFICES ASSUME TypeOK, CurrentExists, Bookkeeping, ForeignRespected, Undisturbed, [Next]_vars
               PROVE  Undisturbed'
    OBVIOUS
  <2> USE DEF TypeOK
  <2>0. \A j \in Jobs : phase[j] \in Promotion =>
          Current(j) \in Components /\ Current(j) = pending[j][1] /\ 1 \in DOMAIN pending[j]
    BY HeadAndTail DEF CurrentExists, Installing, Current, Promotion
  <2>1. ASSUME NEW j \in Jobs, NEW request \in Requests, Start(j, request) PROVE Undisturbed'
    BY <2>1, Elsewhere DEF Start, Step
  <2>2. ASSUME NEW j \in Jobs, StartRefused(j) PROVE Undisturbed'
    BY <2>2 DEF StartRefused, Undisturbed, Held, Current, diskVars
  <2>3. ASSUME NEW j \in Jobs, Cancel(j) PROVE Undisturbed'
    BY <2>3 DEF Cancel, Undisturbed, Held, Current, diskVars
  <2>4. ASSUME NEW j \in Jobs, NextComponent(j) PROVE Undisturbed'
    BY <2>4, Elsewhere DEF NextComponent, Step
  <2>5. ASSUME NEW j \in Jobs, StopBeforeNext(j) PROVE Undisturbed'
    BY <2>5, Elsewhere DEF StopBeforeNext, Step
  <2>6. ASSUME NEW j \in Jobs, AllInstalled(j) PROVE Undisturbed'
    BY <2>6, Elsewhere DEF AllInstalled, Step
  <2>7. ASSUME NEW j \in Jobs, Fetch(j) PROVE Undisturbed'
    BY <2>7, Elsewhere DEF Fetch, Step
  <2>8. ASSUME NEW j \in Jobs, FetchFails(j) PROVE Undisturbed'
    BY <2>8, Elsewhere DEF FetchFails, Step
  <2>9. ASSUME NEW j \in Jobs, Unpack(j) PROVE Undisturbed'
    BY <2>9, Elsewhere DEF Unpack, Step
  <2>10. ASSUME NEW j \in Jobs, UnpackFails(j) PROVE Undisturbed'
    BY <2>10, Elsewhere DEF UnpackFails, Step
  <2>11. ASSUME NEW j \in Jobs, Hangs(j) PROVE Undisturbed'
    BY <2>11, Elsewhere DEF Hangs, Step
  <2>12. ASSUME NEW j \in Jobs, Seal(j) PROVE Undisturbed'
    BY <2>12, Elsewhere DEF Seal, Step
  <2>13. ASSUME NEW j \in Jobs, SealFails(j) PROVE Undisturbed'
    BY <2>13, Elsewhere DEF SealFails, Step
  <2>14. ASSUME NEW j \in Jobs, LookAtTarget(j) PROVE Undisturbed'
    <3>1. phase[j] = "look" /\ Current(j) \in Components /\ UNCHANGED <<pending, diskVars>>
      BY <2>14, <2>0 DEF LookAtTarget, Step, Promotion
    <3>2. /\ phase'[j] \in {"publish", "backup", "error"}
          /\ \A k \in Jobs \ {j} : phase'[k] = phase[k]
      BY <2>14 DEF LookAtTarget, Step
    <3>3. backup[Current(j)][j] = "none"
      <4> HIDE DEF TypeOK
      <4>1. BackupOfCurrent(j) /\ Current(j) = pending[j][1] /\ 1 \in DOMAIN pending[j]
        BY <3>1, <2>0 DEF Bookkeeping, Promotion
      <4> QED
        BY <3>1, <4>1 DEF BackupOfCurrent
    <3>4. \A c \in Components, k \in Jobs : Held(c, k) => Held(c, k)'
      BY <3>1, <3>2 DEF Held, Current, diskVars
    <3> QED
      BY <3>1, <3>2, <3>3, <3>4 DEF Undisturbed, Current, diskVars
  <2>15. ASSUME NEW j \in Jobs, MoveToBackup(j) PROVE Undisturbed'
    <3>1. /\ phase[j] = "backup" /\ Current(j) \in Components
          /\ target[Current(j)] \notin {"none", "foreign"}
      BY <2>15, <2>0 DEF MoveToBackup, Step, Promotion, ForeignRespected
    <3>2. /\ phase' = [phase EXCEPT ![j] = "publish"]
          /\ backup' = [backup EXCEPT ![Current(j)][j] = target[Current(j)]]
          /\ target' = [target EXCEPT ![Current(j)] = "none"]
          /\ UNCHANGED <<pending, expected, disturbed>>
      BY <2>15 DEF MoveToBackup, Step
    <3> SUFFICES ASSUME ~disturbed PROVE Undisturbed'
      BY <3>2 DEF Undisturbed
    <3>3. target[Current(j)] \in Owned /\ Held(Current(j), j)' /\ Current(j)' = Current(j)
      BY <3>1, <3>2 DEF Undisturbed, Held, Current
    <3>4. \A c \in Components, k \in Jobs : Held(c, k) => Held(c, k)'
      BY <3>1, <3>2 DEF Held, Current
    <3>5. \A c \in Components : expected'[c] => target'[c] \in Owned \/ \E k \in Jobs : Held(c, k)'
      <4> TAKE c \in Components
      <4>1. CASE c = Current(j)
        BY <3>3, <4>1
      <4>2. CASE c # Current(j)
        BY <3>2, <3>4, <4>2 DEF Undisturbed
      <4> QED
        BY <4>1, <4>2
    <3>6. \A c \in Components : /\ target'[c] \in Owned \union {"none", "foreign"}
                               /\ target'[c] = "foreign" => ~expected'[c]
      BY <3>1, <3>2 DEF Undisturbed
    <3>7. \A k \in Jobs \ {j} :
              /\ phase'[k] = phase[k] /\ Current(k)' = Current(k)
              /\ backup'[Current(k)][k] = backup[Current(k)][k]
      BY <3>1, <3>2 DEF Current
    <3>8. phase'[j] = "publish" /\ backup'[Current(j)'][j] \in Owned
      BY <3>1, <3>2, <3>3 DEF Current
    <3> QED
      BY <3>2, <3>5, <3>6, <3>7, <3>8 DEF Undisturbed
  <2>16. ASSUME NEW j \in Jobs, MoveToBackupFails(j) PROVE Undisturbed'
    BY <2>16, Elsewhere DEF MoveToBackupFails, Step
  <2>17. ASSUME NEW j \in Jobs, Publish(j) PROVE Undisturbed'
    <3>1. /\ Current(j) \in Components /\ phase[j] = "publish" /\ j \in Owned
          /\ target' = [target EXCEPT ![Current(j)] = j]
          /\ expected' = [expected EXCEPT ![Current(j)] = TRUE]
          /\ UNCHANGED <<backup, disturbed>>
      BY <2>17, <2>0 DEF Publish, Promotion, Owned
    <3>2. /\ phase'[j] \in {"dropBackup", "loop"}
          /\ \A k \in Jobs \ {j} : phase'[k] = phase[k] /\ pending'[k] = pending[k]
      BY <2>17 DEF Publish, Step
    <3>3. \A c \in Components \ {Current(j)}, k \in Jobs : Held(c, k) => Held(c, k)'
      BY <3>1, <3>2 DEF Held, Current
    <3>4. j # "foreign"
      BY DEF NotOwned
    <3>5. \A k \in Jobs : phase'[k] \in {"publish", "rollBack"} =>
              phase[k] = phase'[k] /\ Current(k)' = Current(k)
      BY <3>2 DEF Current
    <3> QED
      BY <3>1, <3>3, <3>4, <3>5 DEF Undisturbed
  <2>18. ASSUME NEW j \in Jobs, PublishFails(j) PROVE Undisturbed'
    <3>1. /\ phase[j] = "publish" /\ UNCHANGED <<pending, diskVars>>
          /\ \/ phase' = [phase EXCEPT ![j] = "rollBack"] /\ backup[Current(j)][j] # "none"
             \/ phase' = [phase EXCEPT ![j] = "error"] /\ backup[Current(j)][j] = "none"
      BY <2>18 DEF PublishFails, Step
    <3>2. \A c \in Components, k \in Jobs : Held(c, k) => Held(c, k)'
      BY <3>1, NoneIsNotOwned DEF Held, Current, diskVars
    <3> QED
      BY <3>1, <3>2 DEF Undisturbed, Current, diskVars
  <2>19. ASSUME NEW j \in Jobs, RollBack(j) PROVE Undisturbed'
    <3>1. /\ Current(j) \in Components /\ phase[j] = "rollBack" /\ UNCHANGED <<pending, expected>>
          /\ phase' = [phase EXCEPT ![j] = "error"]
      BY <2>19, <2>0 DEF RollBack, Step, Promotion
    <3>2. CASE disturbed'
      BY <3>2 DEF Undisturbed
    <3>3. CASE target[Current(j)] # "none" /\ UNCHANGED <<target, backup, disturbed>>
      <4> SUFFICES ASSUME ~disturbed PROVE Undisturbed'
        BY <3>3 DEF Undisturbed
      <4>1. \A c \in Components \ {Current(j)}, k \in Jobs : Held(c, k) => Held(c, k)'
        BY <3>1, <3>3 DEF Held, Current
      <4>2. target[Current(j)] \in Owned \/ ~expected[Current(j)]
        BY <3>1, <3>3 DEF Undisturbed
      <4>3. \A c \in Components : expected'[c] => target'[c] \in Owned \/ \E k \in Jobs : Held(c, k)'
        BY <3>1, <3>3, <4>1, <4>2 DEF Undisturbed
      <4> QED
        BY <3>1, <3>3, <4>3 DEF Undisturbed, Current
    <3>4. CASE /\ target[Current(j)] = "none" /\ UNCHANGED disturbed
               /\ target' = [target EXCEPT ![Current(j)] = backup[Current(j)][j]]
               /\ backup' = [backup EXCEPT ![Current(j)][j] = "none"]
      <4> SUFFICES ASSUME ~disturbed PROVE Undisturbed'
        BY <3>4 DEF Undisturbed
      <4>1. \A c \in Components \ {Current(j)}, k \in Jobs : Held(c, k) => Held(c, k)'
        BY <3>1, <3>4 DEF Held, Current
      <4>2. target'[Current(j)] \in Owned /\ target'[Current(j)] # "foreign"
        BY <3>1, <3>4 DEF Undisturbed, ForeignRespected
      <4>3. \A c \in Components :
                /\ target'[c] \in Owned \union {"none", "foreign"}
                /\ target'[c] = "foreign" => ~expected'[c]
                /\ expected'[c] => target'[c] \in Owned \/ \E k \in Jobs : Held(c, k)'
        BY <3>1, <3>4, <4>1, <4>2 DEF Undisturbed
      <4>4. \A k \in Jobs \ {j} :
                /\ phase'[k] = phase[k] /\ Current(k)' = Current(k)
                /\ backup'[Current(k)][k] = backup[Current(k)][k]
        BY <3>1, <3>4 DEF Current
      <4>5. phase'[j] = "error"
        BY <3>1
      <4> QED
        BY <4>3, <4>4, <4>5 DEF Undisturbed
    <3> QED
      BY <2>19, <3>2, <3>3, <3>4 DEF RollBack
  <2>20. ASSUME NEW j \in Jobs, DropBackup(j) PROVE Undisturbed'
    <3>1. /\ Current(j) \in Components /\ phase[j] = "dropBackup" /\ phase' = [phase EXCEPT ![j] = "loop"]
          /\ UNCHANGED <<target, expected, disturbed>>
      BY <2>20, <2>0 DEF DropBackup, Step, Promotion
    <3>2. \A k \in Jobs \ {j} : phase'[k] = phase[k] /\ pending'[k] = pending[k]
      BY <2>20 DEF DropBackup, Step
    <3>3. \A c \in Components, k \in Jobs \ {j} : backup'[c][k] = backup[c][k]
      BY <2>20, <3>1 DEF DropBackup
    <3>4. \A k \in Jobs : phase[k] \in Promotion => Current(k) \in Components
      BY <2>0
    <3>5. phase[j] \notin {"publish", "rollBack"} /\ phase'[j] \notin {"publish", "rollBack"}
      BY <3>1
    <3> QED
      BY <3>1, <3>2, <3>3, <3>4, <3>5, OwnBackup
  <2>21. ASSUME NEW j \in Jobs, DropBackupFails(j) PROVE Undisturbed'
    <3>1. /\ Current(j) \in Components /\ phase[j] = "dropBackup" /\ phase' = [phase EXCEPT ![j] = "error"]
          /\ UNCHANGED <<target, expected, disturbed>>
      BY <2>21, <2>0 DEF DropBackupFails, Step, Promotion
    <3>2. \A k \in Jobs \ {j} : phase'[k] = phase[k] /\ pending'[k] = pending[k]
      BY <2>21 DEF DropBackupFails, Step
    <3>3. \A c \in Components, k \in Jobs \ {j} : backup'[c][k] = backup[c][k]
      BY <2>21, <3>1 DEF DropBackupFails
    <3>4. \A k \in Jobs : phase[k] \in Promotion => Current(k) \in Components
      BY <2>0
    <3>5. phase[j] \notin {"publish", "rollBack"} /\ phase'[j] \notin {"publish", "rollBack"}
      BY <3>1
    <3> QED
      BY <3>1, <3>2, <3>3, <3>4, <3>5, OwnBackup
  <2>22. ASSUME NEW j \in Jobs, Fail(j) PROVE Undisturbed'
    BY <2>22, Elsewhere DEF Fail, Step
  <2>23. ASSUME NEW d \in Components, RemoveChecks(d) PROVE Undisturbed'
    BY <2>23 DEF RemoveChecks, jobVars, diskVars, Undisturbed, Held, Current
  <2>24. ASSUME NEW d \in Components, RemoveEnds(d) PROVE Undisturbed'
    <3>1. UNCHANGED <<jobVars, backup>>
      BY <2>24 DEF RemoveEnds
    <3>2. \/ UNCHANGED <<target, expected, disturbed>>
          \/ disturbed'
          \/ /\ target' = [target EXCEPT ![d] = "none"]
             /\ expected' = [expected EXCEPT ![d] = FALSE]
             /\ UNCHANGED disturbed
      BY <2>24 DEF RemoveEnds
    <3>3. \A c \in Components, k \in Jobs : Held(c, k) => Held(c, k)'
      BY <3>1 DEF Held, Current, jobVars
    <3>4. CASE UNCHANGED <<target, expected, disturbed>>
      BY <3>1, <3>3, <3>4 DEF Undisturbed, Current, jobVars
    <3>5. CASE disturbed'
      BY <3>5 DEF Undisturbed
    <3>6. CASE /\ target' = [target EXCEPT ![d] = "none"]
               /\ expected' = [expected EXCEPT ![d] = FALSE]
               /\ UNCHANGED disturbed
      <4>1. \A c \in Components : /\ c = d => target'[c] = "none" /\ ~expected'[c]
                                 /\ c # d => target'[c] = target[c] /\ expected'[c] = expected[c]
        BY <3>6
      <4>2. \A k \in Jobs : phase'[k] = phase[k] /\ Current(k)' = Current(k)
        BY <3>1 DEF Current, jobVars
      <4> QED
        BY <3>1, <3>3, <3>6, <4>1, <4>2 DEF Undisturbed
    <3> QED
      BY <3>2, <3>4, <3>5, <3>6
  <2>25. CASE Restart
    <3>1. /\ disturbed' = (disturbed \/ \E j \in Jobs : phase[j] \in Promotion)
          /\ phase' = [j \in Jobs |-> "idle"] /\ UNCHANGED <<target, expected>>
      BY <2>25 DEF Restart, Relaunch
    <3> SUFFICES ASSUME ~disturbed' PROVE Undisturbed'
      BY DEF Undisturbed
    <3>2. ~disturbed /\ \A j \in Jobs : phase[j] \notin Promotion
      BY <3>1
    <3>3. \A c \in Components, j \in Jobs : ~Held(c, j)
      BY <3>2 DEF Held, Promotion
    <3> QED
      BY <3>1, <3>2, <3>3 DEF Undisturbed
  <2>26. CASE UNCHANGED vars
    BY <2>26 DEF vars, jobVars, diskVars, Undisturbed, Held, Current
  <2> QED
    BY <2>1, <2>2, <2>3, <2>4, <2>5, <2>6, <2>7, <2>8, <2>9, <2>10, <2>11, <2>12, <2>13, <2>14,
       <2>15, <2>16, <2>17, <2>18, <2>19, <2>20, <2>21, <2>22, <2>23, <2>24, <2>25, <2>26 DEF Next, Install
<1> QED
  BY <1>1, <1>2, TypeAndCurrent, BackupsAreWrittenOnce, ForeignStaysRespected, PTL DEF Spec

(***************************************************************************)
(* An installed component is in its place whenever nobody is promoting it, *)
(* however jobs and removals collide and payloads fail to be published,    *)
(* unless the disk fails a rollback or cuts a removal short, or the        *)
(* application ends inside a promotion (promote_owned_directory).          *)
(***************************************************************************)
THEOREM InstalledStaysInPlace == Spec => []ComponentStaysInPlace
<1>1. Undisturbed => ComponentStaysInPlace
  BY DEF Undisturbed, Held, ComponentStaysInPlace, InPlace, Promoting, Promotion, IsReady
<1> QED
  BY <1>1, SomeoneHoldsIt, PTL

-----------------------------------------------------------------------------
(* JobRecord: the record file of one installation.                         *)

\* who runs: a thread that persists has its caller, and recovery has no worker
WorkerInv ==
    /\ step["worker"] # "idle" => worker
    /\ worker => accepted
    /\ task = "starting" => ~accepted
    /\ task \in {"starting", "recovering", "down"} => ~worker
    /\ task = "recovering" => copy["main"] = "failed"

\* what a copy of the record may say
TrueOf(aStatus) == aStatus \in {"ready", "cancelled"} => outcome = aStatus

OutcomeInv ==
    /\ ~accepted => outcome = "none"
    /\ outcome # "none" => memory \notin Interruptible
    /\ TrueOf(memory)
    /\ \A t \in Threads : TrueOf(copy[t])
    /\ \A p \in Paths : TrueOf(files[p])

\* the temporary file is whole from its write to its publication, and the record is
\* replaced only after that
WholeWhen(t) ==
    /\ step[t] = "write" => handle[t] = "temporary" /\ files["temporary"] = "empty"
    /\ step[t] \in {"look", "dropPrevious", "backup", "publish"} => files["temporary"] \in Readable
    /\ step[t] \in {"dropPrevious", "backup", "clean", "ok"} => files["final"] \in Readable
    /\ step[t] \notin {"restore", "error"}

SoleWriter ==
    /\ task \notin {"cancelling", "cancelWriting"}
    /\ step["main"] # "idle" => task \in {"starting", "recovering"}

CopyInv ==
    ~interfered =>
        /\ files["final"] \in Readable \union {"missing"}
        /\ files["previous"] \in Readable \union {"missing"}
        /\ SoleWriter
        /\ \A t \in Threads : WholeWhen(t)
        /\ accepted => files["final"] \in Readable \/ files["previous"] \in Readable

\* what one writer has written, and that nothing is left unwritten between two updates
EndInv ==
    /\ task \in {"down", "recovering"} => memory = "absent"
    /\ ~interfered =>
        /\ \A t \in Threads :
              /\ step[t] \in {"look", "dropPrevious", "backup", "publish"} =>
                    files["temporary"] = copy[t]
              /\ step[t] \in {"clean", "ok"} => files["final"] = copy[t]
        /\ step["worker"] # "idle" => copy["worker"] = memory
        /\ task = "starting" => memory = "queued" /\ copy["main"] = "queued"
        /\ task = "idle" /\ step["worker"] = "idle" /\ memory # "absent" => files["final"] = memory

\* the job that is being cancelled stays in the jobs map
CancelsKnownJob == task = "cancelling" => memory # "absent"

(***************************************************************************)
(* Every variable of the record keeps its type.                            *)
(***************************************************************************)
LEMMA RecordTypes == RecordSpec => [](RecordTypeOK /\ CancelsKnownJob)
<1> DEFINE Flags == /\ worker \in BOOLEAN /\ cancelRequested \in BOOLEAN
                    /\ accepted \in BOOLEAN /\ interfered \in BOOLEAN
<1> DEFINE Values == /\ memory \in Readable \union {"absent"}
                     /\ files \in [Paths -> FileContents]
                     /\ handle \in [Threads -> Paths \union {"none", "unlinked"}]
                     /\ step \in [Threads -> Steps]
                     /\ copy \in [Threads -> Readable]
                     /\ task \in Tasks
                     /\ outcome \in Terminal \union {"none"}
                     /\ CancelsKnownJob
<1> USE DEF Threads, Paths, Interruptible, Terminal, Readable, FileContents, Steps, Tasks
<1>1. RecordInit => RecordTypeOK /\ CancelsKnownJob
  <2>1. RecordInit => Values
    BY DEF RecordInit, CancelsKnownJob
  <2>2. RecordInit => Flags
    BY DEF RecordInit
  <2> QED
    BY <2>1, <2>2 DEF RecordTypeOK
<1>2. RecordTypeOK /\ CancelsKnownJob /\ [RecordNext]_recordVars
          => (RecordTypeOK /\ CancelsKnownJob)'
  <2> SUFFICES ASSUME Values, Flags, [RecordNext]_recordVars PROVE Values' /\ Flags'
    BY DEF RecordTypeOK
  <2> USE DEF CancelsKnownJob, Goto, Return, Rename, Remove, Update, callerVars
  <2>1. ASSUME NEW t \in Threads, Persist(t) PROVE Values' /\ Flags'
    <3>1. CASE CreateTemporary(t) \/ LookForFinal(t)
      BY <3>1 DEF CreateTemporary, LookForFinal
    <3>2. CASE WriteTemporary(t)
      BY <3>2 DEF WriteTemporary
    <3>3. CASE DropPrevious(t)
      <4>1. Values'
        BY <3>3 DEF DropPrevious
      <4>2. Flags'
        BY <3>3 DEF DropPrevious
      <4> QED
        BY <4>1, <4>2
    <3>4. CASE BackupFinal(t)
      BY <3>4 DEF BackupFinal
    <3>5. CASE PublishTemporary(t)
      BY <3>5 DEF PublishTemporary
    <3>6. CASE PublishTemporaryFails(t)
      BY <3>6 DEF PublishTemporaryFails
    <3>7. CASE RestorePrevious(t)
      BY <3>7 DEF RestorePrevious
    <3>8. CASE CleanPrevious(t)
      <4>1. Values'
        BY <3>8 DEF CleanPrevious
      <4>2. Flags'
        BY <3>8 DEF CleanPrevious
      <4> QED
        BY <4>1, <4>2
    <3>9. CASE PersistFails(t)
      BY <3>9 DEF PersistFails
    <3> QED
      BY <2>1, <3>1, <3>2, <3>3, <3>4, <3>5, <3>6, <3>7, <3>8, <3>9 DEF Persist
  <2>2. CASE StartInserts
    BY <2>2 DEF StartInserts
  <2>3. CASE StartReturns
    <3>1. Values'
      BY <2>3 DEF StartReturns
    <3>2. Flags'
      BY <2>3 DEF StartReturns
    <3> QED
      BY <3>1, <3>2
  <2>4. CASE Advance
    BY <2>4 DEF Advance
  <2>5. CASE GiveUp
    BY <2>5 DEF GiveUp
  <2>6. CASE WorkerContinues
    <3>1. Values'
      BY <2>6 DEF WorkerContinues
    <3>2. Flags'
      BY <2>6 DEF WorkerContinues
    <3> QED
      BY <3>1, <3>2
  <2>7. CASE CancelLooks
    BY <2>7 DEF CancelLooks
  <2>8. CASE CancelReturns
    BY <2>8 DEF CancelReturns
  <2>9. CASE CancelUpdates
    <3>1. memory \in Readable
      BY <2>9 DEF CancelUpdates
    <3>2. Values'
      BY <2>9, <3>1 DEF CancelUpdates
    <3>3. Flags'
      BY <2>9 DEF CancelUpdates
    <3> QED
      BY <3>2, <3>3
  <2>10. CASE Crash
    BY <2>10 DEF Crash
  <2>11. CASE Launch
    BY <2>11 DEF Launch, Recovered
  <2>12. CASE LaunchRecovers
    BY <2>12 DEF LaunchRecovers, Recovered
  <2>13. CASE RecoveryReturns
    BY <2>13 DEF RecoveryReturns
  <2>14. CASE UNCHANGED recordVars
    BY <2>14 DEF recordVars
  <2> QED
    BY <2>1, <2>2, <2>3, <2>4, <2>5, <2>6, <2>7, <2>8, <2>9, <2>10, <2>11, <2>12, <2>13, <2>14
    DEF RecordNext
<1> QED
  BY <1>1, <1>2, PTL DEF RecordSpec

(***************************************************************************)
(* Every variable of the record keeps its type, whatever the two threads,  *)
(* the disk and the crashes do (update_job, persist_job, load).            *)
(***************************************************************************)
THEOREM RecordTypeCorrect == RecordSpec => []RecordTypeOK
BY RecordTypes, PTL

(***************************************************************************)
(* A step of persist_job changes only where its own thread stands, and     *)
(* starts from a thread that is persisting.                                *)
(***************************************************************************)
LEMMA PersistFrame ==
    ASSUME RecordTypeOK, NEW t \in Threads, Persist(t)
    PROVE  /\ UNCHANGED <<copy, memory, task, worker, cancelRequested, accepted, outcome>>
           /\ step[t] \notin {"idle", "ok", "error"}
           /\ \A u \in Threads \ {t} : step'[u] = step[u]
           /\ step'[t] # "idle"
<1> USE DEF Threads, RecordTypeOK, Goto, callerVars
<1>1. UNCHANGED <<copy, memory, task, worker, cancelRequested, accepted, outcome>>
  BY DEF Persist, CreateTemporary, WriteTemporary, LookForFinal, DropPrevious, BackupFinal,
         PublishTemporary, PublishTemporaryFails, RestorePrevious, CleanPrevious, PersistFails
<1>2. \E from, to \in Steps \ {"idle"} : from \notin {"ok", "error"} /\ Goto(t, from, to)
  <2> USE DEF Steps
  <2>1. CASE CreateTemporary(t) \/ WriteTemporary(t) \/ LookForFinal(t) \/ DropPrevious(t)
    BY <2>1 DEF CreateTemporary, WriteTemporary, LookForFinal, DropPrevious
  <2>2. CASE BackupFinal(t) \/ PublishTemporary(t) \/ PublishTemporaryFails(t)
    BY <2>2 DEF BackupFinal, PublishTemporary, PublishTemporaryFails
  <2>3. CASE RestorePrevious(t) \/ CleanPrevious(t) \/ PersistFails(t)
    BY <2>3 DEF RestorePrevious, CleanPrevious, PersistFails
  <2> QED
    BY <2>1, <2>2, <2>3 DEF Persist
<1> QED
  BY <1>1, <1>2

(***************************************************************************)
(* Whoever persists has its caller.                                        *)
(***************************************************************************)
LEMMA WorkerInductive ==
    ASSUME RecordTypeOK, WorkerInv, UnfinishedJobHasWorker, [RecordNext]_recordVars
    PROVE  (WorkerInv /\ UnfinishedJobHasWorker)'
<1> USE DEF WorkerInv, UnfinishedJobHasWorker, Threads, Interruptible, Terminal, Goto, Update,
            Return
<1>1. ASSUME NEW t \in Threads, Persist(t) PROVE (WorkerInv /\ UnfinishedJobHasWorker)'
  BY <1>1, PersistFrame
<1> USE DEF RecordTypeOK
<1>2. CASE StartInserts
  BY <1>2 DEF StartInserts
<1>3. CASE StartReturns
  BY <1>3 DEF StartReturns
<1>4. CASE Advance \/ GiveUp
  BY <1>4 DEF Advance, GiveUp
<1>5. CASE WorkerContinues
  BY <1>5 DEF WorkerContinues
<1>6. CASE CancelLooks \/ CancelReturns
  BY <1>6 DEF CancelLooks, CancelReturns
<1>7. CASE CancelUpdates
  BY <1>7 DEF CancelUpdates
<1>8. CASE Crash
  BY <1>8 DEF Crash
<1>9. CASE Launch
  BY <1>9 DEF Launch, Recovered
<1>10. CASE LaunchRecovers
  BY <1>10 DEF LaunchRecovers, Recovered
<1>11. CASE RecoveryReturns
  BY <1>11 DEF RecoveryReturns
<1>12. CASE UNCHANGED recordVars
  BY <1>12 DEF recordVars
<1> QED
  BY <1>1, <1>2, <1>3, <1>4, <1>5, <1>6, <1>7, <1>8, <1>9, <1>10, <1>11, <1>12 DEF RecordNext

LEMMA WorkerAlways == RecordSpec => [](RecordTypeOK /\ WorkerInv /\ UnfinishedJobHasWorker)
<1>1. RecordInit => WorkerInv /\ UnfinishedJobHasWorker
  BY DEF RecordInit, WorkerInv, UnfinishedJobHasWorker, Threads
<1> QED
  BY <1>1, RecordTypeCorrect, WorkerInductive, PTL DEF RecordSpec

(***************************************************************************)
(* No accepted job waits in the jobs map for a thread that is not there:   *)
(* start spawns it, and a launch fails what was cut short                  *)
(* (start, recover_interrupted_state).                                     *)
(***************************************************************************)
THEOREM UnfinishedJobsHaveWorkers == RecordSpec => []UnfinishedJobHasWorker
BY WorkerAlways, PTL

(***************************************************************************)
(* No step of persist_job puts a status into a file that was not there or  *)
(* in a copy.                                                              *)
(***************************************************************************)
LEMMA FilesComeFrom ==
    ASSUME RecordTypeOK, NEW t \in Threads, Persist(t), NEW p \in Paths
    PROVE  files'[p] \in {"missing", "empty", "torn", copy[t]} \/ \E q \in Paths : files'[p] = files[q]
<1> USE DEF Threads, Paths, RecordTypeOK, Rename, Remove
<1>1. CASE CreateTemporary(t)
  BY <1>1 DEF CreateTemporary
<1>2. CASE WriteTemporary(t)
  BY <1>2 DEF WriteTemporary
<1>3. CASE DropPrevious(t) \/ CleanPrevious(t)
  BY <1>3 DEF DropPrevious, CleanPrevious
<1>4. CASE BackupFinal(t)
  BY <1>4 DEF BackupFinal
<1>5. CASE PublishTemporary(t)
  BY <1>5 DEF PublishTemporary
<1>6. CASE RestorePrevious(t)
  BY <1>6 DEF RestorePrevious
<1>7. CASE PersistFails(t)
  BY <1>7 DEF PersistFails
<1>8. CASE LookForFinal(t) \/ PublishTemporaryFails(t)
  BY <1>8 DEF LookForFinal, PublishTemporaryFails
<1> QED
  BY <1>1, <1>2, <1>3, <1>4, <1>5, <1>6, <1>7, <1>8 DEF Persist

LEMMA OutcomeInductive ==
    ASSUME RecordTypeOK, WorkerInv, OutcomeInv, [RecordNext]_recordVars
    PROVE  OutcomeInv'
<1> USE DEF Threads, Interruptible, Terminal, Readable, OutcomeInv, TrueOf
<1>1. ASSUME NEW t \in Threads, Persist(t) PROVE OutcomeInv'
  <2>1. UNCHANGED <<copy, memory, accepted, outcome>>
    BY <1>1, PersistFrame
  <2>2. ASSUME NEW p \in Paths PROVE TrueOf(files[p])'
    BY <1>1, <2>1, FilesComeFrom
  <2> QED
    BY <2>1, <2>2
<1> USE DEF RecordTypeOK, WorkerInv, Goto, Update, Return
<1>2. CASE StartInserts
  BY <1>2 DEF StartInserts
<1>3. CASE StartReturns
  BY <1>3 DEF StartReturns
<1>4. CASE Advance
  BY <1>4 DEF Advance
<1>5. CASE GiveUp
  BY <1>5 DEF GiveUp
<1>6. CASE WorkerContinues
  BY <1>6 DEF WorkerContinues
<1>7. CASE CancelLooks \/ CancelReturns
  BY <1>7 DEF CancelLooks, CancelReturns
<1>8. CASE CancelUpdates
  BY <1>8 DEF CancelUpdates
<1>9. CASE Crash
  BY <1>9 DEF Crash
<1>10. CASE Launch
  BY <1>10 DEF Launch, Recovered, Paths
<1>11. CASE LaunchRecovers
  BY <1>11 DEF LaunchRecovers, Recovered, Paths
<1>12. CASE RecoveryReturns
  BY <1>12 DEF RecoveryReturns
<1>13. CASE UNCHANGED recordVars
  BY <1>13 DEF recordVars
<1> QED
  BY <1>1, <1>2, <1>3, <1>4, <1>5, <1>6, <1>7, <1>8, <1>9, <1>10, <1>11, <1>12, <1>13
  DEF RecordNext

(***************************************************************************)
(* The jobs map calls no job ready or cancelled that did not end so,       *)
(* however the two writers and the crashes mix the three files and the     *)
(* copies (update_job, persist_job, recover_interrupted_state).            *)
(***************************************************************************)
THEOREM OutcomesAreTrue == RecordSpec => []OutcomeIsTrue
<1>1. RecordInit => OutcomeInv
  BY DEF RecordInit, OutcomeInv, TrueOf, Threads, Paths, Interruptible
<1>2. OutcomeInv => OutcomeIsTrue
  BY DEF OutcomeInv, TrueOf, OutcomeIsTrue
<1> QED
  BY <1>1, <1>2, WorkerAlways, OutcomeInductive, PTL DEF RecordSpec

(***************************************************************************)
(* A thread that persists undisturbed is the only one that does.           *)
(***************************************************************************)
LEMMA SoleWriterAlone ==
    ASSUME RecordTypeOK, WorkerInv, SoleWriter, NEW t \in Threads, step[t] # "idle",
           NEW u \in Threads \ {t}
    PROVE  step[u] = "idle"
BY DEF RecordTypeOK, WorkerInv, SoleWriter, Threads

LEMMA PersistKeepsCopy ==
    ASSUME RecordTypeOK, WorkerInv, CopyInv, NEW t \in Threads, Persist(t)
    PROVE  CopyInv'
<1> SUFFICES ASSUME ~interfered' PROVE CopyInv'
  BY DEF CopyInv
<1>1. ~interfered
  BY DEF Persist, CreateTemporary, WriteTemporary, LookForFinal, DropPrevious, BackupFinal,
         PublishTemporary, PublishTemporaryFails, RestorePrevious, CleanPrevious, PersistFails
<1>2. /\ UNCHANGED <<copy, memory, task, worker, accepted>>
      /\ step[t] # "idle"
      /\ \A u \in Threads \ {t} : step'[u] = step[u]
  BY PersistFrame
<1>3. \A u \in Threads \ {t} : step[u] = "idle"
  BY <1>1, <1>2, SoleWriterAlone DEF CopyInv
<1>4. \A u \in Threads \ {t} : WholeWhen(u)'
  BY <1>2, <1>3 DEF WholeWhen
<1>5. SoleWriter'
  BY <1>1, <1>2, <1>3 DEF SoleWriter, CopyInv, Threads
<1>6. WholeWhen(t)
  BY <1>1 DEF CopyInv
<1>7. /\ files["final"] \in Readable \union {"missing"}
      /\ files["previous"] \in Readable \union {"missing"}
      /\ accepted => files["final"] \in Readable \/ files["previous"] \in Readable
  BY <1>1 DEF CopyInv
<1>8. /\ files["final"]' \in Readable \union {"missing"}
      /\ files["previous"]' \in Readable \union {"missing"}
      /\ accepted' => files["final"]' \in Readable \/ files["previous"]' \in Readable
      /\ WholeWhen(t)'
  <2> USE <1>1, <1>2, <1>6, <1>7 DEF WholeWhen, RecordTypeOK, Threads, Paths, Goto, Rename, Remove
  <2>0. \A s \in Readable : s \notin {"missing", "empty", "torn"}
    BY DEF Readable, Interruptible, Terminal
  <2>1. CASE CreateTemporary(t)
    BY <2>1 DEF CreateTemporary
  <2>2. CASE WriteTemporary(t)
    BY <2>2 DEF WriteTemporary
  <2>3. CASE LookForFinal(t)
    BY <2>3 DEF LookForFinal
  <2>4. CASE DropPrevious(t)
    BY <2>4 DEF DropPrevious
  <2>5. CASE BackupFinal(t)
    BY <2>5, <2>0 DEF BackupFinal
  <2>6. CASE PublishTemporary(t)
    BY <2>6, <2>0 DEF PublishTemporary
  <2>7. CASE CleanPrevious(t)
    BY <2>7 DEF CleanPrevious
  <2>8. CASE PublishTemporaryFails(t) \/ RestorePrevious(t) \/ PersistFails(t)
    BY <2>8 DEF PublishTemporaryFails, RestorePrevious, PersistFails
  <2> QED
    BY <2>1, <2>2, <2>3, <2>4, <2>5, <2>6, <2>7, <2>8 DEF Persist
<1> QED
  BY <1>4, <1>5, <1>8 DEF CopyInv

LEMMA CopyInductive ==
    ASSUME RecordTypeOK, WorkerInv, CopyInv, [RecordNext]_recordVars
    PROVE  CopyInv'
<1>1. ASSUME NEW t \in Threads, Persist(t) PROVE CopyInv'
  BY <1>1, PersistKeepsCopy
<1> USE DEF CopyInv, SoleWriter, WholeWhen, RecordTypeOK, WorkerInv, Threads, Goto, Update, Return
<1>2. CASE StartInserts
  BY <1>2 DEF StartInserts
<1>3. CASE StartReturns
  BY <1>3 DEF StartReturns
<1>4. CASE Advance
  BY <1>4 DEF Advance
<1>5. CASE GiveUp
  BY <1>5 DEF GiveUp
<1>6. CASE WorkerContinues
  BY <1>6 DEF WorkerContinues
<1>7. CASE CancelLooks \/ CancelUpdates \/ CancelReturns
  BY <1>7 DEF CancelLooks, CancelUpdates, CancelReturns
<1>8. CASE Crash
  BY <1>8 DEF Crash
<1>9. CASE Launch
  BY <1>9 DEF Launch
<1>10. CASE LaunchRecovers
  BY <1>10 DEF LaunchRecovers
<1>11. CASE RecoveryReturns
  BY <1>11 DEF RecoveryReturns
<1>12. CASE UNCHANGED recordVars
  BY <1>12 DEF recordVars
<1> QED
  BY <1>1, <1>2, <1>3, <1>4, <1>5, <1>6, <1>7, <1>8, <1>9, <1>10, <1>11, <1>12 DEF RecordNext

LEMMA PersistKeepsEnd ==
    ASSUME RecordTypeOK, WorkerInv, CopyInv, EndInv, NEW t \in Threads, Persist(t)
    PROVE  EndInv'
<1>1. /\ UNCHANGED <<copy, memory, task, worker, accepted>>
      /\ step[t] # "idle" /\ step'[t] # "idle"
      /\ \A u \in Threads \ {t} : step'[u] = step[u]
  BY PersistFrame
<1> SUFFICES ASSUME ~interfered' PROVE EndInv'
  BY <1>1 DEF EndInv
<1>2. ~interfered
  BY DEF Persist, CreateTemporary, WriteTemporary, LookForFinal, DropPrevious, BackupFinal,
         PublishTemporary, PublishTemporaryFails, RestorePrevious, CleanPrevious, PersistFails
<1>3. \A u \in Threads \ {t} : step[u] = "idle"
  BY <1>1, <1>2, SoleWriterAlone DEF CopyInv
<1>4. t = "worker" \/ task \in {"starting", "recovering"}
  BY <1>1, <1>2 DEF CopyInv, SoleWriter, Threads
<1>5. WholeWhen(t)
  BY <1>2 DEF CopyInv
<1>6. /\ step'[t] \in {"look", "dropPrevious", "backup", "publish"} => files'["temporary"] = copy[t]
      /\ step'[t] \in {"clean", "ok"} => files'["final"] = copy[t]
  <2> USE <1>1, <1>2, <1>5 DEF EndInv, WholeWhen, RecordTypeOK, Threads, Paths, Goto, Rename, Remove
  <2>1. CASE CreateTemporary(t)
    BY <2>1 DEF CreateTemporary
  <2>2. CASE WriteTemporary(t)
    BY <2>2 DEF WriteTemporary
  <2>3. CASE LookForFinal(t)
    BY <2>3 DEF LookForFinal
  <2>4. CASE DropPrevious(t)
    BY <2>4 DEF DropPrevious
  <2>5. CASE BackupFinal(t)
    BY <2>5 DEF BackupFinal
  <2>6. CASE PublishTemporary(t)
    BY <2>6 DEF PublishTemporary
  <2>7. CASE CleanPrevious(t)
    BY <2>7 DEF CleanPrevious
  <2>8. CASE PublishTemporaryFails(t) \/ RestorePrevious(t) \/ PersistFails(t)
    BY <2>8 DEF PublishTemporaryFails, RestorePrevious, PersistFails
  <2> QED
    BY <2>1, <2>2, <2>3, <2>4, <2>5, <2>6, <2>7, <2>8 DEF Persist
<1> QED
  BY <1>1, <1>2, <1>3, <1>4, <1>6 DEF EndInv, Threads

LEMMA EndInductive ==
    ASSUME RecordTypeOK, WorkerInv, CopyInv, EndInv, [RecordNext]_recordVars
    PROVE  EndInv'
<1>1. ASSUME NEW t \in Threads, Persist(t) PROVE EndInv'
  BY <1>1, PersistKeepsEnd
<1> USE DEF EndInv, CopyInv, SoleWriter, WholeWhen, RecordTypeOK, WorkerInv, Threads, Goto,
            Update, Return
<1>2. CASE StartInserts
  BY <1>2 DEF StartInserts
<1>3. CASE StartReturns
  BY <1>3 DEF StartReturns
<1>4. CASE Advance
  BY <1>4 DEF Advance
<1>5. CASE GiveUp
  BY <1>5 DEF GiveUp
<1>6. CASE WorkerContinues
  BY <1>6 DEF WorkerContinues
<1>7. CASE CancelLooks \/ CancelUpdates \/ CancelReturns
  BY <1>7 DEF CancelLooks, CancelUpdates, CancelReturns
<1>8. CASE Crash
  BY <1>8 DEF Crash
<1>9. CASE Launch
  BY <1>9 DEF Launch, Recovered, Terminal, Interruptible
<1>10. CASE LaunchRecovers
  BY <1>10 DEF LaunchRecovers
<1>11. CASE RecoveryReturns
  BY <1>11 DEF RecoveryReturns
<1>12. CASE UNCHANGED recordVars
  BY <1>12 DEF recordVars
<1> QED
  BY <1>1, <1>2, <1>3, <1>4, <1>5, <1>6, <1>7, <1>8, <1>9, <1>10, <1>11, <1>12 DEF RecordNext

(***************************************************************************)
(* As long as nobody cancels and no file call fails, every crash leaves a  *)
(* record of an accepted job, and the record of an ended job tells how it  *)
(* ended: the second writer is what can lose either (the renames of        *)
(* persist_job, and cancel).                                               *)
(***************************************************************************)
THEOREM ACopySurvives == RecordSpec => []OneCopySurvives
<1>1. RecordInit => CopyInv /\ EndInv
  BY DEF RecordInit, CopyInv, EndInv, SoleWriter, WholeWhen, Threads, Paths
<1>2. RecordTypeOK /\ WorkerInv /\ CopyInv /\ EndInv => OneCopySurvives
  BY DEF RecordTypeOK, WorkerInv, CopyInv, EndInv, OneCopySurvives, EndIsOnDisk, Terminal
<1> QED
  BY <1>1, <1>2, WorkerAlways, CopyInductive, EndInductive, PTL DEF RecordSpec
=============================================================================
