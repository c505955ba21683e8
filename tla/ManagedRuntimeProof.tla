-------------------------- MODULE ManagedRuntimeProof --------------------------
(***************************************************************************)
(* Proofs about ManagedRuntime: its types, that a previous environment is  *)
(* never lost, that a failure leaves it in place and that "ready" is only  *)
(* said of environments that work.                                         *)
(*                                                                         *)
(* The argument is local to a thread: Sound says of every step of          *)
(* prepare_one what the place and the quarantine directory hold, relative  *)
(* to what was in the place when the preparation began.  Threads do not    *)
(* disturb each other, because every environment has places of its own.    *)
(***************************************************************************)
EXTENDS ManagedRuntime, TLAPS

Original(e) == before[goal[e]]

\* what a probe, and that of the preflight, may answer of the place
Works(place) == TRUE \in Verdicts(directory[place])
Answers(place) == ModuleAnswers(directory[place])

\* the previous environment is in its place, or away in the quarantine directory
AtHome(e) == Target(e) = Original(e)
Away(e) == quarantine[e] = Original(e) /\ Original(e) # "foreign"

\* the phases in which nothing was moved yet, and after the previous one was moved
Untouched == {"check", "sync", "stage", "retire"}
Moving == {"promote", "putBack", "confirm", "rollBack", "restore", "clean"}

Sound(e) ==
    /\ goal[e] \in PlacesOf(e)
    /\ phase[e] \in Untouched => AtHome(e)
    /\ phase[e] \in {"sync", "stage", "retire"} => Original(e) # "foreign"
    /\ phase[e] \in Moving => (hadTarget[e] <=> Original(e) # "none")
    /\ phase[e] \in {"promote", "putBack", "restore"} => Away(e) /\ Target(e) = "none"
    /\ phase[e] \in {"confirm", "rollBack"} => Away(e)
    /\ phase[e] = "restore" => hadTarget[e]
    /\ phase[e] = "clean" => AtHome(e) /\ Original(e) # "foreign"
    /\ phase[e] \in {"idle", "done"} => AtHome(e) \/ Away(e) \/ confirmed[e]
    /\ Original(e) = "foreign" => AtHome(e)
    /\ phase[e] = "done" =>
          /\ result[e] = "failed" /\ ~disturbed[e] => AtHome(e)
          /\ result[e] = "restored" => AtHome(e)
          /\ result[e] = "ready" => Works(goal[e])

\* nothing was answered while a thread works, and what was said last still holds
AnswersHold ==
    /\ answer = "ready" => \A e \in Environments : Works(goal[e])
    /\ report = "ready" => \A e \in RequiredEnvironments : Answers(PreflightPlace(e))
    /\ \A e \in Environments : phase[e] # "idle" => answer = "none" /\ report = "none"

IInv == TypeOK /\ AnswersHold /\ \A e \in Environments : Sound(e)

-----------------------------------------------------------------------------
LEMMA PlacesAreApart ==
    \A e, f \in Environments : e # f => PlacesOf(e) \intersect PlacesOf(f) = {}
BY DEF Environments, PlacesOf

LEMMA InitIsSound == Init => IInv
<1> SUFFICES ASSUME Init PROVE IInv
    OBVIOUS
<1>1. TypeOK
    BY RuntimeAssumption
    DEF Init, TypeOK, All, Environments, Places, Contents, Initials, Previous, Made, Phases
<1>2. AnswersHold
    BY DEF Init, AnswersHold, All
<1>3. ASSUME NEW e \in Environments PROVE Sound(e)
    BY DEF Init, Sound, All, PlacesOf, AtHome, Target, Original, Untouched, Moving, Environments
<1> QED BY <1>1, <1>2, <1>3 DEF IInv

-----------------------------------------------------------------------------
(* A step of a thread.                                                     *)

LEMMA StagingKeepsType ==
    ASSUME TypeOK, NEW e \in Environments, StagingIsRemoved(e)
    PROVE  staging' \in [Environments -> Contents]
BY DEF TypeOK, StagingIsRemoved, SetStaging, Contents, Made

LEMMA TypeStep ==
    ASSUME TypeOK, NEW e \in Environments, Advance(e), UNCHANGED commandVars
    PROVE  TypeOK'
<1> USE DEF TypeOK, Step, End, SetTarget, SetStaging, SetQuarantine, Target, Phases, placeVars,
            commandVars
<1>1. CASE FindsReady(e) BY <1>1 DEF FindsReady
<1>2. CASE RefusesForeign(e) BY <1>2 DEF RefusesForeign
<1>3. CASE CheckFails(e) BY <1>3 DEF CheckFails
<1>4. CASE GoesToSync(e) BY <1>4 DEF GoesToSync
<1>5. CASE Sync(e) BY <1>5 DEF Sync, Contents, Made
<1>6. CASE SyncFails(e) BY <1>6, StagingKeepsType DEF SyncFails
<1>7. CASE StagePasses(e) BY <1>7 DEF StagePasses, Marked, Contents, Made
<1>8. CASE StageFails(e) BY <1>8, StagingKeepsType DEF StageFails
<1>9. CASE Retire(e) BY <1>9 DEF Retire, Contents
<1>10. CASE RetireFails(e) BY <1>10 DEF RetireFails
<1>11. CASE Promote(e) BY <1>11 DEF Promote, Contents
<1>12. CASE PromoteFails(e) BY <1>12 DEF PromoteFails
<1>13. CASE PutBack(e)
    <2>1. staging' \in [Environments -> Contents]
        BY <1>13, StagingKeepsType DEF PutBack
    <2>2. /\ directory' \in [Places -> Contents]
          /\ quarantine' \in [Environments -> Contents]
        BY <1>13 DEF PutBack, Contents
    <2>3. disturbed' \in [Environments -> BOOLEAN]
        BY <1>13 DEF PutBack
    <2> QED BY <1>13, <2>1, <2>2, <2>3 DEF PutBack
<1>14. CASE Confirm(e) BY <1>14 DEF Confirm, Contents, Made
<1>15. CASE ConfirmFails(e) BY <1>15 DEF ConfirmFails
<1>16. CASE RollBack(e) BY <1>16 DEF RollBack, Contents
<1>17. CASE RollBackFails(e) BY <1>17 DEF RollBackFails
<1>18. CASE Restore(e) BY <1>18 DEF Restore, Contents
<1>19. CASE RestoreFails(e) BY <1>19 DEF RestoreFails, Contents
<1>20. CASE Clean(e) BY <1>20 DEF Clean, Contents, Made
<1>21. CASE Panic(e) BY <1>21 DEF Panic
<1> QED
    BY <1>1, <1>2, <1>3, <1>4, <1>5, <1>6, <1>7, <1>8, <1>9, <1>10, <1>11, <1>12, <1>13, <1>14,
       <1>15, <1>16, <1>17, <1>18, <1>19, <1>20, <1>21
    DEF Advance

\* what the thread of e leaves of another environment
Unmoved(f) ==
    /\ phase'[f] = phase[f] /\ directory'[goal[f]] = directory[goal[f]]
    /\ quarantine'[f] = quarantine[f] /\ hadTarget'[f] = hadTarget[f]
    /\ result'[f] = result[f] /\ confirmed'[f] = confirmed[f] /\ disturbed'[f] = disturbed[f]

LEMMA OthersAreUnmoved ==
    ASSUME TypeOK, NEW e \in Environments, NEW f \in Environments, e # f, goal[e] # goal[f],
           Advance(e)
    PROVE  Unmoved(f)
<1>1. goal[e] \in Places /\ goal[f] \in Places
    BY DEF TypeOK
<1> USE <1>1 DEF TypeOK, Unmoved, Step, End, SetTarget, SetStaging, SetQuarantine, placeVars
<1>2. CASE FindsReady(e) \/ RefusesForeign(e) \/ CheckFails(e) \/ GoesToSync(e)
    BY <1>2 DEF FindsReady, RefusesForeign, CheckFails, GoesToSync
<1>3. CASE Sync(e) \/ SyncFails(e) \/ StagePasses(e) \/ StageFails(e)
    BY <1>3 DEF Sync, SyncFails, StagePasses, StageFails
<1>4. CASE Retire(e) \/ RetireFails(e) \/ Promote(e) \/ PromoteFails(e)
    BY <1>4 DEF Retire, RetireFails, Promote, PromoteFails
<1>5. CASE PutBack(e)
    BY <1>5 DEF PutBack
<1>6. CASE Confirm(e) \/ ConfirmFails(e)
    BY <1>6 DEF Confirm, ConfirmFails
<1>7. CASE RollBack(e) \/ RollBackFails(e)
    BY <1>7 DEF RollBack, RollBackFails
<1>8. CASE Restore(e) \/ RestoreFails(e)
    BY <1>8 DEF Restore, RestoreFails
<1>9. CASE Clean(e) \/ Panic(e)
    BY <1>9 DEF Clean, Panic
<1> QED BY <1>2, <1>3, <1>4, <1>5, <1>6, <1>7, <1>8, <1>9 DEF Advance

LEMMA UnmovedIsSound ==
    ASSUME NEW f \in Environments, Sound(f), Unmoved(f), UNCHANGED commandVars
    PROVE  Sound(f)'
BY DEF Sound, Unmoved, commandVars, AtHome, Away, Target, Original, Works,
       Verdicts, ProbeOf, ModuleAnswers, HasStructure

LEMMA OwnStepIsSound ==
    ASSUME TypeOK, NEW e \in Environments, Sound(e), Advance(e), UNCHANGED commandVars
    PROVE  Sound(e)'
<1>1. goal[e] \in Places
    BY DEF TypeOK
<1> USE <1>1 DEF TypeOK, Sound, AtHome, Away, Target, Original, Untouched, Moving, Step, End,
                 SetTarget, SetStaging, SetQuarantine, placeVars, commandVars
<1>2. CASE FindsReady(e) BY <1>2 DEF FindsReady, Works,
                                     Verdicts, ProbeOf, ModuleAnswers, HasStructure
<1>3. CASE RefusesForeign(e) BY <1>3 DEF RefusesForeign
<1>4. CASE CheckFails(e) BY <1>4 DEF CheckFails
<1>5. CASE GoesToSync(e) BY <1>5 DEF GoesToSync, IsOwned
<1>6. CASE Sync(e) BY <1>6 DEF Sync
<1>7. CASE SyncFails(e) BY <1>7 DEF SyncFails
<1>8. CASE StagePasses(e) BY <1>8 DEF StagePasses
<1>9. CASE StageFails(e) BY <1>9 DEF StageFails
<1>10. CASE Retire(e) BY <1>10 DEF Retire
<1>11. CASE RetireFails(e) BY <1>11 DEF RetireFails
<1>12. CASE Promote(e) BY <1>12 DEF Promote
<1>13. CASE PromoteFails(e) BY <1>13 DEF PromoteFails
<1>14. CASE PutBack(e) BY <1>14 DEF PutBack
<1>15. CASE Confirm(e) BY <1>15 DEF Confirm, Works, Verdicts, ProbeOf, ModuleAnswers, HasStructure
<1>16. CASE ConfirmFails(e) BY <1>16 DEF ConfirmFails
<1>17. CASE RollBack(e) BY <1>17 DEF RollBack
<1>18. CASE RollBackFails(e) BY <1>18 DEF RollBackFails
<1>19. CASE Restore(e) BY <1>19 DEF Restore
<1>20. CASE RestoreFails(e) BY <1>20 DEF RestoreFails
<1>21. CASE Clean(e) BY <1>21 DEF Clean
<1>22. CASE Panic(e) BY <1>22 DEF Panic
<1> QED
    BY <1>2, <1>3, <1>4, <1>5, <1>6, <1>7, <1>8, <1>9, <1>10, <1>11, <1>12, <1>13, <1>14, <1>15,
       <1>16, <1>17, <1>18, <1>19, <1>20, <1>21, <1>22
    DEF Advance

\* a thread that has work left has not answered, and no other answer stands
LEMMA ThreadsWorkUnanswered ==
    ASSUME NEW e \in Environments, Advance(e)
    PROVE  phase[e] # "idle"
BY DEF Advance, FindsReady, RefusesForeign, CheckFails, GoesToSync, Sync, SyncFails, StagePasses,
       StageFails, Retire, RetireFails, Promote, PromoteFails, PutBack, Confirm, ConfirmFails,
       RollBack, RollBackFails, Restore, RestoreFails, Clean, Panic, Step, End

LEMMA ThreadStep ==
    ASSUME IInv, NEW e \in Environments, Thread(e)
    PROVE  IInv'
<1>1. TypeOK /\ AnswersHold /\ Advance(e) /\ UNCHANGED commandVars
    BY DEF IInv, Thread
<1>2. TypeOK'
    BY <1>1, TypeStep
<1>3. ASSUME NEW f \in Environments PROVE Sound(f)'
    <2>1. Sound(e) /\ Sound(f)
        BY DEF IInv
    <2>2. CASE f = e
        BY <1>1, <2>1, <2>2, OwnStepIsSound
    <2>3. CASE f # e
        <3>1. goal[e] # goal[f]
            BY <2>1, <2>3, PlacesAreApart DEF Sound
        <3>2. Unmoved(f)
            BY <1>1, <2>3, <3>1, OthersAreUnmoved
        <3> QED BY <1>1, <2>1, <3>2, UnmovedIsSound
    <2> QED BY <2>2, <2>3
<1>4. answer = "none" /\ report = "none"
    BY <1>1, ThreadsWorkUnanswered DEF AnswersHold
<1>5. AnswersHold'
    BY <1>1, <1>4 DEF AnswersHold, commandVars
<1> QED BY <1>2, <1>3, <1>5 DEF IInv

-----------------------------------------------------------------------------
(* The steps of the commands.                                              *)

LEMMA PrepareStep == IInv /\ Prepare => IInv'
<1> SUFFICES ASSUME IInv, Prepare PROVE IInv'
    OBVIOUS
<1> DEFINE place == [e \in Environments |->
                        IF e = "valhalla" /\ ComponentIsReady THEN "component" ELSE e]
<1>1. goal' = place
    BY DEF Prepare
<1>2. PICK allowed \in BOOLEAN :
          phase' = [e \in Environments |->
                       IF e = "valhalla" /\ ~allowed THEN "done" ELSE "check"]
    BY DEF Prepare, Verdicts, ProbeOf
<1>3. TypeOK
    BY DEF IInv
<1>4. TypeOK'
    <2>1. goal' \in [Environments -> Places]
        BY <1>1 DEF Places, Environments
    <2>2. phase' \in [Environments -> Phases]
        BY <1>2 DEF Phases
    <2>3. preparations' \in 0..MaxPreparations
        BY <1>3, RuntimeAssumption DEF Prepare, TypeOK
    <2>4. /\ hadTarget' \in [Environments -> BOOLEAN]
          /\ confirmed' \in [Environments -> BOOLEAN]
          /\ disturbed' \in [Environments -> BOOLEAN]
        BY DEF Prepare, All
    <2>5. /\ staging' \in [Environments -> Contents] /\ quarantine' \in [Environments -> Contents]
          /\ result' \in [Environments -> {"ready", "failed", "restored"}]
        BY DEF Prepare, All, Contents
    <2>6. /\ directory' \in [Places -> Contents] /\ before' \in [Places -> Contents]
          /\ answer' = "none" /\ report' = "none"
        BY <1>3 DEF Prepare, TypeOK
    <2> QED BY <2>1, <2>2, <2>3, <2>4, <2>5, <2>6 DEF TypeOK
<1>5. AnswersHold'
    BY DEF Prepare, AnswersHold
<1>6. ASSUME NEW e \in Environments PROVE Sound(e)'
    <2>1. goal'[e] \in PlacesOf(e)
        BY <1>1 DEF PlacesOf, Environments
    <2>2. phase'[e] \in {"check", "done"}
        BY <1>2
    <2>3. AtHome(e)'
        BY DEF Prepare, AtHome, Target, Original
    <2>4. result'[e] = "failed"
        BY DEF Prepare, All
    <2> QED BY <2>1, <2>2, <2>3, <2>4 DEF Sound, Untouched, Moving
<1> QED BY <1>4, <1>5, <1>6 DEF IInv

\* "ready" of a preparation is "ready" of every environment
LEMMA JoinStep == IInv /\ Join => IInv'
<1> SUFFICES ASSUME IInv, Join PROVE IInv'
    OBVIOUS
<1>1. TypeOK'
    BY DEF IInv, TypeOK, Join, All, Phases, Answer, placeVars
<1>2. ASSUME NEW e \in Environments PROVE Sound(e)'
    <2>1. Sound(e) /\ phase[e] = "done" /\ phase'[e] = "idle"
        BY DEF IInv, Join, All
    <2> QED BY <2>1 DEF Sound, Join, placeVars, AtHome, Away, Target, Original, Untouched, Moving
<1>3. AnswersHold'
    <2>1. ASSUME answer' = "ready", NEW e \in Environments PROVE Works(goal[e])
        <3>1. result[e] = "ready" /\ phase[e] = "done"
            BY <2>1 DEF Join, Answer, All
        <3> QED BY <3>1 DEF IInv, Sound
    <2>2. report = "none"
        BY DEF IInv, AnswersHold, Join, All, Environments
    <2> QED BY <2>1, <2>2 DEF AnswersHold, Join, All, placeVars, Works,
                              Verdicts, ProbeOf, ModuleAnswers, HasStructure
<1> QED BY <1>1, <1>2, <1>3 DEF IInv

\* what was said stands while the places stand
LEMMA AnswersStand ==
    ASSUME AnswersHold, UNCHANGED <<directory, goal, report>>, answer' \in {answer, "none"},
           \A e \in Environments : phase[e] = "idle" => phase'[e] = "idle"
    PROVE  AnswersHold'
<1>1. \A place : (Works(place)' <=> Works(place)) /\ (Answers(place)' <=> Answers(place))
    BY DEF Works, Answers, Verdicts, ProbeOf, ModuleAnswers, HasStructure
<1>2. \A e \in RequiredEnvironments : PreflightPlace(e)' = PreflightPlace(e)
    BY DEF PreflightPlace, ComponentIsReady
<1>3. report' = "ready" => \A e \in RequiredEnvironments : Answers(PreflightPlace(e))'
    <2> SUFFICES ASSUME report' = "ready", NEW e \in RequiredEnvironments
                 PROVE  Answers(PreflightPlace(e))'
        OBVIOUS
    <2>1. Answers(PreflightPlace(e))
        BY DEF AnswersHold
    <2> QED BY <2>1, <1>2 DEF Answers, ModuleAnswers, HasStructure
<1>4. answer' = "ready" => \A e \in Environments : Works(goal[e])'
    BY <1>1 DEF AnswersHold, Works, Verdicts, ProbeOf, ModuleAnswers, HasStructure
<1>5. \A e \in Environments : phase'[e] # "idle" => answer' = "none" /\ report' = "none"
    BY DEF AnswersHold
<1> QED BY <1>3, <1>4, <1>5 DEF AnswersHold

LEMMA PreflightStep == IInv /\ Preflight => IInv'
<1> SUFFICES ASSUME IInv, Preflight PROVE IInv'
    OBVIOUS
<1>1. TypeOK'
    BY DEF IInv, TypeOK, Preflight, placeVars, threadVars
<1>2. ASSUME NEW e \in Environments PROVE Sound(e)'
    <2>1. Sound(e)
        BY DEF IInv
    <2> QED BY <2>1 DEF Sound, Preflight, placeVars, threadVars, AtHome, Away, Target, Original,
                        Works, Verdicts, ProbeOf, ModuleAnswers, HasStructure
<1>3. AnswersHold'
    <2>1. ASSUME report' = "ready", NEW e \in RequiredEnvironments PROVE Answers(PreflightPlace(e))
        <3>1. TRUE \in PreflightVerdicts(directory[PreflightPlace(e)])
            BY <2>1 DEF Preflight
        <3> QED BY <3>1 DEF PreflightVerdicts, ProbeOf, Answers
    <2>2. (\A e \in RequiredEnvironments : Answers(PreflightPlace(e)))'
              <=> \A e \in RequiredEnvironments : Answers(PreflightPlace(e))
        BY DEF Preflight, placeVars, Answers, PreflightPlace, ComponentIsReady
    <2>3. AnswersHold /\ phase' = phase /\ answer' = answer /\ phase = All("idle")
        BY DEF IInv, Preflight, threadVars
    <2>4. (\A e \in Environments : Works(goal[e]))' <=> \A e \in Environments : Works(goal[e])
        BY DEF Preflight, placeVars, Works, Verdicts, ProbeOf, ModuleAnswers, HasStructure
    <2>5. \A e \in Environments : phase[e] = "idle"
        BY <2>3 DEF All
    <2> QED BY <2>1, <2>2, <2>3, <2>4, <2>5 DEF AnswersHold
<1> QED BY <1>1, <1>2, <1>3 DEF IInv

LEMMA CrashStep == IInv /\ Crash => IInv'
<1> SUFFICES ASSUME IInv, Crash PROVE IInv'
    OBVIOUS
<1>1. TypeOK'
    <2>1. disturbed' \in [Environments -> BOOLEAN]
        BY DEF Crash, All
    <2>2. phase' \in [Environments -> Phases]
        BY DEF Crash, All, Phases
    <2> QED BY <2>1, <2>2 DEF IInv, TypeOK, Crash, placeVars
<1>2. ASSUME NEW e \in Environments PROVE Sound(e)'
    <2>1. Sound(e) /\ phase'[e] = "idle" /\ phase[e] \in Phases
        BY DEF IInv, TypeOK, Crash, All
    <2>2. AtHome(e) \/ Away(e) \/ confirmed[e]
        BY <2>1 DEF Sound, Phases, Untouched, Moving
    <2> QED BY <2>1, <2>2 DEF Sound, Crash, placeVars, AtHome, Away, Target, Original, Untouched,
                             Moving
<1>3. AnswersHold'
    BY AnswersStand DEF IInv, Crash, placeVars, All
<1> QED BY <1>1, <1>2, <1>3 DEF IInv

LEMMA StutterStep == IInv /\ UNCHANGED vars => IInv'
<1> SUFFICES ASSUME IInv, UNCHANGED vars PROVE IInv'
    OBVIOUS
<1> USE DEF vars, placeVars, threadVars, commandVars
<1>1. TypeOK'
    BY DEF IInv, TypeOK
<1>2. ASSUME NEW e \in Environments PROVE Sound(e)'
    <2>1. Sound(e)
        BY DEF IInv
    <2> QED BY <2>1 DEF Sound, AtHome, Away, Target, Original, Works,
                        Verdicts, ProbeOf, ModuleAnswers, HasStructure
<1>3. AnswersHold'
    BY AnswersStand DEF IInv
<1> QED BY <1>1, <1>2, <1>3 DEF IInv

LEMMA StepIsSound == IInv /\ [Next]_vars => IInv'
BY PrepareStep, JoinStep, PreflightStep, CrashStep, ThreadStep, StutterStep DEF Next

LEMMA AlwaysSound == Spec => []IInv
BY InitIsSound, StepIsSound, PTL DEF Spec

-----------------------------------------------------------------------------
(* The variables keep their types (managed_runtime.rs, the phases of       *)
(* prepare_one).                                                           *)
THEOREM TypeCorrect == Spec => []TypeOK
<1>1. IInv => TypeOK
    BY DEF IInv
<1> QED BY <1>1, AlwaysSound, PTL

(* The environment that stood in a place is never deleted before another   *)
(* one has answered there, and what RoadWatcher did not make is never      *)
(* moved.                                                                  *)
THEOREM PreviousIsNeverLost == Spec => []PreviousSurvives
<1>1. IInv => PreviousSurvives
    <2> SUFFICES ASSUME IInv, NEW e \in Environments
                 PROVE  /\ before[goal[e]] \in {Target(e), quarantine[e]} \union {"none"}
                                \/ confirmed[e]
                        /\ before[goal[e]] = "foreign" => Target(e) = "foreign"
        BY DEF PreviousSurvives
    <2>1. Sound(e) /\ phase[e] \in Phases
        BY DEF IInv, TypeOK
    <2>2. AtHome(e) \/ Away(e) \/ confirmed[e]
        BY <2>1 DEF Sound, Phases, Untouched, Moving
    <2> QED BY <2>1, <2>2 DEF Sound, AtHome, Away, Target, Original
<1> QED BY <1>1, AlwaysSound, PTL

(* A failed preparation leaves every place as it found it, unless a rename *)
(* of the way back failed; "restored" is only said when it is true.        *)
THEOREM FailuresKeepPrevious == Spec => []FailureKeepsPrevious
<1>1. IInv => FailureKeepsPrevious
    BY DEF IInv, Sound, FailureKeepsPrevious, AtHome, Original
<1> QED BY <1>1, AlwaysSound, PTL

(* "ready" is only answered of environments that stand where they were     *)
(* probed: by a preparation with the expected module and Python, by a      *)
(* preflight with the expected module (prepare_runtime_environments,       *)
(* run_runtime_preflight).                                                 *)
THEOREM ReadyWorks == Spec => []ReadyWorksInPlace
<1>1. IInv => ReadyWorksInPlace
    BY DEF IInv, AnswersHold, ReadyWorksInPlace, Works, Answers
<1> QED BY <1>1, AlwaysSound, PTL
=============================================================================
