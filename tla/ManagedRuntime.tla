--------------------------- MODULE ManagedRuntime ---------------------------
(***************************************************************************)
(* The Python environments of the sidecars: prepare_runtime_environments   *)
(* (src-tauri/src/managed_runtime.rs), run_runtime_preflight               *)
(* (runtime_preflight.rs) and the commands that call them (lib.rs).        *)
(*                                                                         *)
(* One command prepares every environment in a thread of its own and joins *)
(* them: an environment that does not answer its probe is built by uv in a *)
(* staging directory, probed there, renamed into place and probed again; a *)
(* failure renames the previous one back.  The names of the staging and    *)
(* quarantine directories are new in every preparation; what an earlier    *)
(* one left under its names nobody looks for.                              *)
(*                                                                         *)
(* Commands run one at a time on the main thread.  No dependency job moves *)
(* the managed Valhalla component meanwhile.                               *)
(*                                                                         *)
(* Faults: "probe" a probe of a good environment fails (its timeout),      *)
(* "sync" uv fails, "pinned" uv builds an environment that works only      *)
(* where it was built, "disk" a file call fails, "panic" the start of a    *)
(* probe or of uv panics, "crash" the application ends.                    *)
(***************************************************************************)
EXTENDS Naturals

CONSTANTS Directories,     \* what may stand in the places before the first preparation
          PresentSources,  \* the packaged sidecar sources that pass source_status
          WorkingTools,    \* the tools whose probe succeeds
          Faults,
          MaxPreparations

Environments == {"gpstitch", "cv", "valhalla"}

\* Where an environment may stand: its directory below sidecar-environments, and
\* for Valhalla the directory of the managed component.
Places == Environments \union {"component"}

(* What a directory holds: nothing, something without the expected marker, *)
(* the marked environment of an earlier preparation ("broken" when files   *)
(* are missing, "otherPython" when it was made for another version of      *)
(* Python, which no marker names), the managed component, or what uv makes *)
(* now.                                                                    *)
Previous == {"broken", "otherPython", "usable", "component"}
Made == {"partial", "unmarked", "unmarkedPinned", "new", "pinned"}
Contents == {"none", "foreign"} \union Previous \union Made
Initials == {"none", "foreign"} \union Previous

ASSUME RuntimeAssumption ==
    /\ Directories \subseteq [Places -> Initials]
    /\ \A d \in Directories : \A e \in Environments : d[e] # "component"
    /\ MaxPreparations \in Nat

VARIABLES
    directory,    \* what each place holds
    staging,      \* the staging directory of the current preparation
    quarantine,   \* its quarantine directory
    goal,         \* the place the environment is prepared in
    phase,        \* where its thread stands
    hadTarget,    \* local of prepare_one
    result,       \* "ready", "failed", or "restored": failed, and the answer says
                  \* that the previous environment is back
    answer,       \* status of the last preparation, "none" while it runs
    report,       \* status of the last preflight since
    preparations, \* preparations so far
    before,       \* history: the places when the preparation began
    confirmed,    \* history: probed in its place after the promotion
    disturbed     \* history: a rename of the way back failed, or the thread was cut off after
                  \* the promotion

placeVars == <<directory, staging, quarantine>>
threadVars == <<phase, hadTarget, result, confirmed, disturbed>>
commandVars == <<goal, answer, report, preparations, before>>
vars == <<placeVars, threadVars, commandVars>>

Phases == {"idle", "check", "sync", "stage", "retire", "promote", "putBack",
           "confirm", "rollBack", "restore", "clean", "done"}

TypeOK ==
    /\ directory \in [Places -> Contents]
    /\ staging \in [Environments -> Contents]
    /\ quarantine \in [Environments -> Contents]
    /\ goal \in [Environments -> Places]
    /\ phase \in [Environments -> Phases]
    /\ hadTarget \in [Environments -> BOOLEAN]
    /\ result \in [Environments -> {"ready", "failed", "restored"}]
    /\ answer \in {"none", "ready", "incomplete"}
    /\ report \in {"none", "ready", "incomplete"}
    /\ preparations \in 0..MaxPreparations
    /\ before \in [Places -> Contents]
    /\ confirmed \in [Environments -> BOOLEAN]
    /\ disturbed \in [Environments -> BOOLEAN]

All(value) == [e \in Environments |-> value]

\* Every environment has a place of its own; only Valhalla has two.
PlacesOf(e) == IF e = "valhalla" THEN {"valhalla", "component"} ELSE {e}

Init ==
    /\ directory \in Directories
    /\ staging = All("none") /\ quarantine = All("none")
    /\ goal = [e \in Environments |-> e]
    /\ phase = All("idle") /\ hadTarget = All(FALSE) /\ result = All("failed")
    /\ answer = "none" /\ report = "none" /\ preparations = 0
    /\ before = directory
    /\ confirmed = All(FALSE) /\ disturbed = All(FALSE)

-----------------------------------------------------------------------------
\* environment_structure_ready
HasStructure(content) == content \in {"otherPython", "usable", "component", "new", "pinned"}

\* its Python starts where the environment stands, and has the module of the marker
ModuleAnswers(content) == HasStructure(content) /\ content # "pinned"

\* the verdicts of a probe, which may also fail for an environment that is good
ProbeOf(good) == {good} \union (IF "probe" \in Faults THEN {FALSE} ELSE {})

\* probe_managed_environment, in place: both lines of the answer are compared, the
\* version of the module and that of the Python
Verdicts(content) == ProbeOf(ModuleAnswers(content) /\ content # "otherPython")

\* environment_tool_spec and probe_tool: the same code is run, and its first line compared
PreflightVerdicts(content) == ProbeOf(ModuleAnswers(content))

\* mutant: a directory is taken for ours because it is there
IsOwnedByName(content) == TRUE

\* the marker in the directory is the expected one
IsOwned(content) == content \notin {"none", "foreign", "partial", "unmarked", "unmarkedPinned"}

Step(e, from, to) ==
    /\ phase[e] = from
    /\ phase' = [phase EXCEPT ![e] = to]

End(e, from, verdict) ==
    /\ Step(e, from, "done")
    /\ result' = [result EXCEPT ![e] = verdict]

Target(e) == directory[goal[e]]
SetTarget(e, content) == directory' = [directory EXCEPT ![goal[e]] = content]
SetStaging(e, content) == staging' = [staging EXCEPT ![e] = content]
SetQuarantine(e, content) == quarantine' = [quarantine EXCEPT ![e] = content]

\* remove_owned_staging, whose result is ignored
StagingIsRemoved(e) ==
    \/ SetStaging(e, "none")
    \/ "disk" \in Faults /\ SetStaging(e, "partial")

-----------------------------------------------------------------------------
(* The commands.                                                           *)

\* is_ready of the dependency manager: the component's own marker is there
ComponentIsReady == directory["component"] = "component"

\* runtime_prepare: Valhalla may be synchronized only when it answers a probe now
Prepare ==
    /\ phase = All("idle") /\ preparations < MaxPreparations
    /\ LET place == [e \in Environments |->
                        IF e = "valhalla" /\ ComponentIsReady THEN "component" ELSE e]
       IN  \E allowed \in Verdicts(directory[place["valhalla"]]) :
              /\ goal' = place
              /\ phase' = [e \in Environments |->
                              IF e = "valhalla" /\ ~allowed THEN "done" ELSE "check"]
    /\ preparations' = preparations + 1
    /\ staging' = All("none") /\ quarantine' = All("none")
    /\ hadTarget' = All(FALSE) /\ result' = All("failed")
    /\ confirmed' = All(FALSE) /\ disturbed' = All(FALSE)
    /\ before' = directory
    /\ answer' = "none" /\ report' = "none"
    /\ UNCHANGED directory

Answer == IF \A e \in Environments : result[e] = "ready" THEN "ready" ELSE "incomplete"

\* every thread is joined
Join ==
    /\ phase = All("done")
    /\ phase' = All("idle")
    /\ answer' = Answer
    /\ UNCHANGED <<placeVars, hadTarget, result, confirmed, disturbed, goal, report,
                   preparations, before>>

RequiredSources == {"gpstitch-source", "cv-source", "valhalla-source"}
RequiredTools == {"ffmpeg", "ffprobe"}

RequiredEnvironments == {"gpstitch", "valhalla"}

PreflightPlace(e) == IF e = "valhalla" /\ ComponentIsReady THEN "component" ELSE e

\* run_runtime_preflight: only what is required decides; uv, Python, GDAL and the
\* environment of the scanner are shown, but the panic of any probe counts as required
Preflight ==
    /\ phase = All("idle")
    /\ \E verdict \in [RequiredEnvironments -> BOOLEAN],
          panicked \in (IF "panic" \in Faults THEN BOOLEAN ELSE {FALSE}) :
          /\ \A e \in RequiredEnvironments :
                verdict[e] \in PreflightVerdicts(directory[PreflightPlace(e)])
          /\ report' = IF /\ \A e \in RequiredEnvironments : verdict[e]
                          /\ ~panicked
                          /\ RequiredSources \subseteq PresentSources
                          /\ RequiredTools \subseteq WorkingTools
                       THEN "ready" ELSE "incomplete"
    /\ UNCHANGED <<placeVars, threadVars, goal, answer, preparations, before>>

-----------------------------------------------------------------------------
(* prepare_one: the thread of an environment.                              *)

FindsReady(e) ==
    /\ End(e, "check", "ready")
    /\ HasStructure(Target(e)) /\ TRUE \in Verdicts(Target(e))
    /\ UNCHANGED <<placeVars, hadTarget, confirmed, disturbed>>

RefusesForeign(e) ==
    /\ End(e, "check", "failed")
    /\ Target(e) # "none" /\ ~IsOwned(Target(e))
    /\ UNCHANGED <<placeVars, hadTarget, confirmed, disturbed>>

\* a root cannot be created
CheckFails(e) ==
    /\ "disk" \in Faults
    /\ End(e, "check", "failed")
    /\ UNCHANGED <<placeVars, hadTarget, confirmed, disturbed>>

GoesToSync(e) ==
    /\ Step(e, "check", "sync")
    /\ FALSE \in Verdicts(Target(e))
    /\ Target(e) = "none" \/ IsOwned(Target(e))
    /\ UNCHANGED <<placeVars, hadTarget, result, confirmed, disturbed>>

\* uv sync: a directory, or one without the expected files
Sync(e) ==
    /\ Step(e, "sync", "stage")
    /\ \/ SetStaging(e, "unmarked")
       \/ "pinned" \in Faults /\ SetStaging(e, "unmarkedPinned")
       \/ "sync" \in Faults /\ SetStaging(e, "partial")
    /\ UNCHANGED <<directory, quarantine, hadTarget, result, confirmed, disturbed>>

SyncFails(e) ==
    /\ "sync" \in Faults
    /\ End(e, "sync", "failed")
    /\ StagingIsRemoved(e)
    /\ UNCHANGED <<directory, quarantine, hadTarget, confirmed, disturbed>>

Marked(content) == IF content = "unmarked" THEN "new" ELSE "pinned"

\* the marker is written, the structure and the modules are checked in staging
StagePasses(e) ==
    /\ Step(e, "stage", "retire")
    /\ staging[e] # "partial"
    /\ SetStaging(e, Marked(staging[e]))
    /\ UNCHANGED <<directory, quarantine, hadTarget, result, confirmed, disturbed>>

StageFails(e) ==
    /\ End(e, "stage", "failed")
    /\ \/ staging[e] = "partial"
       \/ Faults \intersect {"disk", "probe"} # {}
    /\ StagingIsRemoved(e)
    /\ UNCHANGED <<directory, quarantine, hadTarget, confirmed, disturbed>>

\* the previous directory leaves its place
Retire(e) ==
    /\ Step(e, "retire", "promote")
    /\ hadTarget' = [hadTarget EXCEPT ![e] = Target(e) # "none"]
    /\ SetQuarantine(e, Target(e)) /\ SetTarget(e, "none")
    /\ UNCHANGED <<staging, result, confirmed, disturbed>>

\* `?`: the staging directory stays behind
RetireFails(e) ==
    /\ "disk" \in Faults /\ Target(e) # "none"
    /\ End(e, "retire", "failed")
    /\ hadTarget' = [hadTarget EXCEPT ![e] = TRUE]
    /\ UNCHANGED <<placeVars, confirmed, disturbed>>

Promote(e) ==
    /\ Step(e, "promote", "confirm")
    /\ SetTarget(e, staging[e]) /\ SetStaging(e, "none")
    /\ UNCHANGED <<quarantine, hadTarget, result, confirmed, disturbed>>

PromoteFails(e) ==
    /\ "disk" \in Faults
    /\ Step(e, "promote", "putBack")
    /\ UNCHANGED <<placeVars, hadTarget, result, confirmed, disturbed>>

\* mutant: nothing is put back
PutNothingBack(e) ==
    /\ End(e, "putBack", "failed")
    /\ StagingIsRemoved(e)
    /\ UNCHANGED <<directory, quarantine, hadTarget, confirmed, disturbed>>

PutBack(e) ==
    /\ End(e, "putBack", "failed")
    /\ StagingIsRemoved(e)
    /\ \/ /\ hadTarget[e] /\ Target(e) = "none"
          /\ SetTarget(e, quarantine[e]) /\ SetQuarantine(e, "none")
          /\ UNCHANGED disturbed
       \/ /\ hadTarget[e] /\ Target(e) = "none" /\ "disk" \in Faults
          /\ disturbed' = [disturbed EXCEPT ![e] = TRUE]
          /\ UNCHANGED <<directory, quarantine>>
       \/ /\ ~hadTarget[e]
          /\ UNCHANGED <<directory, quarantine, disturbed>>
    /\ UNCHANGED <<hadTarget, confirmed>>

\* mutant: what passed in staging is not probed again
ConfirmUnprobed(e) ==
    /\ End(e, "confirm", "ready")
    /\ confirmed' = [confirmed EXCEPT ![e] = TRUE]
    /\ SetQuarantine(e, "none")
    /\ UNCHANGED <<directory, staging, hadTarget, disturbed>>

\* the probe in place; then the previous one is removed, whatever comes of it
Confirm(e) ==
    /\ End(e, "confirm", "ready")
    /\ TRUE \in Verdicts(Target(e))
    /\ confirmed' = [confirmed EXCEPT ![e] = TRUE]
    /\ \/ SetQuarantine(e, "none")
       \/ "disk" \in Faults /\ hadTarget[e] /\ SetQuarantine(e, "partial")
    /\ UNCHANGED <<directory, staging, hadTarget, disturbed>>

ConfirmFails(e) ==
    /\ Step(e, "confirm", "rollBack")
    /\ FALSE \in Verdicts(Target(e))
    /\ UNCHANGED <<placeVars, hadTarget, result, confirmed, disturbed>>

\* rollback_failed_promotion: the failed environment leaves the place
RollBack(e) ==
    /\ Step(e, "rollBack", IF hadTarget[e] THEN "restore" ELSE "clean")
    /\ SetStaging(e, Target(e)) /\ SetTarget(e, "none")
    /\ UNCHANGED <<quarantine, hadTarget, result, confirmed, disturbed>>

RollBackFails(e) ==
    /\ "disk" \in Faults
    /\ End(e, "rollBack", "failed")
    /\ disturbed' = [disturbed EXCEPT ![e] = TRUE]
    /\ UNCHANGED <<placeVars, hadTarget, confirmed>>

Restore(e) ==
    /\ Step(e, "restore", "clean")
    /\ SetTarget(e, quarantine[e]) /\ SetQuarantine(e, "none")
    /\ UNCHANGED <<staging, hadTarget, result, confirmed, disturbed>>

\* the failed environment returns to the place, when that rename succeeds
RestoreFails(e) ==
    /\ "disk" \in Faults
    /\ End(e, "restore", "failed")
    /\ disturbed' = [disturbed EXCEPT ![e] = TRUE]
    /\ \/ SetTarget(e, staging[e]) /\ SetStaging(e, "none")
       \/ UNCHANGED <<directory, staging>>
    /\ UNCHANGED <<quarantine, hadTarget, confirmed>>

\* the failed environment is removed; only then the answer speaks of a restoration
Clean(e) ==
    /\ \/ End(e, "clean", IF hadTarget[e] THEN "restored" ELSE "failed") /\ SetStaging(e, "none")
       \/ "disk" \in Faults /\ End(e, "clean", "failed") /\ SetStaging(e, "partial")
    /\ UNCHANGED <<directory, quarantine, hadTarget, confirmed, disturbed>>

\* join finds a panic: "failed", and the directories stay as they are
Panic(e) ==
    /\ "panic" \in Faults
    /\ phase[e] \in {"check", "sync", "stage", "confirm"}
    /\ End(e, phase[e], "failed")
    /\ disturbed' = [disturbed EXCEPT ![e] = phase[e] = "confirm"]
    /\ UNCHANGED <<placeVars, hadTarget, confirmed>>

-----------------------------------------------------------------------------
\* the application ends; nothing looks for what the preparation left
Crash ==
    /\ "crash" \in Faults
    /\ phase # All("idle")
    /\ phase' = All("idle")
    /\ disturbed' = All(TRUE)
    /\ answer' = "none"
    /\ UNCHANGED <<placeVars, hadTarget, result, confirmed, goal, report, preparations, before>>

Advance(e) ==
    \/ FindsReady(e) \/ RefusesForeign(e) \/ CheckFails(e) \/ GoesToSync(e)
    \/ Sync(e) \/ SyncFails(e) \/ StagePasses(e) \/ StageFails(e)
    \/ Retire(e) \/ RetireFails(e) \/ Promote(e) \/ PromoteFails(e) \/ PutBack(e)
    \/ Confirm(e) \/ ConfirmFails(e) \/ RollBack(e) \/ RollBackFails(e)
    \/ Restore(e) \/ RestoreFails(e) \/ Clean(e) \/ Panic(e)

Thread(e) == Advance(e) /\ UNCHANGED commandVars

Next ==
    \/ Prepare \/ Join \/ Preflight \/ Crash
    \/ \E e \in Environments : Thread(e)

Spec == Init /\ [][Next]_vars

-----------------------------------------------------------------------------
(* What was in the place of an environment when its preparation began is   *)
(* never deleted before another environment has answered its probe in that *)
(* place: it is there or in the quarantine directory, through every failed *)
(* rename, panic and crash.  What has no RoadWatcher marker stays where it *)
(* is.                                                                     *)
PreviousSurvives ==
    \A e \in Environments :
        /\ before[goal[e]] \in {Target(e), quarantine[e]} \union {"none"} \/ confirmed[e]
        /\ before[goal[e]] = "foreign" => Target(e) = "foreign"

(* An environment that could not be prepared leaves the place as it was,   *)
(* unless a rename of the way back failed or the thread was cut off; and   *)
(* whenever the answer says that the previous environment was restored, it *)
(* is.                                                                     *)
FailureKeepsPrevious ==
    \A e \in Environments :
        phase[e] = "done" =>
            /\ result[e] = "failed" /\ ~disturbed[e] => Target(e) = before[goal[e]]
            /\ result[e] = "restored" => Target(e) = before[goal[e]]

(* "ready" is only said of environments that answer where they stand, also *)
(* after promotions, rollbacks and panics between the probe and the        *)
(* answer: the preparation says it of all three, with the module and the   *)
(* Python that are expected, the preflight of the two required ones, with  *)
(* the module (prepare_one, run_runtime_preflight).                        *)
ReadyWorksInPlace ==
    /\ answer = "ready" => \A e \in Environments : TRUE \in Verdicts(directory[goal[e]])
    /\ report = "ready" => \A e \in RequiredEnvironments :
                               ModuleAnswers(directory[PreflightPlace(e)])

(* A preparation reuses the managed Valhalla component: when it has        *)
(* answered, the component it found is still the one in place              *)
(* (docs/project-handoff.md).                                              *)
ComponentIsReused ==
    answer # "none" /\ before["component"] = "component" => ComponentIsReady

(* A preflight says "ready" only of environments that pass the probe of    *)
(* the preparation (docs/project-handoff.md).                              *)
PreflightIsExact ==
    report = "ready" => \A e \in RequiredEnvironments :
                           TRUE \in Verdicts(directory[PreflightPlace(e)])
=============================================================================
