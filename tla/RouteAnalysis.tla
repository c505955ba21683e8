---------------------------- MODULE RouteAnalysis ----------------------------
(***************************************************************************)
(* Map matching of imported routes and projection of official features     *)
(* onto them: RouteMatcherManager and execute_route_match                  *)
(* (route_matcher.rs), GisProjectorManager and execute_gis_projection      *)
(* (gis_projector.rs), and the functions of project_store.rs they call.    *)
(*                                                                         *)
(* A route has one match job and a feature source one projection job, from *)
(* their import on, so a job is named by its route or source.  A manager   *)
(* has one slot: it refuses a start while its thread is at work.  Slots    *)
(* belong to an instance of the application; the rows are shared by the    *)
(* instances that have the project open.  A transaction is a step.         *)
(***************************************************************************)
EXTENDS Naturals, FiniteSets

CONSTANTS
    Routes,         \* route_assets ids
    Sources,        \* feature_sources ids
    Instances,      \* running copies of the application
    MatchRequests,  \* what a match may ask for: the preferred matcher, where Valhalla
                    \* is found, whether an OSRM endpoint is given
    None,
    Faults          \* subset of {"store", "corridor", "panic", "crash"}

ASSUME RouteAnalysisAssumption ==
    /\ Routes \intersect Sources = {}
    /\ None \notin Routes \union Sources \union MatchRequests
    /\ None \notin {"Valhalla", "OSRM"}
    /\ None \notin [route : Routes, points : {"Valhalla", "OSRM", None}]
    /\ MatchRequests \subseteq [preferred : {"Valhalla", "OSRM", "other"},
                                valhalla : {"absent", "endpoint", "managed"},
                                osrm : BOOLEAN]

VARIABLES
    \* the database
    status,     \* jobs.status, "absent" before the import
    asset,      \* route_assets.match_status or feature_sources.projection_status
    matcher,    \* route_assets.matcher_used: None until there are matched points
    bound,      \* route_id of a projection job and its source
    projected,  \* the rows of projected_features of a source: the route, and the matcher
                \* its points came from, None for raw points
    \* the instances
    slot,       \* active_job of a manager
    phase,      \* where the thread of a manager is
    request,    \* what was asked of it: a match request, or the route to project onto
    basis,      \* the matcher whose points it has: the one that answered it, or the one
                \* behind the points it read (None for raw points)
    verdict,    \* the status its error will be recorded with
    poisoned,   \* instances whose route execution_lock is poisoned
    \* history
    abandoned   \* jobs that some thread left as they were

rowVars == <<status, asset, matcher, bound, projected>>
threadVars == <<slot, phase, request, basis, verdict>>
vars == <<rowVars, threadVars, poisoned, abandoned>>

Jobs == Routes \union Sources
Managers == {"matcher", "projector"}
Threads == Instances \X Managers
ManagerOf(j) == IF j \in Routes THEN "matcher" ELSE "projector"

Ended == {"complete", "failed", "blocked"}
Statuses == {"absent", "queued", "running"} \union Ended
Matchers == {"Valhalla", "OSRM"}
AtWork == {"work", "publish"}
Phases == {"idle", "claim", "fail", "free"} \union AtWork

Init ==
    /\ status = [j \in Jobs |-> "absent"]
    /\ asset = [j \in Jobs |-> "absent"]
    /\ matcher = [r \in Routes |-> None]
    /\ bound = [s \in Sources |-> None]
    /\ projected = [s \in Sources |-> None]
    /\ slot = [t \in Threads |-> None]
    /\ phase = [t \in Threads |-> "idle"]
    /\ request = [t \in Threads |-> None]
    /\ basis = [t \in Threads |-> None]
    /\ verdict = [t \in Threads |-> None]
    /\ poisoned = {}
    /\ abandoned = {}

-----------------------------------------------------------------------------
(* Commands on the main thread of an instance.                             *)

\* import_route_at, import_feature_source_at: asset, points or features, and queued job
Import(j) ==
    /\ status[j] = "absent"
    /\ status' = [status EXCEPT ![j] = "queued"]
    /\ asset' = [asset EXCEPT ![j] = "queued"]
    /\ UNCHANGED <<matcher, bound, projected, threadVars, poisoned, abandoned>>

\* start of either manager: active_job.is_some() refuses it, the status of the job does not
Start(t, j, asked) ==
    /\ slot[t] = None
    /\ status[j] # "absent"
    /\ t[2] = ManagerOf(j)
    /\ slot' = [slot EXCEPT ![t] = j]
    /\ phase' = [phase EXCEPT ![t] = "claim"]
    /\ request' = [request EXCEPT ![t] = asked]
    /\ UNCHANGED <<rowVars, basis, verdict, poisoned, abandoned>>

-----------------------------------------------------------------------------
(* The thread of a manager.                                                *)

Goto(t, from, to) ==
    /\ phase[t] = from
    /\ phase' = [phase EXCEPT ![t] = to]

LockIsPoisoned(t) == t[2] = "matcher" /\ t[1] \in poisoned

\* the closure ends in an error that nobody looks at
LockRefused(t) ==
    /\ Goto(t, "claim", "free")
    /\ LockIsPoisoned(t)
    /\ abandoned' = abandoned \union {slot[t]}
    /\ UNCHANGED <<rowVars, slot, request, basis, verdict, poisoned>>

\* mutant: what has ended may be claimed as well
ClaimableAgain(j) == status[j] \in {"queued"} \union Ended

\* claim_*: any other status is an error
MayBeClaimed(j) == status[j] = "queued"

\* the row can be claimed, and the route a projection names has been imported
ClaimSucceeds(t) ==
    /\ ~LockIsPoisoned(t)
    /\ MayBeClaimed(slot[t])
    /\ t[2] = "projector" => status[request[t]] # "absent"

SetStatus(j, new) ==
    /\ status' = [status EXCEPT ![j] = new]
    /\ asset' = [asset EXCEPT ![j] = new]

\* claim_route_match_job; the raw points never change
ClaimMatch(t) ==
    /\ Goto(t, "claim", "work")
    /\ t[2] = "matcher" /\ ClaimSucceeds(t)
    /\ SetStatus(slot[t], "running")
    /\ UNCHANGED <<matcher, bound, projected, slot, request, basis, verdict, poisoned, abandoned>>

\* claim_gis_projection_job: the matched points if there are any, else the raw ones
ClaimProjection(t) ==
    /\ Goto(t, "claim", "work")
    /\ t[2] = "projector" /\ ClaimSucceeds(t)
    /\ SetStatus(slot[t], "running")
    /\ bound' = [bound EXCEPT ![slot[t]] = request[t]]
    /\ basis' = [basis EXCEPT ![t] = matcher[request[t]]]
    /\ UNCHANGED <<matcher, projected, slot, request, verdict, poisoned, abandoned>>

Fails(t, from, as) ==
    /\ Goto(t, from, "fail")
    /\ verdict' = [verdict EXCEPT ![t] = as]

ClaimFails(t) ==
    /\ phase[t] = "claim" /\ ~LockIsPoisoned(t)
    /\ \/ /\ ~MayBeClaimed(slot[t]) \/ "store" \in Faults
          /\ Fails(t, "claim", "failed")
       \/ /\ t[2] = "projector" /\ "corridor" \in Faults
          /\ Fails(t, "claim", "failed")
       \/ /\ t[2] = "projector" /\ MayBeClaimed(slot[t]) /\ status[request[t]] = "absent"
          /\ Fails(t, "claim", "blocked")
    /\ UNCHANGED <<rowVars, slot, request, basis, poisoned, abandoned>>

\* every update of the progress asks for a running row
StillRunning(t) ==
    /\ status[slot[t]] = "running"
    /\ t[2] = "projector" => bound[slot[t]] = request[t]

\* a matcher answers with usable points; OSRM comes second to Valhalla
Match(t) ==
    /\ Goto(t, "work", "publish")
    /\ t[2] = "matcher" /\ StillRunning(t)
    /\ \E answered \in Matchers :
          /\ answered = "Valhalla" =>
                 request[t].preferred = "Valhalla" /\ request[t].valhalla # "absent"
          /\ answered = "OSRM" =>
                 request[t].preferred \in Matchers /\ request[t].osrm
          /\ basis' = [basis EXCEPT ![t] = answered]
    /\ UNCHANGED <<rowVars, slot, request, verdict, poisoned, abandoned>>

\* nothing configured, or an endpoint or managed file that cannot be used, blocks;
\* after a fallback every error is a failure
MatchFails(t) ==
    /\ phase[t] = "work" /\ t[2] = "matcher"
    /\ \E as \in {"failed", "blocked"} :
          /\ as = "blocked" =>
                 \/ request[t].preferred = "OSRM"
                 \/ request[t].preferred = "Valhalla" /\ ~request[t].osrm
          /\ as = "failed" =>
                 \/ request[t].preferred = "other" \/ request[t].osrm
                 \/ request[t].preferred = "Valhalla" /\ request[t].valhalla # "absent"
                 \/ ~StillRunning(t) \/ "store" \in Faults
          /\ Fails(t, "work", as)
    /\ UNCHANGED <<rowVars, slot, request, basis, poisoned, abandoned>>

\* mutant: the panic ends the thread
PanicUncaught(t) ==
    /\ Goto(t, "work", "dead")
    /\ "panic" \in Faults
    /\ t[2] = "matcher" /\ request[t].valhalla = "managed"
    /\ poisoned' = poisoned \union {t[1]}
    /\ UNCHANGED <<rowVars, slot, request, basis, verdict, abandoned>>

\* the reader threads of the managed Valhalla process cannot be started: the guard of
\* execution_lock is dropped by the unwinding, and catch_unwind ends it
MatchPanics(t) ==
    /\ "panic" \in Faults /\ phase[t] = "work"
    /\ t[2] = "matcher" /\ request[t].preferred = "Valhalla" /\ request[t].valhalla = "managed"
    /\ Fails(t, "work", "failed")
    /\ poisoned' = poisoned \union {t[1]}
    /\ UNCHANGED <<rowVars, slot, request, basis, abandoned>>

Project(t) ==
    /\ Goto(t, "work", "publish")
    /\ t[2] = "projector" /\ StillRunning(t)
    /\ UNCHANGED <<rowVars, slot, request, basis, verdict, poisoned, abandoned>>

ProjectFails(t) ==
    /\ phase[t] = "work" /\ t[2] = "projector"
    /\ ~StillRunning(t) \/ "store" \in Faults
    /\ Fails(t, "work", "failed")
    /\ UNCHANGED <<rowVars, slot, request, basis, poisoned, abandoned>>

\* after the commit the status is read once more, and an error of that read goes the
\* way of every other
Committed(t) ==
    \/ Goto(t, "publish", "free") /\ UNCHANGED verdict
    \/ Fails(t, "publish", "failed") /\ "store" \in Faults

\* complete_route_match_job
CompleteMatch(t) ==
    /\ phase[t] = "publish" /\ t[2] = "matcher" /\ StillRunning(t)
    /\ Committed(t)
    /\ SetStatus(slot[t], "complete")
    /\ matcher' = [matcher EXCEPT ![slot[t]] = basis[t]]
    /\ UNCHANGED <<bound, projected, slot, request, basis, poisoned, abandoned>>

\* mutant: the status of the job is not looked at
CompleteProjectionUnasked(t) ==
    /\ phase[t] = "publish" /\ t[2] = "projector"
    /\ Committed(t)
    /\ SetStatus(slot[t], "complete")
    /\ projected' = [projected EXCEPT ![slot[t]] = [route |-> request[t], points |-> basis[t]]]
    /\ UNCHANGED <<matcher, bound, slot, request, basis, poisoned, abandoned>>

\* complete_gis_projection_job
CompleteProjection(t) ==
    /\ phase[t] = "publish" /\ t[2] = "projector" /\ StillRunning(t)
    /\ Committed(t)
    /\ SetStatus(slot[t], "complete")
    /\ bound' = [bound EXCEPT ![slot[t]] = request[t]]
    /\ projected' = [projected EXCEPT ![slot[t]] = [route |-> request[t], points |-> basis[t]]]
    /\ UNCHANGED <<matcher, slot, request, basis, poisoned, abandoned>>

CompleteFails(t) ==
    /\ phase[t] = "publish"
    /\ ~StillRunning(t) \/ "store" \in Faults
    /\ Fails(t, "publish", "failed")
    /\ UNCHANGED <<rowVars, slot, request, basis, poisoned, abandoned>>

\* mutant: what has ended may be failed as well
FailAnything(t) == TRUE

\* the statuses fail_* changes
MayBeFailed(t) == status[slot[t]] \in {"queued", "running"}

\* fail_*; its own error is discarded
Fail(t) ==
    /\ Goto(t, "fail", "free")
    /\ \/ /\ MayBeFailed(t)
          /\ SetStatus(slot[t], verdict[t])
          /\ UNCHANGED abandoned
       \/ /\ ~MayBeFailed(t)
          /\ UNCHANGED <<status, asset, abandoned>>
       \/ /\ "store" \in Faults
          /\ abandoned' = abandoned \union {slot[t]}
          /\ UNCHANGED <<status, asset>>
    /\ UNCHANGED <<matcher, bound, projected, slot, request, basis, verdict, poisoned>>

\* *active = None
Free(t) ==
    /\ Goto(t, "free", "idle")
    /\ slot' = [slot EXCEPT ![t] = None]
    /\ request' = [request EXCEPT ![t] = None]
    /\ basis' = [basis EXCEPT ![t] = None]
    /\ verdict' = [verdict EXCEPT ![t] = None]
    /\ UNCHANGED <<rowVars, poisoned, abandoned>>

-----------------------------------------------------------------------------
\* An instance ends and is launched again.  Opening a project at the present schema
\* leaves the rows of its jobs as they are.
Restart(i) ==
    LET mine == {i} \X Managers
        Without(f, value) == [t \in Threads |-> IF t \in mine THEN value ELSE f[t]]
    IN  /\ "crash" \in Faults
        /\ abandoned' = abandoned \union {slot[t] : t \in {u \in mine : phase[u] \notin {"idle", "free"}}}
        /\ slot' = Without(slot, None)
        /\ phase' = Without(phase, "idle")
        /\ request' = Without(request, None)
        /\ basis' = Without(basis, None)
        /\ verdict' = Without(verdict, None)
        /\ poisoned' = poisoned \ {i}
        /\ UNCHANGED rowVars

Run(t) ==
    \/ LockRefused(t) \/ ClaimMatch(t) \/ ClaimProjection(t) \/ ClaimFails(t)
    \/ Match(t) \/ MatchFails(t) \/ MatchPanics(t) \/ Project(t) \/ ProjectFails(t)
    \/ CompleteMatch(t) \/ CompleteProjection(t) \/ CompleteFails(t)
    \/ Fail(t) \/ Free(t)

Next ==
    \/ \E j \in Jobs : Import(j)
    \/ \E t \in Threads :
          \/ \E r \in Routes, asked \in MatchRequests : Start(t, r, asked)
          \/ \E s \in Sources, r \in Routes : Start(t, s, r)
          \/ Run(t)
    \/ \E i \in Instances : Restart(i)

Spec == Init /\ [][Next]_vars

(* Threads are scheduled; HTTP calls have read and write timeouts, and the     *)
(* managed Valhalla process a deadline.                                        *)
FairSpec == Spec /\ \A t \in Threads : WF_vars(Run(t))

-----------------------------------------------------------------------------
TypeOK ==
    /\ status \in [Jobs -> Statuses]
    /\ asset \in [Jobs -> Statuses]
    /\ matcher \in [Routes -> Matchers \union {None}]
    /\ bound \in [Sources -> Routes \union {None}]
    /\ projected \in [Sources -> [route : Routes, points : Matchers \union {None}] \union {None}]
    /\ slot \in [Threads -> Jobs \union {None}]
    /\ phase \in [Threads -> Phases]
    /\ request \in [Threads -> MatchRequests \union Routes \union {None}]
    /\ basis \in [Threads -> Matchers \union {None}]
    /\ verdict \in [Threads -> {"failed", "blocked", None}]
    /\ poisoned \subseteq Instances
    /\ abandoned \subseteq Jobs

(* No two threads, of one instance or of two, have claimed the same job.       *)
ClaimedOnce ==
    \A t, u \in Threads :
        phase[t] \in AtWork /\ phase[u] \in AtWork /\ slot[t] = slot[u] => t = u

(* A row that says running has a thread that will end it, unless a thread was  *)
(* ended with its instance or could not write its failure.                     *)
RunningHasThread ==
    \A j \in Jobs : status[j] = "running" =>
        j \in abandoned \/ \E t \in Threads : slot[t] = j /\ phase[t] \in AtWork \union {"fail"}

(* What the two rows of a job say agrees, and agrees with the points or        *)
(* features that are stored: matched points exist exactly for a complete       *)
(* match, and the features of a complete projection lie on the route its rows  *)
(* name, also after collisions of two instances and late failures.             *)
RowsAgree ==
    /\ asset = status
    /\ \A r \in Routes : status[r] = "complete" <=> matcher[r] # None
    /\ \A s \in Sources :
          /\ status[s] = "complete" <=> projected[s] # None
          /\ projected[s] # None => projected[s].route = bound[s]

(* Features that were projected onto matched points lie on the points their    *)
(* route has now: only a projection claimed before the match ended can be      *)
(* behind its route (claim_gis_projection_job, complete_route_match_job).      *)
MatchedProjectionIsCurrent ==
    \A s \in Sources :
        projected[s] # None => projected[s].points \in {None, matcher[projected[s].route]}

(* Every start that was accepted ends: the slot is free again and the job is   *)
(* no longer queued or running, unless a thread left the job as it was.        *)
StartedJobEnds ==
    \A t \in Threads, j \in Jobs :
        slot[t] = j ~> slot[t] = None /\ (status[j] \in Ended \/ j \in abandoned)

Promise == INSTANCE DurableJob WITH
    Claimable <- {"queued"},
    Abortable <- {"queued", "running"},
    advertised <- [j \in Jobs |-> IF j \in Routes THEN matcher[j] # None ELSE projected[j] # None]

(* The rows and the stored points and features implement the promise of a job. *)
ImplementsDurableJob == Promise!Spec
=============================================================================
