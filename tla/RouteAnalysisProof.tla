------------------------- MODULE RouteAnalysisProof -------------------------
(***************************************************************************)
(* Proofs about RouteAnalysis, for any number of routes, sources and       *)
(* instances and any set of faults.                                        *)
(***************************************************************************)
EXTENDS RouteAnalysis, TLAPS

\* what a manager's thread has while it holds the slot
ThreadOK(t) ==
    /\ slot[t] = None <=> phase[t] = "idle"
    /\ slot[t] # None =>
          /\ slot[t] \in Jobs /\ t[2] = ManagerOf(slot[t])
          /\ slot[t] \in Routes => request[t] \in MatchRequests
          /\ slot[t] \in Sources => request[t] \in Routes
    /\ phase[t] = "fail" => verdict[t] \in {"failed", "blocked"}
    /\ phase[t] = "publish" /\ t[2] = "matcher" => basis[t] \in Matchers

ThreadsOK == \A t \in Threads : ThreadOK(t)

\* a thread at work has claimed its job, and nothing makes a job queued again
Claimed == \A t \in Threads : phase[t] \in AtWork => status[slot[t]] \notin {"absent", "queued"}

\* matched points a projection has read are still there
BasisIsCurrent ==
    \A t \in Threads : phase[t] \in AtWork /\ t[2] = "projector" =>
        basis[t] \in {None, matcher[request[t]]}

IInv ==
    /\ TypeOK
    /\ ThreadsOK
    /\ Claimed
    /\ ClaimedOnce
    /\ RunningHasThread
    /\ RowsAgree
    /\ BasisIsCurrent
    /\ MatchedProjectionIsCurrent

-----------------------------------------------------------------------------
(***************************************************************************)
(* The two kinds of managers are told apart by the job they work on.       *)
(***************************************************************************)
LEMMA KindOfJob ==
    ASSUME TypeOK, ThreadsOK, NEW t \in Threads, phase[t] # "idle"
    PROVE  /\ slot[t] \in Jobs
           /\ t[2] = "matcher" => slot[t] \in Routes /\ request[t] \in MatchRequests
           /\ t[2] = "projector" => slot[t] \in Sources /\ request[t] \in Routes
           /\ t[2] \in Managers
<1>1. slot[t] # None /\ ThreadOK(t)
  BY DEF ThreadsOK, ThreadOK
<1> QED
  BY <1>1, RouteAnalysisAssumption DEF ThreadOK, Jobs, ManagerOf, Threads, Managers

(***************************************************************************)
(* Types and what a thread has while it holds the slot, under every        *)
(* command, thread step and launch.                                        *)
(***************************************************************************)
LEMMA TypesAndThreads == Spec => [](TypeOK /\ ThreadsOK)
<1> USE RouteAnalysisAssumption
<1>1. Init => TypeOK /\ ThreadsOK
  BY DEF Init, TypeOK, ThreadsOK, ThreadOK, Jobs, Threads, Statuses, Phases
<1>2. TypeOK /\ ThreadsOK /\ [Next]_vars => (TypeOK /\ ThreadsOK)'
  <2> SUFFICES ASSUME TypeOK, ThreadsOK, [Next]_vars PROVE (TypeOK /\ ThreadsOK)'
    OBVIOUS
  <2> USE DEF vars, rowVars, threadVars, Statuses, Ended, Phases, AtWork
  <2>1. ASSUME NEW j \in Jobs, Import(j) PROVE (TypeOK /\ ThreadsOK)'
    BY <2>1, KindOfJob DEF Import, TypeOK, ThreadsOK, ThreadOK, Jobs, ManagerOf
  <2>2. ASSUME NEW t \in Threads, NEW r \in Routes, NEW asked \in MatchRequests, Start(t, r, asked) PROVE (TypeOK /\ ThreadsOK)'
    BY <2>2, KindOfJob DEF Start, TypeOK, ThreadsOK, ThreadOK, Jobs, ManagerOf
  <2>3. ASSUME NEW t \in Threads, NEW s \in Sources, NEW r \in Routes, Start(t, s, r) PROVE (TypeOK /\ ThreadsOK)'
    BY <2>3, KindOfJob DEF Start, TypeOK, ThreadsOK, ThreadOK, Jobs, ManagerOf
  <2>4. ASSUME NEW t \in Threads, LockRefused(t) PROVE (TypeOK /\ ThreadsOK)'
    BY <2>4, KindOfJob DEF LockRefused, Goto, TypeOK, ThreadsOK, ThreadOK, Jobs, ManagerOf
  <2>5. ASSUME NEW t \in Threads, ClaimMatch(t) PROVE (TypeOK /\ ThreadsOK)'
    BY <2>5, KindOfJob DEF ClaimMatch, Goto, SetStatus, TypeOK, ThreadsOK, ThreadOK, Jobs, ManagerOf
  <2>6. ASSUME NEW t \in Threads, ClaimProjection(t) PROVE (TypeOK /\ ThreadsOK)'
    BY <2>6, KindOfJob DEF ClaimProjection, Goto, SetStatus, TypeOK, ThreadsOK, ThreadOK, Jobs, ManagerOf
  <2>7. ASSUME NEW t \in Threads, ClaimFails(t) PROVE (TypeOK /\ ThreadsOK)'
    BY <2>7, KindOfJob DEF ClaimFails, Fails, Goto, TypeOK, ThreadsOK, ThreadOK, Jobs, ManagerOf
  <2>8. ASSUME NEW t \in Threads, Match(t) PROVE (TypeOK /\ ThreadsOK)'
    BY <2>8, KindOfJob DEF Match, Goto, TypeOK, ThreadsOK, ThreadOK, Jobs, ManagerOf
  <2>9. ASSUME NEW t \in Threads, MatchFails(t) PROVE (TypeOK /\ ThreadsOK)'
    <3>1. PICK as \in {"failed", "blocked"} : Fails(t, "work", as)
      BY <2>9 DEF MatchFails
    <3>2. UNCHANGED <<rowVars, slot, request, basis, poisoned, abandoned>>
      BY <2>9 DEF MatchFails
    <3>3. verdict' \in [Threads -> {"failed", "blocked", None}] /\ phase' \in [Threads -> Phases]
      BY <3>1 DEF Fails, Goto, TypeOK
    <3>4. TypeOK'
      BY <3>2, <3>3 DEF TypeOK
    <3>5. /\ phase[t] = "work" /\ phase'[t] = "fail" /\ verdict'[t] \in {"failed", "blocked"}
          /\ \A u \in Threads : u # t => phase'[u] = phase[u] /\ verdict'[u] = verdict[u]
      BY <3>1 DEF Fails, Goto, TypeOK
    <3>6. ThreadsOK'
      BY <3>2, <3>5 DEF ThreadsOK, ThreadOK, Jobs, ManagerOf
    <3> QED
      BY <3>4, <3>6
  <2>10. ASSUME NEW t \in Threads, MatchPanics(t) PROVE (TypeOK /\ ThreadsOK)'
    <3>1. Fails(t, "work", "failed") /\ UNCHANGED <<rowVars, slot, request, basis, abandoned>>
      BY <2>10 DEF MatchPanics
    <3>2. poisoned' \subseteq Instances
      BY <2>10 DEF MatchPanics, TypeOK, Threads
    <3>3. TypeOK'
      BY <3>1, <3>2 DEF Fails, Goto, TypeOK
    <3>4. ThreadsOK'
      BY <3>1 DEF Fails, Goto, TypeOK, ThreadsOK, ThreadOK, Jobs, ManagerOf
    <3> QED
      BY <3>3, <3>4
  <2>11. ASSUME NEW t \in Threads, Project(t) PROVE (TypeOK /\ ThreadsOK)'
    BY <2>11, KindOfJob DEF Project, Goto, TypeOK, ThreadsOK, ThreadOK, Jobs, ManagerOf
  <2>12. ASSUME NEW t \in Threads, ProjectFails(t) PROVE (TypeOK /\ ThreadsOK)'
    BY <2>12, KindOfJob DEF ProjectFails, Fails, Goto, TypeOK, ThreadsOK, ThreadOK, Jobs, ManagerOf
  <2>13. ASSUME NEW t \in Threads, CompleteMatch(t) PROVE (TypeOK /\ ThreadsOK)'
    BY <2>13, KindOfJob DEF CompleteMatch, Committed, Fails, Goto, SetStatus, TypeOK, ThreadsOK, ThreadOK, Jobs, ManagerOf
  <2>14. ASSUME NEW t \in Threads, CompleteProjection(t) PROVE (TypeOK /\ ThreadsOK)'
    BY <2>14, KindOfJob DEF CompleteProjection, Committed, Fails, Goto, SetStatus, TypeOK, ThreadsOK, ThreadOK, Jobs, ManagerOf
  <2>15. ASSUME NEW t \in Threads, CompleteFails(t) PROVE (TypeOK /\ ThreadsOK)'
    BY <2>15, KindOfJob DEF CompleteFails, Fails, Goto, TypeOK, ThreadsOK, ThreadOK, Jobs, ManagerOf
  <2>16. ASSUME NEW t \in Threads, Fail(t) PROVE (TypeOK /\ ThreadsOK)'
    BY <2>16, KindOfJob DEF Fail, Goto, SetStatus, TypeOK, ThreadsOK, ThreadOK, Jobs, ManagerOf
  <2>17. ASSUME NEW t \in Threads, Free(t) PROVE (TypeOK /\ ThreadsOK)'
    BY <2>17, KindOfJob DEF Free, Goto, TypeOK, ThreadsOK, ThreadOK, Jobs, ManagerOf
  <2>18. ASSUME NEW i \in Instances, Restart(i) PROVE (TypeOK /\ ThreadsOK)'
    <3> DEFINE mine == {i} \X Managers
    <3>1. /\ slot' = [t \in Threads |-> IF t \in mine THEN None ELSE slot[t]]
          /\ phase' = [t \in Threads |-> IF t \in mine THEN "idle" ELSE phase[t]]
          /\ request' = [t \in Threads |-> IF t \in mine THEN None ELSE request[t]]
          /\ basis' = [t \in Threads |-> IF t \in mine THEN None ELSE basis[t]]
          /\ verdict' = [t \in Threads |-> IF t \in mine THEN None ELSE verdict[t]]
          /\ UNCHANGED rowVars
      BY <2>18 DEF Restart
    <3>2. \A u \in mine : u \in Threads
      BY DEF Threads
    <3>3. \A u \in Threads : phase[u] \notin {"idle", "free"} => slot[u] \in Jobs
      BY KindOfJob
    <3>4. abandoned' \subseteq Jobs
      BY <2>18, <3>2, <3>3 DEF Restart, TypeOK
    <3>5. poisoned' \subseteq Instances
      BY <2>18 DEF Restart, TypeOK
    <3> HIDE DEF mine
    <3>6. TypeOK'
      BY <3>1, <3>4, <3>5 DEF TypeOK
    <3>7. ThreadsOK'
      BY <3>1 DEF TypeOK, ThreadsOK, ThreadOK, Jobs, ManagerOf
    <3> QED
      BY <3>6, <3>7
  <2>19. CASE UNCHANGED vars
    BY <2>19, KindOfJob DEF TypeOK, ThreadsOK, ThreadOK, Jobs, ManagerOf
  <2> QED
    BY <2>1, <2>2, <2>3, <2>4, <2>5, <2>6, <2>7, <2>8, <2>9, <2>10, <2>11, <2>12, <2>13, <2>14, <2>15, <2>16, <2>17, <2>18, <2>19 DEF Next, Run
<1> QED
  BY <1>1, <1>2, PTL DEF Spec

-----------------------------------------------------------------------------
(***************************************************************************)
(* A job is claimed from queued only, and never becomes queued again.      *)
(***************************************************************************)
LEMMA ClaimedStep ==
    ASSUME TypeOK, ThreadsOK, Claimed, ClaimedOnce, [Next]_vars
    PROVE  (Claimed /\ ClaimedOnce)'
<1> USE RouteAnalysisAssumption DEF vars, rowVars, threadVars, AtWork
<1>1. ASSUME NEW j \in Jobs, Import(j) PROVE (Claimed /\ ClaimedOnce)'
  BY <1>1, KindOfJob DEF Import, Claimed, ClaimedOnce, TypeOK
<1>2. ASSUME NEW t \in Threads, NEW r \in Routes, NEW asked \in MatchRequests, Start(t, r, asked) PROVE (Claimed /\ ClaimedOnce)'
  BY <1>2, KindOfJob DEF Start, Claimed, ClaimedOnce, TypeOK
<1>3. ASSUME NEW t \in Threads, NEW s \in Sources, NEW r \in Routes, Start(t, s, r) PROVE (Claimed /\ ClaimedOnce)'
  BY <1>3, KindOfJob DEF Start, Claimed, ClaimedOnce, TypeOK
<1>4. ASSUME NEW t \in Threads, LockRefused(t) PROVE (Claimed /\ ClaimedOnce)'
  BY <1>4, KindOfJob DEF LockRefused, Goto, Claimed, ClaimedOnce, TypeOK
<1>5. ASSUME NEW t \in Threads, ClaimMatch(t) PROVE (Claimed /\ ClaimedOnce)'
  <2>1. /\ phase[t] = "claim" /\ phase' = [phase EXCEPT ![t] = "work"]
        /\ status[slot[t]] = "queued" /\ status' = [status EXCEPT ![slot[t]] = "running"]
        /\ slot' = slot /\ slot[t] \in Jobs
    BY <1>5, KindOfJob DEF ClaimMatch, ClaimSucceeds, MayBeClaimed, SetStatus, Goto
  <2>2. \A u \in Threads : phase[u] \in AtWork => slot[u] # slot[t]
    BY <2>1 DEF Claimed
  <2> QED
    BY <2>1, <2>2 DEF Claimed, ClaimedOnce, TypeOK
<1>6. ASSUME NEW t \in Threads, ClaimProjection(t) PROVE (Claimed /\ ClaimedOnce)'
  <2>1. /\ phase[t] = "claim" /\ phase' = [phase EXCEPT ![t] = "work"]
        /\ status[slot[t]] = "queued" /\ status' = [status EXCEPT ![slot[t]] = "running"]
        /\ slot' = slot /\ slot[t] \in Jobs
    BY <1>6, KindOfJob DEF ClaimProjection, ClaimSucceeds, MayBeClaimed, SetStatus, Goto
  <2>2. \A u \in Threads : phase[u] \in AtWork => slot[u] # slot[t]
    BY <2>1 DEF Claimed
  <2> QED
    BY <2>1, <2>2 DEF Claimed, ClaimedOnce, TypeOK
<1>7. ASSUME NEW t \in Threads, ClaimFails(t) PROVE (Claimed /\ ClaimedOnce)'
  BY <1>7, KindOfJob DEF ClaimFails, Fails, Goto, Claimed, ClaimedOnce, TypeOK
<1>8. ASSUME NEW t \in Threads, Match(t) PROVE (Claimed /\ ClaimedOnce)'
  BY <1>8, KindOfJob DEF Match, Goto, Claimed, ClaimedOnce, TypeOK
<1>9. ASSUME NEW t \in Threads, MatchFails(t) PROVE (Claimed /\ ClaimedOnce)'
  BY <1>9, KindOfJob DEF MatchFails, Fails, Goto, Claimed, ClaimedOnce, TypeOK
<1>10. ASSUME NEW t \in Threads, MatchPanics(t) PROVE (Claimed /\ ClaimedOnce)'
  BY <1>10, KindOfJob DEF MatchPanics, Fails, Goto, Claimed, ClaimedOnce, TypeOK
<1>11. ASSUME NEW t \in Threads, Project(t) PROVE (Claimed /\ ClaimedOnce)'
  BY <1>11, KindOfJob DEF Project, Goto, Claimed, ClaimedOnce, TypeOK
<1>12. ASSUME NEW t \in Threads, ProjectFails(t) PROVE (Claimed /\ ClaimedOnce)'
  BY <1>12, KindOfJob DEF ProjectFails, Fails, Goto, Claimed, ClaimedOnce, TypeOK
<1>13. ASSUME NEW t \in Threads, CompleteMatch(t) PROVE (Claimed /\ ClaimedOnce)'
  BY <1>13, KindOfJob DEF CompleteMatch, Committed, Fails, Goto, SetStatus, Claimed, ClaimedOnce, TypeOK
<1>14. ASSUME NEW t \in Threads, CompleteProjection(t) PROVE (Claimed /\ ClaimedOnce)'
  BY <1>14, KindOfJob DEF CompleteProjection, Committed, Fails, Goto, SetStatus, Claimed, ClaimedOnce, TypeOK
<1>15. ASSUME NEW t \in Threads, CompleteFails(t) PROVE (Claimed /\ ClaimedOnce)'
  BY <1>15, KindOfJob DEF CompleteFails, Fails, Goto, Claimed, ClaimedOnce, TypeOK
<1>16. ASSUME NEW t \in Threads, Fail(t) PROVE (Claimed /\ ClaimedOnce)'
  <2>1. verdict[t] \in {"failed", "blocked"} /\ slot[t] \in Jobs
    BY <1>16, KindOfJob DEF Fail, Goto, ThreadsOK, ThreadOK
  <2>2. \A j \in Jobs : status[j] \notin {"absent", "queued"} => status'[j] \notin {"absent", "queued"}
    BY <1>16, <2>1 DEF Fail, SetStatus, TypeOK
  <2>3. /\ slot' = slot
      /\ \A u \in Threads : phase'[u] \in AtWork => phase[u] \in AtWork /\ slot[u] \in Jobs
    BY <1>16, KindOfJob DEF Fail, Goto, TypeOK
  <2> QED
    BY <2>2, <2>3 DEF Claimed, ClaimedOnce
<1>17. ASSUME NEW t \in Threads, Free(t) PROVE (Claimed /\ ClaimedOnce)'
  BY <1>17, KindOfJob DEF Free, Goto, Claimed, ClaimedOnce, TypeOK
<1>18. ASSUME NEW i \in Instances, Restart(i) PROVE (Claimed /\ ClaimedOnce)'
  BY <1>18, KindOfJob DEF Restart, Claimed, ClaimedOnce, TypeOK
<1>19. CASE UNCHANGED vars
  BY <1>19, KindOfJob DEF Claimed, ClaimedOnce, TypeOK
<1> QED
  BY <1>1, <1>2, <1>3, <1>4, <1>5, <1>6, <1>7, <1>8, <1>9, <1>10, <1>11, <1>12, <1>13, <1>14, <1>15, <1>16, <1>17, <1>18, <1>19 DEF Next, Run

(***************************************************************************)
(* What leaves a running row ends it or is abandoned.                      *)
(***************************************************************************)
LEMMA RunningStep ==
    ASSUME TypeOK, ThreadsOK, RunningHasThread, [Next]_vars
    PROVE  RunningHasThread'
<1> USE RouteAnalysisAssumption DEF vars, rowVars, threadVars, AtWork
<1>1. ASSUME NEW j \in Jobs, Import(j) PROVE RunningHasThread'
  BY <1>1, KindOfJob DEF Import, RunningHasThread, TypeOK
<1>2. ASSUME NEW t \in Threads, NEW r \in Routes, NEW asked \in MatchRequests, Start(t, r, asked) PROVE RunningHasThread'
  BY <1>2 DEF Start, RunningHasThread, TypeOK, Jobs
<1>3. ASSUME NEW t \in Threads, NEW s \in Sources, NEW r \in Routes, Start(t, s, r) PROVE RunningHasThread'
  BY <1>3 DEF Start, RunningHasThread, TypeOK, Jobs
<1>4. ASSUME NEW t \in Threads, LockRefused(t) PROVE RunningHasThread'
  BY <1>4, KindOfJob DEF LockRefused, Goto, RunningHasThread, TypeOK
<1>5. ASSUME NEW t \in Threads, ClaimMatch(t) PROVE RunningHasThread'
  <2>1. /\ slot' = slot /\ UNCHANGED abandoned /\ slot[t] \in Jobs
        /\ status' = [status EXCEPT ![slot[t]] = "running"]
        /\ phase[t] = "claim" /\ phase' = [phase EXCEPT ![t] = "work"]
    BY <1>5, KindOfJob DEF ClaimMatch, Goto, SetStatus
  <2> QED
    BY <2>1 DEF RunningHasThread, TypeOK
<1>6. ASSUME NEW t \in Threads, ClaimProjection(t) PROVE RunningHasThread'
  <2>1. /\ slot' = slot /\ UNCHANGED abandoned /\ slot[t] \in Jobs
        /\ status' = [status EXCEPT ![slot[t]] = "running"]
        /\ phase[t] = "claim" /\ phase' = [phase EXCEPT ![t] = "work"]
    BY <1>6, KindOfJob DEF ClaimProjection, Goto, SetStatus
  <2> QED
    BY <2>1 DEF RunningHasThread, TypeOK
<1>7. ASSUME NEW t \in Threads, ClaimFails(t) PROVE RunningHasThread'
  <2>1. /\ slot' = slot /\ UNCHANGED <<status, abandoned>>
        /\ \A u \in Threads : phase[u] \in AtWork \union {"fail"} => phase'[u] \in AtWork \union {"fail"}
    BY <1>7, KindOfJob DEF ClaimFails, Fails, Goto, TypeOK
  <2> QED
    BY <2>1 DEF RunningHasThread
<1>8. ASSUME NEW t \in Threads, Match(t) PROVE RunningHasThread'
  <2>1. /\ slot' = slot /\ UNCHANGED <<status, abandoned>>
        /\ \A u \in Threads : phase[u] \in AtWork \union {"fail"} => phase'[u] \in AtWork \union {"fail"}
    BY <1>8, KindOfJob DEF Match, Fails, Goto, TypeOK
  <2> QED
    BY <2>1 DEF RunningHasThread
<1>9. ASSUME NEW t \in Threads, MatchFails(t) PROVE RunningHasThread'
  <2>1. /\ slot' = slot /\ UNCHANGED <<status, abandoned>>
        /\ \A u \in Threads : phase[u] \in AtWork \union {"fail"} => phase'[u] \in AtWork \union {"fail"}
    BY <1>9, KindOfJob DEF MatchFails, Fails, Goto, TypeOK
  <2> QED
    BY <2>1 DEF RunningHasThread
<1>10. ASSUME NEW t \in Threads, MatchPanics(t) PROVE RunningHasThread'
  <2>1. /\ slot' = slot /\ UNCHANGED <<status, abandoned>>
        /\ \A u \in Threads : phase[u] \in AtWork \union {"fail"} => phase'[u] \in AtWork \union {"fail"}
    BY <1>10, KindOfJob DEF MatchPanics, Fails, Goto, TypeOK
  <2> QED
    BY <2>1 DEF RunningHasThread
<1>11. ASSUME NEW t \in Threads, Project(t) PROVE RunningHasThread'
  <2>1. /\ slot' = slot /\ UNCHANGED <<status, abandoned>>
        /\ \A u \in Threads : phase[u] \in AtWork \union {"fail"} => phase'[u] \in AtWork \union {"fail"}
    BY <1>11, KindOfJob DEF Project, Fails, Goto, TypeOK
  <2> QED
    BY <2>1 DEF RunningHasThread
<1>12. ASSUME NEW t \in Threads, ProjectFails(t) PROVE RunningHasThread'
  <2>1. /\ slot' = slot /\ UNCHANGED <<status, abandoned>>
        /\ \A u \in Threads : phase[u] \in AtWork \union {"fail"} => phase'[u] \in AtWork \union {"fail"}
    BY <1>12, KindOfJob DEF ProjectFails, Fails, Goto, TypeOK
  <2> QED
    BY <2>1 DEF RunningHasThread
<1>13. ASSUME NEW t \in Threads, CompleteMatch(t) PROVE RunningHasThread'
  <2>1. /\ slot' = slot /\ UNCHANGED abandoned /\ slot[t] \in Jobs
        /\ status' = [status EXCEPT ![slot[t]] = "complete"]
        /\ \A u \in Threads : u # t => phase'[u] = phase[u]
    BY <1>13, KindOfJob DEF CompleteMatch, Committed, Fails, Goto, SetStatus, TypeOK
  <2> QED
    BY <2>1 DEF RunningHasThread, TypeOK
<1>14. ASSUME NEW t \in Threads, CompleteProjection(t) PROVE RunningHasThread'
  <2>1. /\ slot' = slot /\ UNCHANGED abandoned /\ slot[t] \in Jobs
        /\ status' = [status EXCEPT ![slot[t]] = "complete"]
        /\ \A u \in Threads : u # t => phase'[u] = phase[u]
    BY <1>14, KindOfJob DEF CompleteProjection, Committed, Fails, Goto, SetStatus, TypeOK
  <2> QED
    BY <2>1 DEF RunningHasThread, TypeOK
<1>15. ASSUME NEW t \in Threads, CompleteFails(t) PROVE RunningHasThread'
  <2>1. /\ slot' = slot /\ UNCHANGED <<status, abandoned>>
        /\ \A u \in Threads : phase[u] \in AtWork \union {"fail"} => phase'[u] \in AtWork \union {"fail"}
    BY <1>15, KindOfJob DEF CompleteFails, Fails, Goto, TypeOK
  <2> QED
    BY <2>1 DEF RunningHasThread
<1>16. ASSUME NEW t \in Threads, Fail(t) PROVE RunningHasThread'
  <2>1. /\ slot' = slot /\ slot[t] \in Jobs /\ verdict[t] # "running"
        /\ phase[t] = "fail" /\ phase' = [phase EXCEPT ![t] = "free"]
    BY <1>16, KindOfJob DEF Fail, Goto, ThreadsOK, ThreadOK
  <2>2. abandoned \subseteq abandoned'
    BY <1>16 DEF Fail
  <2>3. \A j \in Jobs : j # slot[t] => status'[j] = status[j]
    BY <1>16, <2>1 DEF Fail, SetStatus, TypeOK
  <2>4. status'[slot[t]] # "running" \/ slot[t] \in abandoned'
    BY <1>16, <2>1 DEF Fail, SetStatus, TypeOK, MayBeFailed
  <2> QED
    BY <2>1, <2>2, <2>3, <2>4 DEF RunningHasThread, TypeOK
<1>17. ASSUME NEW t \in Threads, Free(t) PROVE RunningHasThread'
  BY <1>17, KindOfJob DEF Free, Goto, RunningHasThread, TypeOK
<1>18. ASSUME NEW i \in Instances, Restart(i) PROVE RunningHasThread'
  <2> DEFINE mine == {i} \X Managers
             left == {slot[t] : t \in {u \in mine : phase[u] \notin {"idle", "free"}}}
  <2>1. /\ slot' = [t \in Threads |-> IF t \in mine THEN None ELSE slot[t]]
        /\ phase' = [t \in Threads |-> IF t \in mine THEN "idle" ELSE phase[t]]
        /\ abandoned' = abandoned \union left
        /\ status' = status
    BY <1>18 DEF Restart
  <2>2. ASSUME NEW u \in mine, phase[u] \in AtWork \union {"fail"} PROVE slot[u] \in left
    BY <2>2
  <2> HIDE DEF mine, left
  <2> QED
    BY <2>1, <2>2 DEF RunningHasThread
<1>19. CASE UNCHANGED vars
  BY <1>19, KindOfJob DEF RunningHasThread, TypeOK
<1> QED
  BY <1>1, <1>2, <1>3, <1>4, <1>5, <1>6, <1>7, <1>8, <1>9, <1>10, <1>11, <1>12, <1>13, <1>14, <1>15, <1>16, <1>17, <1>18, <1>19 DEF Next, Run

(***************************************************************************)
(* The two rows and what is stored change together, in one transaction.    *)
(***************************************************************************)
LEMMA RowsStep ==
    ASSUME TypeOK, ThreadsOK, RowsAgree, [Next]_vars
    PROVE  RowsAgree'
<1> USE RouteAnalysisAssumption DEF vars, rowVars, threadVars, AtWork
<1>1. ASSUME NEW j \in Jobs, Import(j) PROVE RowsAgree'
  BY <1>1, KindOfJob DEF Import, RowsAgree, TypeOK, StillRunning, MayBeFailed, MayBeClaimed, ClaimSucceeds, Jobs, ThreadsOK, ThreadOK
<1>2. ASSUME NEW t \in Threads, NEW r \in Routes, NEW asked \in MatchRequests, Start(t, r, asked) PROVE RowsAgree'
  <2>1. UNCHANGED rowVars
    BY <1>2 DEF Start
  <2> QED
    BY <2>1 DEF RowsAgree
<1>3. ASSUME NEW t \in Threads, NEW s \in Sources, NEW r \in Routes, Start(t, s, r) PROVE RowsAgree'
  <2>1. UNCHANGED rowVars
    BY <1>3 DEF Start
  <2> QED
    BY <2>1 DEF RowsAgree
<1>4. ASSUME NEW t \in Threads, LockRefused(t) PROVE RowsAgree'
  <2>1. UNCHANGED rowVars
    BY <1>4 DEF LockRefused
  <2> QED
    BY <2>1 DEF RowsAgree
<1>5. ASSUME NEW t \in Threads, ClaimMatch(t) PROVE RowsAgree'
  BY <1>5, KindOfJob DEF ClaimMatch, Goto, SetStatus, RowsAgree, TypeOK, StillRunning, MayBeFailed, MayBeClaimed, ClaimSucceeds, Jobs, ThreadsOK, ThreadOK
<1>6. ASSUME NEW t \in Threads, ClaimProjection(t) PROVE RowsAgree'
  BY <1>6, KindOfJob DEF ClaimProjection, Goto, SetStatus, RowsAgree, TypeOK, StillRunning, MayBeFailed, MayBeClaimed, ClaimSucceeds, Jobs, ThreadsOK, ThreadOK
<1>7. ASSUME NEW t \in Threads, ClaimFails(t) PROVE RowsAgree'
  <2>1. UNCHANGED rowVars
    BY <1>7 DEF ClaimFails
  <2> QED
    BY <2>1 DEF RowsAgree
<1>8. ASSUME NEW t \in Threads, Match(t) PROVE RowsAgree'
  <2>1. UNCHANGED rowVars
    BY <1>8 DEF Match
  <2> QED
    BY <2>1 DEF RowsAgree
<1>9. ASSUME NEW t \in Threads, MatchFails(t) PROVE RowsAgree'
  <2>1. UNCHANGED rowVars
    BY <1>9 DEF MatchFails
  <2> QED
    BY <2>1 DEF RowsAgree
<1>10. ASSUME NEW t \in Threads, MatchPanics(t) PROVE RowsAgree'
  <2>1. UNCHANGED rowVars
    BY <1>10 DEF MatchPanics
  <2> QED
    BY <2>1 DEF RowsAgree
<1>11. ASSUME NEW t \in Threads, Project(t) PROVE RowsAgree'
  <2>1. UNCHANGED rowVars
    BY <1>11 DEF Project
  <2> QED
    BY <2>1 DEF RowsAgree
<1>12. ASSUME NEW t \in Threads, ProjectFails(t) PROVE RowsAgree'
  <2>1. UNCHANGED rowVars
    BY <1>12 DEF ProjectFails
  <2> QED
    BY <2>1 DEF RowsAgree
<1>13. ASSUME NEW t \in Threads, CompleteMatch(t) PROVE RowsAgree'
  <2>1. slot[t] \in Routes /\ slot[t] \in Jobs /\ slot[t] \notin Sources /\ basis[t] # None
    BY <1>13, KindOfJob DEF CompleteMatch, ThreadsOK, ThreadOK, Jobs, Matchers
  <2>2. /\ status' = [status EXCEPT ![slot[t]] = "complete"]
      /\ asset' = [asset EXCEPT ![slot[t]] = "complete"]
      /\ matcher' = [matcher EXCEPT ![slot[t]] = basis[t]]
      /\ UNCHANGED <<bound, projected>>
    BY <1>13 DEF CompleteMatch, SetStatus
  <2> QED
    BY <2>1, <2>2 DEF RowsAgree, TypeOK, Jobs
<1>14. ASSUME NEW t \in Threads, CompleteProjection(t) PROVE RowsAgree'
  <2>1. slot[t] \in Sources /\ slot[t] \in Jobs /\ slot[t] \notin Routes
    BY <1>14, KindOfJob DEF CompleteProjection, Jobs
  <2>2. /\ status' = [status EXCEPT ![slot[t]] = "complete"]
      /\ asset' = [asset EXCEPT ![slot[t]] = "complete"]
      /\ bound' = [bound EXCEPT ![slot[t]] = request[t]]
      /\ projected' = [projected EXCEPT ![slot[t]] = [route |-> request[t], points |-> basis[t]]]
      /\ UNCHANGED matcher
    BY <1>14 DEF CompleteProjection, SetStatus
  <2>3. [route |-> request[t], points |-> basis[t]] # None
    BY <1>14, KindOfJob DEF CompleteProjection, TypeOK, Matchers
  <2> QED
    BY <2>1, <2>2, <2>3 DEF RowsAgree, TypeOK, Jobs
<1>15. ASSUME NEW t \in Threads, CompleteFails(t) PROVE RowsAgree'
  <2>1. UNCHANGED rowVars
    BY <1>15 DEF CompleteFails
  <2> QED
    BY <2>1 DEF RowsAgree
<1>16. ASSUME NEW t \in Threads, Fail(t) PROVE RowsAgree'
  BY <1>16, KindOfJob DEF Fail, Goto, SetStatus, RowsAgree, TypeOK, StillRunning, MayBeFailed, MayBeClaimed, ClaimSucceeds, Jobs, ThreadsOK, ThreadOK
<1>17. ASSUME NEW t \in Threads, Free(t) PROVE RowsAgree'
  <2>1. UNCHANGED rowVars
    BY <1>17 DEF Free
  <2> QED
    BY <2>1 DEF RowsAgree
<1>18. ASSUME NEW i \in Instances, Restart(i) PROVE RowsAgree'
  <2>1. UNCHANGED rowVars
    BY <1>18 DEF Restart
  <2> QED
    BY <2>1 DEF RowsAgree
<1>19. CASE UNCHANGED vars
  BY <1>19, KindOfJob DEF RowsAgree, TypeOK, StillRunning, MayBeFailed, MayBeClaimed, ClaimSucceeds, Jobs, ThreadsOK, ThreadOK
<1> QED
  BY <1>1, <1>2, <1>3, <1>4, <1>5, <1>6, <1>7, <1>8, <1>9, <1>10, <1>11, <1>12, <1>13, <1>14, <1>15, <1>16, <1>17, <1>18, <1>19 DEF Next, Run

(***************************************************************************)
(* A match is recorded once, so what was read or projected from its points *)
(* stays what its route says.                                              *)
(***************************************************************************)
LEMMA BasisStep ==
    ASSUME TypeOK, ThreadsOK, RowsAgree, BasisIsCurrent, MatchedProjectionIsCurrent, [Next]_vars
    PROVE  (BasisIsCurrent /\ MatchedProjectionIsCurrent)'
<1> USE RouteAnalysisAssumption DEF vars, rowVars, threadVars, AtWork
<1>1. ASSUME NEW j \in Jobs, Import(j) PROVE (BasisIsCurrent /\ MatchedProjectionIsCurrent)'
  <2>1. UNCHANGED <<matcher, projected, basis, request>>
    BY <1>1 DEF Import
  <2>2. \A u \in Threads : phase'[u] \in AtWork => phase[u] \in AtWork
    BY <1>1 DEF Import, TypeOK
  <2> QED
    BY <2>1, <2>2 DEF BasisIsCurrent, MatchedProjectionIsCurrent
<1>2. ASSUME NEW t \in Threads, NEW r \in Routes, NEW asked \in MatchRequests, Start(t, r, asked) PROVE (BasisIsCurrent /\ MatchedProjectionIsCurrent)'
  BY <1>2, KindOfJob DEF Start, BasisIsCurrent, MatchedProjectionIsCurrent, TypeOK
<1>3. ASSUME NEW t \in Threads, NEW s \in Sources, NEW r \in Routes, Start(t, s, r) PROVE (BasisIsCurrent /\ MatchedProjectionIsCurrent)'
  BY <1>3, KindOfJob DEF Start, BasisIsCurrent, MatchedProjectionIsCurrent, TypeOK
<1>4. ASSUME NEW t \in Threads, LockRefused(t) PROVE (BasisIsCurrent /\ MatchedProjectionIsCurrent)'
  <2>1. UNCHANGED <<matcher, projected, basis, request>>
    BY <1>4 DEF LockRefused
  <2>2. \A u \in Threads : phase'[u] \in AtWork => phase[u] \in AtWork
    BY <1>4 DEF LockRefused, Goto, TypeOK
  <2> QED
    BY <2>1, <2>2 DEF BasisIsCurrent, MatchedProjectionIsCurrent
<1>5. ASSUME NEW t \in Threads, ClaimMatch(t) PROVE (BasisIsCurrent /\ MatchedProjectionIsCurrent)'
  BY <1>5, KindOfJob DEF ClaimMatch, Goto, SetStatus, BasisIsCurrent, MatchedProjectionIsCurrent, TypeOK
<1>6. ASSUME NEW t \in Threads, ClaimProjection(t) PROVE (BasisIsCurrent /\ MatchedProjectionIsCurrent)'
  BY <1>6, KindOfJob DEF ClaimProjection, Goto, SetStatus, BasisIsCurrent, MatchedProjectionIsCurrent, TypeOK
<1>7. ASSUME NEW t \in Threads, ClaimFails(t) PROVE (BasisIsCurrent /\ MatchedProjectionIsCurrent)'
  <2>1. UNCHANGED <<matcher, projected, basis, request>>
    BY <1>7 DEF ClaimFails
  <2>2. \A u \in Threads : phase'[u] \in AtWork => phase[u] \in AtWork
    BY <1>7 DEF ClaimFails, Fails, Goto, TypeOK
  <2> QED
    BY <2>1, <2>2 DEF BasisIsCurrent, MatchedProjectionIsCurrent
<1>8. ASSUME NEW t \in Threads, Match(t) PROVE (BasisIsCurrent /\ MatchedProjectionIsCurrent)'
  BY <1>8, KindOfJob DEF Match, Goto, BasisIsCurrent, MatchedProjectionIsCurrent, TypeOK
<1>9. ASSUME NEW t \in Threads, MatchFails(t) PROVE (BasisIsCurrent /\ MatchedProjectionIsCurrent)'
  <2>1. UNCHANGED <<matcher, projected, basis, request>>
    BY <1>9 DEF MatchFails
  <2>2. \A u \in Threads : phase'[u] \in AtWork => phase[u] \in AtWork
    BY <1>9 DEF MatchFails, Fails, Goto, TypeOK
  <2> QED
    BY <2>1, <2>2 DEF BasisIsCurrent, MatchedProjectionIsCurrent
<1>10. ASSUME NEW t \in Threads, MatchPanics(t) PROVE (BasisIsCurrent /\ MatchedProjectionIsCurrent)'
  <2>1. UNCHANGED <<matcher, projected, basis, request>>
    BY <1>10 DEF MatchPanics
  <2>2. \A u \in Threads : phase'[u] \in AtWork => phase[u] \in AtWork
    BY <1>10 DEF MatchPanics, Fails, Goto, TypeOK
  <2> QED
    BY <2>1, <2>2 DEF BasisIsCurrent, MatchedProjectionIsCurrent
<1>11. ASSUME NEW t \in Threads, Project(t) PROVE (BasisIsCurrent /\ MatchedProjectionIsCurrent)'
  <2>1. UNCHANGED <<matcher, projected, basis, request>>
    BY <1>11 DEF Project
  <2>2. \A u \in Threads : phase'[u] \in AtWork => phase[u] \in AtWork
    BY <1>11 DEF Project, Goto, TypeOK
  <2> QED
    BY <2>1, <2>2 DEF BasisIsCurrent, MatchedProjectionIsCurrent
<1>12. ASSUME NEW t \in Threads, ProjectFails(t) PROVE (BasisIsCurrent /\ MatchedProjectionIsCurrent)'
  <2>1. UNCHANGED <<matcher, projected, basis, request>>
    BY <1>12 DEF ProjectFails
  <2>2. \A u \in Threads : phase'[u] \in AtWork => phase[u] \in AtWork
    BY <1>12 DEF ProjectFails, Fails, Goto, TypeOK
  <2> QED
    BY <2>1, <2>2 DEF BasisIsCurrent, MatchedProjectionIsCurrent
<1>13. ASSUME NEW t \in Threads, CompleteMatch(t) PROVE (BasisIsCurrent /\ MatchedProjectionIsCurrent)'
  <2>1. /\ slot[t] \in Routes /\ status[slot[t]] = "running"
        /\ matcher' = [matcher EXCEPT ![slot[t]] = basis[t]]
        /\ UNCHANGED <<projected, basis, request>>
    BY <1>13, KindOfJob DEF CompleteMatch, StillRunning
  <2>2. matcher[slot[t]] = None
    BY <2>1 DEF RowsAgree
  <2>3. \A r \in Routes : matcher[r] # None => matcher'[r] = matcher[r]
    BY <2>1, <2>2 DEF TypeOK
  <2>4. \A u \in Threads : phase'[u] \in AtWork => phase[u] \in AtWork
    BY <1>13 DEF CompleteMatch, Committed, Fails, Goto, TypeOK
  <2>5. BasisIsCurrent'
    BY <2>1, <2>3, <2>4, KindOfJob DEF BasisIsCurrent
  <2>6. ASSUME NEW s \in Sources, projected[s] # None
        PROVE  projected[s].points \in {None, matcher'[projected[s].route]}
    <3>1. projected[s].route \in Routes
      BY <2>6 DEF TypeOK
    <3> QED
      BY <2>3, <2>6, <3>1 DEF MatchedProjectionIsCurrent
  <2> QED
    BY <2>1, <2>5, <2>6 DEF MatchedProjectionIsCurrent
<1>14. ASSUME NEW t \in Threads, CompleteProjection(t) PROVE (BasisIsCurrent /\ MatchedProjectionIsCurrent)'
  <2>1. /\ slot[t] \in Sources /\ phase[t] \in AtWork /\ t[2] = "projector"
        /\ projected' = [projected EXCEPT ![slot[t]] = [route |-> request[t], points |-> basis[t]]]
        /\ UNCHANGED <<matcher, basis, request>>
    BY <1>14, KindOfJob DEF CompleteProjection
  <2>2. basis[t] \in {None, matcher[request[t]]}
    BY <2>1 DEF BasisIsCurrent
  <2>3. \A u \in Threads : phase'[u] \in AtWork => phase[u] \in AtWork
    BY <1>14 DEF CompleteProjection, Committed, Fails, Goto, TypeOK
  <2>4. BasisIsCurrent'
    BY <2>1, <2>3 DEF BasisIsCurrent
  <2>5. MatchedProjectionIsCurrent'
    BY <2>1, <2>2 DEF MatchedProjectionIsCurrent, TypeOK
  <2> QED
    BY <2>4, <2>5
<1>15. ASSUME NEW t \in Threads, CompleteFails(t) PROVE (BasisIsCurrent /\ MatchedProjectionIsCurrent)'
  <2>1. UNCHANGED <<matcher, projected, basis, request>>
    BY <1>15 DEF CompleteFails
  <2>2. \A u \in Threads : phase'[u] \in AtWork => phase[u] \in AtWork
    BY <1>15 DEF CompleteFails, Fails, Goto, TypeOK
  <2> QED
    BY <2>1, <2>2 DEF BasisIsCurrent, MatchedProjectionIsCurrent
<1>16. ASSUME NEW t \in Threads, Fail(t) PROVE (BasisIsCurrent /\ MatchedProjectionIsCurrent)'
  <2>1. UNCHANGED <<matcher, projected, basis, request>>
    BY <1>16 DEF Fail
  <2>2. \A u \in Threads : phase'[u] \in AtWork => phase[u] \in AtWork
    BY <1>16 DEF Fail, Goto, TypeOK
  <2> QED
    BY <2>1, <2>2 DEF BasisIsCurrent, MatchedProjectionIsCurrent
<1>17. ASSUME NEW t \in Threads, Free(t) PROVE (BasisIsCurrent /\ MatchedProjectionIsCurrent)'
  BY <1>17, KindOfJob DEF Free, Goto, BasisIsCurrent, MatchedProjectionIsCurrent, TypeOK
<1>18. ASSUME NEW i \in Instances, Restart(i) PROVE (BasisIsCurrent /\ MatchedProjectionIsCurrent)'
  <2>1. /\ UNCHANGED rowVars
        /\ \A u \in Threads : phase'[u] \in AtWork =>
              phase[u] \in AtWork /\ basis'[u] = basis[u] /\ request'[u] = request[u]
    BY <1>18 DEF Restart
  <2> QED
    BY <2>1 DEF BasisIsCurrent, MatchedProjectionIsCurrent
<1>19. CASE UNCHANGED vars
  BY <1>19, KindOfJob DEF BasisIsCurrent, MatchedProjectionIsCurrent, TypeOK
<1> QED
  BY <1>1, <1>2, <1>3, <1>4, <1>5, <1>6, <1>7, <1>8, <1>9, <1>10, <1>11, <1>12, <1>13, <1>14, <1>15, <1>16, <1>17, <1>18, <1>19 DEF Next, Run

-----------------------------------------------------------------------------
(***************************************************************************)
(* The inductive invariant holds in every state.                           *)
(***************************************************************************)
THEOREM InvariantHolds == Spec => []IInv
<1>1. Init => IInv
  BY RouteAnalysisAssumption
  DEF Init, IInv, TypeOK, ThreadsOK, ThreadOK, Claimed, ClaimedOnce, RunningHasThread, RowsAgree,
      BasisIsCurrent, MatchedProjectionIsCurrent, Jobs, Threads, Statuses, Phases, AtWork
<1>2. TypeOK /\ ThreadsOK /\ TypeOK' /\ ThreadsOK' /\ IInv /\ [Next]_vars => IInv'
  BY ClaimedStep, RunningStep, RowsStep, BasisStep DEF IInv
<1> QED
  BY <1>1, <1>2, TypesAndThreads, PTL DEF Spec

(***************************************************************************)
(* Every variable keeps its type.                                          *)
(***************************************************************************)
THEOREM TypeCorrect == Spec => []TypeOK
BY InvariantHolds, PTL DEF IInv

(***************************************************************************)
(* One thread at most works on a job, in all instances together: the claims of *)
(* claim_route_match_job and claim_gis_projection_job take a queued row only. *)
(***************************************************************************)
THEOREM ClaimsExclude == Spec => []ClaimedOnce
BY InvariantHolds, PTL DEF IInv

(***************************************************************************)
(* A running row is ended by a thread that still works on it, unless its thread *)
(* was ended with its instance or could not write.                         *)
(***************************************************************************)
THEOREM RunningRowsHaveThreads == Spec => []RunningHasThread
BY InvariantHolds, PTL DEF IInv

(***************************************************************************)
(* The status of a job, that of its asset and the stored points or features *)
(* agree in every state.                                                   *)
(***************************************************************************)
THEOREM StoredResultsAgree == Spec => []RowsAgree
BY InvariantHolds, PTL DEF IInv

(***************************************************************************)
(* Features that were projected onto matched points are never behind the route. *)
(***************************************************************************)
THEOREM MatchedProjectionsStay == Spec => []MatchedProjectionIsCurrent
BY InvariantHolds, PTL DEF IInv

(***************************************************************************)
(* Every step of a manager or an instance is a step of the abstract job, or *)
(* leaves its row and what it advertises alone.                            *)
(***************************************************************************)
THEOREM AnalysisRefinesDurableJob == Spec => ImplementsDurableJob
<1> USE RouteAnalysisAssumption
<1> DEFINE Adv == [j \in Jobs |-> IF j \in Routes THEN matcher[j] # None ELSE projected[j] # None]
<1>1. Init => Promise!Init
  <2> SUFFICES ASSUME Init PROVE Promise!Init
    OBVIOUS
  <2>1. status \in [Jobs -> {"absent", "queued"}]
    BY DEF Init
  <2>2. Adv = [j \in Jobs |-> FALSE]
    BY DEF Init, Jobs
  <2> QED
    BY <2>1, <2>2 DEF Promise!Init
<1>2. IInv /\ IInv' /\ [Next]_vars => [Promise!Next]_(Promise!abstractVars)
  <2> SUFFICES ASSUME IInv, IInv', [Next]_vars
               PROVE  Promise!Next \/ UNCHANGED Promise!abstractVars
    OBVIOUS
  <2> USE DEF vars, rowVars, threadVars
  <2>1. /\ Adv = [j \in Jobs |-> status[j] = "complete"]
        /\ Adv' = [j \in Jobs |-> status'[j] = "complete"]
        /\ status \in [Jobs -> Statuses]
        /\ TypeOK /\ ThreadsOK
    BY DEF IInv, TypeOK, RowsAgree, Jobs
  <2>2. CASE UNCHANGED status
    BY <2>1, <2>2 DEF Promise!abstractVars
  <2>3. ASSUME NEW j \in Jobs, Import(j) PROVE Promise!Create(j)
    <3>1. status[j] = "absent" /\ status' = [status EXCEPT ![j] = "queued"]
      BY <2>3 DEF Import
    <3>2. Adv' = Adv
      BY <2>1, <3>1
    <3> QED
      BY <3>1, <3>2 DEF Promise!Create
  <2>4. ASSUME NEW t \in Threads, NEW j \in Jobs, j = slot[t], ClaimMatch(t) \/ ClaimProjection(t)
        PROVE  Promise!Claim(j)
    <3>1. status[j] = "queued" /\ status' = [status EXCEPT ![j] = "running"]
      BY <2>4 DEF ClaimMatch, ClaimProjection, ClaimSucceeds, MayBeClaimed, SetStatus
    <3>2. Adv' = Adv
      BY <2>1, <3>1
    <3> QED
      BY <3>1, <3>2 DEF Promise!Claim
  <2>5. ASSUME NEW t \in Threads, NEW j \in Jobs, j = slot[t], CompleteMatch(t) \/ CompleteProjection(t)
        PROVE  Promise!Complete(j)
    <3>1. status[j] = "running" /\ status' = [status EXCEPT ![j] = "complete"]
      BY <2>5 DEF CompleteMatch, CompleteProjection, StillRunning, SetStatus
    <3>2. Adv' = [Adv EXCEPT ![j] = TRUE]
      BY <2>1, <3>1
    <3> QED
      BY <3>1, <3>2 DEF Promise!Complete
  <2>6. ASSUME NEW t \in Threads, NEW j \in Jobs, j = slot[t], Fail(t), status' # status
        PROVE  Promise!Abort(j)
    <3>1. /\ phase[t] = "fail" /\ status[j] \in {"queued", "running"}
          /\ status' = [status EXCEPT ![j] = verdict[t]]
      BY <2>6 DEF Fail, Goto, MayBeFailed, SetStatus
    <3>2. verdict[t] \in {"failed", "blocked"}
      BY <2>1, <3>1 DEF ThreadsOK, ThreadOK
    <3>3. Adv' = Adv
      BY <2>1, <3>1, <3>2
    <3> QED
      BY <3>1, <3>2, <3>3 DEF Promise!Abort, Promise!Terminal
  <2>7. ASSUME NEW t \in Threads, Run(t), status' # status
        PROVE  Fail(t) \/ ClaimMatch(t) \/ ClaimProjection(t) \/ CompleteMatch(t) \/ CompleteProjection(t)
    BY <2>7 DEF Run, LockRefused, ClaimFails, Match, MatchFails, MatchPanics, Project, ProjectFails,
                CompleteFails, Free
  <2>8. ASSUME NEW t \in Threads, NEW j \in Jobs, NEW asked, Start(t, j, asked) PROVE UNCHANGED status
    BY <2>8 DEF Start
  <2>9. ASSUME NEW i \in Instances, Restart(i) PROVE UNCHANGED status
    BY <2>9 DEF Restart
  <2>10. ASSUME NEW t \in Threads, Run(t), status' # status PROVE Promise!Next
    <3>1. PICK j \in Jobs : j = slot[t]
      BY <2>1, <2>7, <2>10, KindOfJob
         DEF Fail, ClaimMatch, ClaimProjection, CompleteMatch, CompleteProjection, Goto
    <3>2. Promise!Claim(j) \/ Promise!Complete(j) \/ Promise!Abort(j)
      BY <2>4, <2>5, <2>6, <2>7, <2>10, <3>1
    <3> QED
      BY <3>2 DEF Promise!Next
  <2>11. CASE \E j \in Jobs : Import(j)
    BY <2>3, <2>11 DEF Promise!Next
  <2>12. CASE \E t \in Threads : Run(t)
    BY <2>2, <2>10, <2>12
  <2>13. CASE \E t \in Threads :
                 \/ \E r \in Routes, asked \in MatchRequests : Start(t, r, asked)
                 \/ \E s \in Sources, r \in Routes : Start(t, s, r)
    BY <2>2, <2>8, <2>13 DEF Jobs
  <2>14. CASE \E i \in Instances : Restart(i)
    BY <2>2, <2>9, <2>14
  <2> QED
    BY <2>2, <2>11, <2>12, <2>13, <2>14 DEF Next
<1> QED
  BY <1>1, <1>2, InvariantHolds, PTL DEF Spec, ImplementsDurableJob, Promise!Spec
=============================================================================
