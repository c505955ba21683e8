----------------------------- MODULE DurableJob -----------------------------
(***************************************************************************)
(* What every background job of RoadWatcher promises about its row in the  *)
(* project database and the artifact the row advertises: a job is created  *)
(* queued, is claimed before it runs, ends in one terminal status, and     *)
(* advertises its artifact exactly when it is complete.  The promise is    *)
(* silent about threads, processes and files; the modules of the workers   *)
(* implement it.                                                           *)
(*                                                                         *)
(* Claimable and Abortable are the statuses a worker may claim from and    *)
(* fail from: the workers of the program differ only there.                *)
(***************************************************************************)
CONSTANTS Jobs, Claimable, Abortable

VARIABLES status,     \* the status column of the job row, "absent" before the insert
          advertised  \* whether the store offers the finished artifact of the job

abstractVars == <<status, advertised>>

Terminal == {"complete", "blocked", "failed", "cancelled"}
Statuses == {"absent", "queued", "running"} \union Terminal

Init ==
    /\ status \in [Jobs -> {"absent", "queued"}]
    /\ advertised = [j \in Jobs |-> FALSE]

Create(j) ==
    /\ status[j] = "absent"
    /\ status' = [status EXCEPT ![j] = "queued"]
    /\ UNCHANGED advertised

Claim(j) ==
    /\ status[j] \in Claimable
    /\ status' = [status EXCEPT ![j] = "running"]
    /\ UNCHANGED advertised

Complete(j) ==
    /\ status[j] = "running"
    /\ status' = [status EXCEPT ![j] = "complete"]
    /\ advertised' = [advertised EXCEPT ![j] = TRUE]

Abort(j) ==
    /\ status[j] \in Abortable
    /\ \E outcome \in Terminal \ {"complete"} :
           status' = [status EXCEPT ![j] = outcome]
    /\ UNCHANGED advertised

Next == \E j \in Jobs : Create(j) \/ Claim(j) \/ Complete(j) \/ Abort(j)

Spec == Init /\ [][Next]_abstractVars
=============================================================================
