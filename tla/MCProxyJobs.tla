----------------------------- MODULE MCProxyJobs -----------------------------
(* Instances of ProxyJobs for the model checker. *)
EXTENDS ProxyJobs

CONSTANTS j1, j2

\* j1 is started twice and cancelled at any time; j2 is started once, competes for the
\* mutex, fails and panics, and is not cancelled
Bystander ==
    /\ starts[j2] <= 1
    /\ ~token[j2] /\ ~cancelRequested[j2] /\ cancelling # j2
=============================================================================
