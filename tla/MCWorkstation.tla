---------------------------- MODULE MCWorkstation ----------------------------
(* Instances of Workstation for the model checker. *)
EXTENDS Workstation

CONSTANTS p1, p2, j1, j2, t0, t1
=============================================================================
