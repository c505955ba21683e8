----------------------------- MODULE MCJobRecord -----------------------------
(* Instances of JobRecord for the model checker. *)
EXTENDS JobRecord
=============================================================================
