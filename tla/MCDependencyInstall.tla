------------------------- MODULE MCDependencyInstall -------------------------
(* Instances of DependencyInstall for the model checker. *)
EXTENDS DependencyInstall, TLC

CONSTANTS base, wheel, stray, j1, j2

\* wheel is built with the interpreter of base
CatalogDependencies == base :> {} @@ wheel :> {base} @@ stray :> {}

\* an update of a component, and a component that needs it before one whose
\* place is taken
CatalogRequests == {<<base>>, <<wheel, stray>>}
=============================================================================
