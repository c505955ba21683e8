--------------------------- MODULE MCRouteAnalysis ---------------------------
(* Instances of RouteAnalysis for the model checker. *)
EXTENDS RouteAnalysis, TLC

CONSTANTS r1, s1, i1, i2

\* managed Valhalla with a fallback, and a Valhalla that is not configured
Asked == {[preferred |-> "Valhalla", valhalla |-> "managed", osrm |-> TRUE],
          [preferred |-> "Valhalla", valhalla |-> "absent", osrm |-> FALSE]}

\* bound: at most two threads of the two instances are busy
TwoBusy == Cardinality({t \in Threads : slot[t] # None}) =< 2
=============================================================================
