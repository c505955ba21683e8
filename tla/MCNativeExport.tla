--------------------------- MODULE MCNativeExport ---------------------------
EXTENDS NativeExport, TLC

CONSTANTS e1, e2, i1, i2, here, there

\* ids, instances and places are interchangeable
Symmetry == Permutations(Exports) \union Permutations(Instances) \union Permutations(Places)
\* bound: at most one export of a behaviour is beyond the reach of recovery, or
\* raced for by two instances
OneMishap == Cardinality(stranded) + Cardinality(contested) =< 1
=============================================================================
