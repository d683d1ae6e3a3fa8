--------------------------- MODULE WaylandOutputsMC ---------------------------
\* WaylandOutputs with outputs that are all alike.
EXTENDS WaylandOutputs, TLC
OutputsAlike == Permutations(Outputs)
=============================================================================
