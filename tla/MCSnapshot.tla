----------------------------- MODULE MCSnapshot -----------------------------
EXTENDS Snapshot, TLC
Symmetry == Permutations(Nodes) \cup Permutations(Peers \ Configured)
=============================================================================
