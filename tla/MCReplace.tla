----------------------------- MODULE MCReplace ------------------------------
EXTENDS Replace, TLC
Symmetry == Permutations(Callers) \cup Permutations(Keys) \cup Permutations(Gates)
=============================================================================
