----------------------------- MODULE MCFallback -----------------------------
EXTENDS Fallback, TLC
CONSTANTS h1, h2

\* Two entries of one host, with another host in between.
ThreeGateways == <<h1, h2, h1>>

Symmetry == Permutations(Calls)
=============================================================================
