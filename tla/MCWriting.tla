----------------------------- MODULE MCWriting ------------------------------
\* Limits for TLC: none (zero and below), the boundary cases of small content, and
\* one below the largest.
EXTENDS Writing

MCLimits == {-1, 0, 1, 2, 3, MaxInt - 1}

=============================================================================
