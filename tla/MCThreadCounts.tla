--------------------------- MODULE MCThreadCounts ---------------------------
\* ThreadCounts, whose threads are interchangeable.
EXTENDS ThreadCounts, TLC

Symmetry == Permutations(Threads)
=============================================================================
