---------------------------- MODULE MCDraftSync ----------------------------
\* DraftSync for TLC: the names of the channels do not matter to its properties.
EXTENDS DraftSync, TLC

Symmetry == Permutations(Channels)
=============================================================================
