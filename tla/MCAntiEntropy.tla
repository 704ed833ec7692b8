--------------------------- MODULE MCAntiEntropy ----------------------------
EXTENDS AntiEntropy, TLC

\* Nodes are interchangeable; keys are ordered.
Symmetry == Permutations(Nodes)
=============================================================================
