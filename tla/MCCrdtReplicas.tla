--------------------------- MODULE MCCrdtReplicas ---------------------------
(* CrdtReplicas for TLC: nodes, and elements, are interchangeable. *)
EXTENDS CrdtReplicas, TLC

Symmetry == Permutations(Nodes) \cup Permutations(Elements)
=============================================================================
