-------------------------- MODULE MCCausalCluster ---------------------------
EXTENDS CausalCluster, TLC

CONSTANTS n1, n2, n3

\* Every node but the router replicates every key.
Three == [k \in Keys |-> <<n1, n2, n3>>]
Two == [k \in Keys |-> <<n1, n2>>]

\* Replicas, sessions and keys are interchangeable: what is forwarded to the first
\* replica of a key could also have been sent to it.
Symmetry == Permutations(Nodes) \cup Permutations(Sessions) \cup Permutations(Keys)
=============================================================================
