---------------------------- MODULE MCTaskRouting ----------------------------
EXTENDS TaskRouting, TLC

CONSTANTS n1, n2, r1, r2

\* Two requests with keys that the peer owns; each node has two points on the ring.
AtA == r1 :> n1 @@ r2 :> n1
PeerFirst == r1 :> <<n2, n1, n1, n2>> @@ r2 :> <<n2, n2, n1, n1>>
=============================================================================
