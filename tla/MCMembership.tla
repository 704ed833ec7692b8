---------------------------- MODULE MCMembership ----------------------------
EXTENDS Membership, TLC

CONSTANTS a, b, c

\* The root starts without seeds, and each other node has one way in.
Chain == (a :> {}) @@ (b :> {a}) @@ (c :> {b})

\* Two paths that can be cut: messages between the three find a way round.
Detours == {<<a, c>>, <<c, b>>}
=============================================================================
