-------------------------- MODULE MCSignalingSession --------------------------
(* Small instances of SignalingSession for TLC. *)
EXTENDS SignalingSession, TLC

CONSTANTS c1, c2, c3

ThreeClients == {c1, c2, c3}
TwoClients == {c1, c2}

\* The clients are interchangeable; used for safety only.
Symmetry == Permutations(Clients)

=============================================================================
