-------------------------- MODULE MCSignalingHistory --------------------------
(* Small instances of SignalingHistory for TLC. *)
EXTENDS MCSignalingSession, SignalingHistory

=============================================================================
