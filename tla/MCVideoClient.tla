---------------------------- MODULE MCVideoClient ----------------------------
(* VideoClient with a frame of the camera and two of the remote peer. *)
EXTENDS VideoClient

FewFrames == [local |-> 1, remote |-> 2]

=============================================================================
