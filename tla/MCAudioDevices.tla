--------------------------- MODULE MCAudioDevices ---------------------------
(* AudioDevices with ids on both sides of every list, -1 and below it. *)
EXTENDS AudioDevices

DeviceIds == -2 .. 2

=============================================================================
