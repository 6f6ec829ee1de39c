---------------------------- MODULE MCDeviceGrant ----------------------------
(* Instances of DeviceGrant for TLC.                                       *)
EXTENDS DeviceGrant

MCTokens == 1 .. 2

=============================================================================
