----------------------------- MODULE MCDeviceAgent -----------------------------
(* Small instances of DeviceAgent for TLC. *)
EXTENDS DeviceAgent, TLC

CONSTANTS b1, b2, s1, s2, s3, s4

AnyStaging == Permutations(Stagings)
=============================================================================
