-------------------------- MODULE MCDeviceSession --------------------------
(* Instances of DeviceSession for TLC.                                     *)
EXTENDS DeviceSession, TLC

CONSTANTS A, B, C

Profiles == {A, B, C}
WithoutMemory == {C}
BothDevices == BOOLEAN

(* What may be lost without harm: questions answered "no" for "yes".       *)
Questions == {"marker", "library", "config"}
=============================================================================
