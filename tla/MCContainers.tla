---------------------------- MODULE MCContainers ----------------------------
(* Instances of Containers for TLC.                                        *)
EXTENDS Containers

WithoutHal == {Raw, Old}
HalAlways == {TRUE}
Apks == <<{"split", "single"}, {"split", "nothing"}>>
AllButImage == {"state", "hal", "chrome"}
=============================================================================
