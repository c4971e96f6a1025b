---------------------------- MODULE MCHostLinks ----------------------------
(* Two devices, two ports, two upstreams that need a bridge, on different  *)
(* ports or the same, and one that does not.                               *)
EXTENDS HostLinks, TLC

CONSTANTS d1, d2, p1, p2, u1, u2, u3, b1, b2, z1, z2

Devices == {d1, d2}
Ports == {p1, p2}
Upstreams == {u1, u2, u3}
NeedBridge == {u1, u2}
BridgePorts == {b1, b2}
Zones == {z1, z2}
Other == {z2}
AllMaps == [NeedBridge -> BridgePorts]
Alike == Permutations(Devices) \cup Permutations(Ports) \cup
         Permutations(NeedBridge) \cup Permutations(BridgePorts)
=============================================================================
