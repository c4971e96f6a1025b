----------------------------- MODULE MCFirewall -----------------------------
(* Two browsers in one network namespace, with the same or with different  *)
(* user ids.                                                               *)
EXTENDS Firewall, TLC

CONSTANTS c1, c2

Clients == {c1, c2}
Either  == Permutations(Clients)
OneOrTwo == {u \in [Clients -> {1, 2}] : \E c \in Clients : u[c] = 1}
=============================================================================
