---------------------------- MODULE MCDamruPool ----------------------------
(* Small instances of DamruPool for TLC.                                   *)
EXTENDS DamruPool, TLC

(* The sessions differ only by name; the slots are ordered and are not     *)
(* symmetric.  Used by safety runs only.                                   *)
Sessions == Permutations(Session)
=============================================================================
