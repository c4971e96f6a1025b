--------------------------- MODULE MCDamruPoolSync ---------------------------
(* Small instances of DamruPoolSync for TLC.                               *)
EXTENDS DamruPoolSync, TLC

(* Sessions differ only by name.  Used by safety runs only.                *)
Sessions == Permutations(Session)
=============================================================================
