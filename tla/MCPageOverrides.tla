--------------------------- MODULE MCPageOverrides ---------------------------
(* An instance of PageOverrides for TLC: one override stands for those     *)
(* that are written alike.                                                 *)
EXTENDS PageOverrides

CoresAndWorkers == {"cores", "workers"}
TouchOnly == {"touch"}
CoresOnly == {"cores"}
BothHandlers == {"plain", "pausing"}
AppliedOnce == {"ua", "sensors"}
SentByWrapper == <<"ua", "cores", "touch">>
=============================================================================
