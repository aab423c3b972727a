--------------------------- MODULE MCNccCompliance ---------------------------
(* Two jobs, at the same time or one after another, for one date or for two. *)
EXTENDS NccCompliance, TLC
CONSTANTS d1, d2
TwoDates == {d1, d2}
==============================================================================
