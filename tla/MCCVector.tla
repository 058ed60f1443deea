----------------------------- MODULE MCCVector -----------------------------
(* The vector with a block of two slots to begin with. *)
EXTENDS CVector
=============================================================================
