----------------------------- MODULE MCMiniFtp -----------------------------
(***************************************************************************)
(* MiniFtp for TLC.  The callers are interchangeable: none is named in     *)
(* Init, in the actions or in an invariant.                                *)
(***************************************************************************)
EXTENDS MiniFtp, TLC

TwoSizes == {1, 2}
CallerSymmetry == Permutations(Callers)
=============================================================================
