----------------------------- MODULE MCAccount -----------------------------
(***************************************************************************)
(* Account for TLC.                                                        *)
(***************************************************************************)
EXTENDS Account, TLC

Symmetry == Permutations(Requests)
=============================================================================
