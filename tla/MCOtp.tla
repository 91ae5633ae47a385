-------------------------------- MODULE MCOtp --------------------------------
(***************************************************************************)
(* Otp for TLC.                                                            *)
(***************************************************************************)
EXTENDS Otp, TLC

Symmetry ==
    UNION {Permutations(S) : S \in {Purposes, Codes, Generators, Verifiers}}
=============================================================================
