------------------------------ MODULE MCImmich ------------------------------
(***************************************************************************)
(* Values of Immich's constants for TLC.                                   *)
(***************************************************************************)
EXTENDS Immich, TLC

AssetSymmetry == Permutations(Asset)

=============================================================================
