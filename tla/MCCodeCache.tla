---------------------------- MODULE MCCodeCache ----------------------------
(***************************************************************************)
(* Small instances of CodeCache for TLC.                                   *)
(***************************************************************************)
EXTENDS CodeCache, TLC

JobSymmetry == Permutations(Job)
=============================================================================
