---------------------------- MODULE MCApiTokens ----------------------------
(***************************************************************************)
(* Instances of ApiTokens for TLC.                                         *)
(***************************************************************************)
EXTENDS ApiTokens, TLC

Interchangeable == Permutations(Secrets) \cup Permutations(Operators)
                     \cup Permutations(Creators) \cup Permutations(DropPoints)
=============================================================================
