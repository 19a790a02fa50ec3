---------------------------- MODULE MCSenderPage ----------------------------
(***************************************************************************)
(* Instances of SenderPage for TLC.  Submission ids, ciphertexts and       *)
(* batches are interchangeable.                                            *)
(***************************************************************************)
EXTENDS SenderPage, TLC

CONSTANTS d1, s1, s2, s3, x1, x2, x3, b1, b2

Interchangeable == Permutations(SubIds) \cup Permutations(Contents) \cup Permutations(Batches)
=============================================================================
