-------------------------- MODULE MCReceiverClient --------------------------
(***************************************************************************)
(* Instances of ReceiverClient for TLC.  Commands are interchangeable.     *)
(***************************************************************************)
EXTENDS ReceiverClient, TLC

CONSTANTS d1, d2, s1, s2, c1, c2, good, bad

Interchangeable == Permutations(Commands)
=============================================================================
