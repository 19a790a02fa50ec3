------------------------------ MODULE MCRelay ------------------------------
(***************************************************************************)
(* Instances of Relay for TLC.  Uploads and requests are interchangeable,  *)
(* except where SizeOf tells uploads apart.                                *)
(***************************************************************************)
EXTENDS RelayProofs, RelayRefinement, TLC

CONSTANTS d1, d2, s1, s2, s3, u1, u2, r1, r2, r3, loop, cli

OneByte == [u \in Uploads |-> 1]
Unequal == [u \in Uploads |-> IF u = u1 THEN 2 ELSE 1]

Interchangeable == Permutations(Uploads) \cup Permutations(Requests)
=============================================================================
