---------------------------- MODULE MCPowerLoss ----------------------------
(* One submission of one drop point, every actor of the server once. *)
EXTENDS PowerLossProofs

CONSTANTS d1, s1, u1, u2, r1, r2, loop

OneByte == [u \in Uploads |-> 1]
=============================================================================
