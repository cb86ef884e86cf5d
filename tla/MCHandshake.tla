---------------------------- MODULE MCHandshake -----------------------------
(* The instance of Handshake for TLC. *)
EXTENDS Handshake, TLC

CONSTANTS u1, u2

MCCallers == {u1, u2}
CallerSymmetry == Permutations(MCCallers)
=============================================================================
