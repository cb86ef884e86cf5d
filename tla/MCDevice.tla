------------------------------ MODULE MCDevice ------------------------------
(* Instances of Device for TLC. *)
EXTENDS Device, TLC

\* Goroutines are alike.
LoopSymmetry == Permutations(Loops)
=============================================================================
