------------------------------ MODULE MCStorer ------------------------------
(* Instances of Storer for TLC: two key pairs, a pairing with a short name  *)
(* and one with a long name of one accessory.                               *)
EXTENDS Storer, TLC

CONSTANTS saver, deleter, acc, kp1, kp2, short, long

MCThreads  == {main, saver, deleter}
MCKeys     == {keypair, acc}
MCValues   == {kp1, kp2, short, long}
MCKeyPairs == {kp1, kp2}
MCSize     == [v \in MCValues |-> IF v = long THEN 2 ELSE 1]
=============================================================================
