----------------------------- MODULE MCSession -----------------------------
(* Instances of Session for TLC: two callers of one roundTripper, and one who *)
(* still goes through another.                                                *)
EXTENDS Session, TLC

CONSTANTS u, v, o

ThreeWriters == {u, v, o}
TwoTrippers  == [w \in ThreeWriters |-> IF w = o THEN 0 ELSE 1]
=============================================================================
