------------------------------ MODULE MCEvents ------------------------------
(* The instance of Events for TLC: two accessories, each with one           *)
(* characteristic.                                                          *)
EXTENDS Events

CONSTANTS u1, u2

MCUsers == {u1, u2}
MCChars == {<<1, 1>>, <<2, 1>>}
=============================================================================
