------------------------------ MODULE MCReader ------------------------------
(* The instance of Reader for TLC: messages without a body, and with one    *)
(* that does not fit in a buffer.                                          *)
EXTENDS Reader

MCLengths == {2, 5}
=============================================================================
