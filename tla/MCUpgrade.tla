------------------------------ MODULE MCUpgrade ------------------------------
(* An instance of Upgrade with packages of up to nine bytes, sent in blocks *)
(* of three: sections of zero, one and two bytes with every remainder, and *)
(* packages that fill their last block or do not.                          *)
EXTENDS Upgrade

CONSTANTS r1, r2
=============================================================================
