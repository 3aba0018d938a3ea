------------------------------ MODULE MCGarbage -------------------------------
(* Instances of Garbage for TLC. *)
EXTENDS Garbage

CONSTANTS b1, b2
===============================================================================
