------------------------------- MODULE MCTspd -------------------------------
(* Values for TLC: operands of calls that differ, EL1                        *)
(* registers whose loss can be told.                                         *)
EXTENDS Tspd, TLC
=============================================================================
