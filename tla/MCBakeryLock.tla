---------------------------- MODULE MCBakeryLock ----------------------------
(* Three cores contend for one lock.                                       *)
EXTENDS BakeryFcfs
=============================================================================
