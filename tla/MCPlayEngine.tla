---------------------------- MODULE MCPlayEngine ----------------------------
(* PlayEngine as TLC checks it: the constants are given in each .cfg. *)
EXTENDS PlayEngine
=============================================================================
