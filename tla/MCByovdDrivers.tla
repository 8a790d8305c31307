---------------------------- MODULE MCByovdDrivers ----------------------------
(* Processes for the model-checked instances of ByovdDrivers.              *)
EXTENDS ByovdDrivers

CONSTANTS g1, g2, u1, c1
=============================================================================
