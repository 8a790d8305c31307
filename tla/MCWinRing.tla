------------------------------ MODULE MCWinRing ------------------------------
(* Processes for the model-checked instance of WinRing.                    *)
EXTENDS WinRing

CONSTANTS c1, c2, t1
=============================================================================
