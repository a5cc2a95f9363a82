------------------------- MODULE MCWmsConfirmation -------------------------
(* A small instance of WmsConfirmation: a row of a material execution, and *)
(* the one that asks again when the WMS says WAIT.                         *)
EXTENDS WmsConfirmation, TLC

CONSTANTS c1, c2, w1, w2

Chain == c1 :> c2
=============================================================================
