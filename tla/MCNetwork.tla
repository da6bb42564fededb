------------------------------ MODULE MCNetwork ------------------------------
(***************************************************************************)
(* Instances of Network for TLC: one with a hidden layer, one without.     *)
(***************************************************************************)
EXTENDS Network

TwoShapes == {<<1, 1, 1>>, <<2, 1>>}
=============================================================================
