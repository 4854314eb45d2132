---------------------------- MODULE MCPolecatPool ----------------------------
(* Model-checking instance of PolecatPool: model values for the processes, *)
(* which nothing tells apart.                                              *)
EXTENDS PolecatPool, TLC

Symmetric == Permutations(Slings)
=============================================================================
