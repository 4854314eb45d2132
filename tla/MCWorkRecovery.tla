---------------------------- MODULE MCWorkRecovery ----------------------------
(* Model-checking instance of WorkRecovery: the polecat names are            *)
(* interchangeable for the safety properties.                                *)
EXTENDS WorkRecovery, TLC

Symmetric == Permutations(Polecats)
=============================================================================
