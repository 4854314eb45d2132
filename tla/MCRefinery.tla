----------------------------- MODULE MCRefinery -----------------------------
(* Model-checking instance of Refinery: model values for the merge         *)
(* requests and the other pushers' changes.                                *)
EXTENDS Refinery, TLC

Symmetric == Permutations(MRs) \cup Permutations(Others)
=============================================================================
