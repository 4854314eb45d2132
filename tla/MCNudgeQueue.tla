---------------------------- MODULE MCNudgeQueue ----------------------------
(* Model-checking instance of NudgeQueue: model values for the nudges and  *)
(* the drainers, which nothing tells apart.                                *)
EXTENDS NudgeQueue, TLC

Symmetric == Permutations(Nudges) \cup Permutations(Drainers)
=============================================================================
