-------------------------- MODULE MCConvoyManager --------------------------
(* Model-checking instance of ConvoyManager: every issue has a rig of its   *)
(* own, and one issue blocks another.                                       *)
EXTENDS ConvoyManager, TLC

CONSTANTS i1, i2, r1, r2

OwnRig == i1 :> r1 @@ i2 :> r2
FirstBlocksSecond == i1 :> {} @@ i2 :> {i1}
Unblocked == i1 :> {} @@ i2 :> {}
=============================================================================
