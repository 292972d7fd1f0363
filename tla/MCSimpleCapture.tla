-------------------------- MODULE MCSimpleCapture --------------------------
(* Instances of SimpleCapture for TLC. *)
EXTENDS SimpleCapture

CONSTANTS b1, b2, b3
TwoBuffers == <<b1, b2>>
ThreeBuffers == <<b1, b2, b3>>
=============================================================================
