--------------------------- MODULE MCCameraProbe ---------------------------
(* Instances of CameraProbe for TLC.  Users are model values and           *)
(* interchangeable.                                                        *)
EXTENDS CameraProbe, TLC

UserSymmetry == Permutations(Users)
=============================================================================
