-------------------------- MODULE MCCameraBuffers --------------------------
(* Instances of CameraBuffers for TLC.  Buffers and threads are model      *)
(* values and, where only safety is checked, interchangeable.              *)
EXTENDS CameraBuffers

SmallSymmetry == Permutations(Buffers) \cup Permutations(Threads)
=============================================================================
