--------------------------- MODULE MCUnicamStream ---------------------------
(* Instances of UnicamStream for TLC.  Threads are model values; those of  *)
(* one role are interchangeable, and safety runs with several of them use  *)
(* the symmetry.                                                           *)
EXTENDS UnicamStream, TLC

ThreadSymmetry ==
  Permutations(Controllers) \cup Permutations(Threads \ Controllers)
=============================================================================
