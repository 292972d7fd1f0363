------------------------- MODULE MCUnicamLifecycle -------------------------
(* Instances of UnicamLifecycle for TLC.  The users are not                *)
(* interchangeable: only some of them stream.                              *)
EXTENDS UnicamLifecycle
=============================================================================
