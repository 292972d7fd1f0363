--------------------------- MODULE CaptureLedger ---------------------------
(***************************************************************************)
(* What the Unicam capture driver promises the one program that controls   *)
(* it.  A capture session goes off -> starting -> on -> stopping -> off    *)
(* (or starting -> off when START_STREAM fails).  The camera ends frames   *)
(* only while the session is not off, every frame that is reported has     *)
(* ended and has not been reported before, and the counter user space      *)
(* reads grows by one per report and restarts from zero exactly when a     *)
(* session becomes on.                                                     *)
(***************************************************************************)
EXTENDS Naturals

CONSTANT MaxFrames      \* bound on the frames of a behaviour

VARIABLES
  session,    \* "off", "starting", "on", "stopping"
  produced,   \* frames the camera ended
  reported,   \* frames reported to user space
  count       \* reports since the session became on, as user space reads it

vars == <<session, produced, reported, count>>

Init ==
  /\ session = "off"
  /\ produced = 0
  /\ reported = 0
  /\ count = 0

(* The camera ends a frame: never while the session is off. *)
Produce ==
  /\ session # "off"
  /\ produced < MaxFrames
  /\ produced' = produced + 1
  /\ UNCHANGED <<session, reported, count>>

(* A frame that ended and was not reported is reported.  This may come    *)
(* late, even after the session is off again.                             *)
Report ==
  /\ reported < produced
  /\ reported' = reported + 1
  /\ count' = count + 1
  /\ UNCHANGED <<session, produced>>

Move(from, to) ==
  /\ session = from
  /\ session' = to
  /\ UNCHANGED <<produced, reported>>

Start       == Move("off", "starting") /\ UNCHANGED count
StartFailed == Move("starting", "off") /\ UNCHANGED count
Started     == Move("starting", "on") /\ count' = 0
Stop        == Move("on", "stopping") /\ UNCHANGED count
Stopped     == Move("stopping", "off") /\ UNCHANGED count

Next == Produce \/ Report \/ Start \/ StartFailed \/ Started \/ Stop \/ Stopped

Spec == Init /\ [][Next]_vars
=============================================================================
