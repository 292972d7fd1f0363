---------------------------- MODULE CaptureQueue ----------------------------
(***************************************************************************)
(* What the V4L2 capture queue promises the programs that share it.  A     *)
(* buffer goes from the user to the driver, waits there for its frame, and *)
(* is ready until the user takes it back.  Frames fill the buffer that has *)
(* waited longest, and only while the device captures; buffers without a   *)
(* frame come back only while it stops; the user takes what became ready   *)
(* first, and gets every buffer back at once when the stream is off.       *)
(***************************************************************************)
EXTENDS Sequences, SequencesExt

CONSTANT Buffers

VARIABLES
  mode,       \* "stopped", "capturing", "stopping"
  waiting,    \* buffers the driver has, in the order they were queued
  ready       \* buffers the user may take

vars == <<mode, waiting, ready>>

Init == mode = "stopped" /\ waiting = <<>> /\ ready = <<>>

Queue(b) ==
  /\ mode # "stopping"
  /\ b \notin ToSet(waiting) \cup ToSet(ready)
  /\ waiting' = Append(waiting, b)
  /\ UNCHANGED <<mode, ready>>

(* With the flag, all that is waiting is with the driver already. *)
Start == mode = "stopped" /\ mode' = "capturing" /\ UNCHANGED <<waiting, ready>>

Frame ==
  /\ mode = "capturing"
  /\ waiting # <<>>
  /\ ready' = Append(ready, Head(waiting))
  /\ waiting' = Tail(waiting)
  /\ UNCHANGED mode

Take ==
  /\ mode = "capturing"
  /\ ready # <<>>
  /\ ready' = Tail(ready)
  /\ UNCHANGED <<mode, waiting>>

Stop == mode = "capturing" /\ mode' = "stopping" /\ UNCHANGED <<waiting, ready>>

(* While stopping, a buffer may come back without its frame, and once.     *)
(* Nothing waits for a frame any more, so the rest of the line is kept as  *)
(* it is until all are taken back.                                         *)
Abort(b) ==
  /\ mode = "stopping"
  /\ b \in ToSet(waiting) \ ToSet(ready)
  /\ ready' = Append(ready, b)
  /\ UNCHANGED <<mode, waiting>>

(* STREAMOFF, also of a stream that was never started, and REQBUFS. *)
TakeBack == mode # "capturing" /\ mode' = "stopped" /\ waiting' = <<>> /\ ready' = <<>>

Next == \/ \E b \in Buffers : Queue(b) \/ Abort(b)
        \/ Start \/ Frame \/ Take \/ Stop \/ TakeBack

Spec == Init /\ [][Next]_vars
=============================================================================
