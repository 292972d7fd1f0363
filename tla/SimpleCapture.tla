--------------------------- MODULE SimpleCapture ---------------------------
(***************************************************************************)
(* The repository's test client, test/simple_capture.c, on the driver of   *)
(* CameraBuffers: it sets the format, asks for buffers, queues them in the *)
(* order of their indices, starts the stream, and then for every frame     *)
(* takes a buffer and queues the same one again; it stops the stream and   *)
(* closes the device.  The client is the only program that has the device  *)
(* open.                                                                   *)
(*                                                                         *)
(* On the driver as it is, the client does not get that far: its second    *)
(* call follows a NULL in the kernel (SetFormat).  What comes after is     *)
(* what it does on a driver in which that one call works (DrvdataSet).     *)
(*                                                                         *)
(* Its own state is where it is and which buffer it has in hand.  What the *)
(* calls do is in CameraBuffers; a call of the client conjoins the call    *)
(* with the client's place in its program.                                 *)
(***************************************************************************)
EXTENDS CameraBuffers

CONSTANTS
  Client,       \* the only thread
  ByIndex,      \* the buffers in the order of their indices
  NumFrames,    \* num_frames of main
  DrvdataSet    \* video_drvdata of the node is set; in the repository it is not

ASSUME ClientAssumption ==
  /\ Threads = {Client}
  /\ ByIndex \in Seq(Buffers) /\ Len(ByIndex) >= 2
  /\ ToSet(ByIndex) = Buffers /\ IsInjective(ByIndex)
  /\ NumFrames \in Nat
  /\ DrvdataSet \in BOOLEAN

VARIABLES
  at,           \* where the client is
  index,        \* buffers queued by start_capturing so far
  inHand,       \* the buffer capture_frame has dequeued and not yet queued
  frames,       \* frames captured
  errors        \* calls that failed

clientVars == <<at, index, inHand, frames, errors>>
allVars == <<vars, clientVars>>

ClientInit ==
  /\ Init
  /\ at = "init_device" /\ index = 0 /\ inHand = NoBuffer /\ frames = 0 /\ errors = 0

(* The client is in user space, at a place of its program. *)
Here(place) == at = place /\ pc[Client] = "idle" /\ Running

-----------------------------------------------------------------------------
(* init_device.  A failure ends the program.  VIDIOC_S_FMT copies the      *)
(* format to where video_drvdata says the structure of the driver is.      *)
(* Where that is NULL the kernel kills the client in the call, which holds *)
(* the lock of the device: it makes no other.                              *)
SetFormat ==
  /\ Here("init_device")
  /\ at' = IF DrvdataSet THEN "format_set" ELSE "killed"
  /\ UNCHANGED <<vars, index, inHand, frames, errors>>

RequestBuffers ==
  /\ Here("format_set")
  /\ Reqbufs(Client)
  /\ at' = "start_capturing"
  /\ UNCHANGED <<index, inHand, frames, errors>>

(* start_capturing. *)
QueueNext ==
  /\ Here("start_capturing") /\ index < Len(ByIndex)
  /\ QbufCall(Client, ByIndex[index + 1])
  /\ index' = index + 1
  /\ UNCHANGED <<at, inHand, frames, errors>>

StreamOn ==
  /\ Here("start_capturing") /\ index = Len(ByIndex)
  /\ StreamOnCall(Client)
  /\ at' = "capture_frame"
  /\ UNCHANGED <<index, inHand, frames, errors>>

CapturesOneMore == frames <= NumFrames
CapturesMore == frames < NumFrames

(* capture_frame: VIDIOC_DQBUF; the client then has the buffer that Take   *)
(* gave it.                                                                *)
Dequeue ==
  /\ Here("capture_frame") /\ CapturesMore
  /\ DqbufCall(Client)
  /\ at' = "dequeued"
  /\ UNCHANGED <<index, inHand, frames, errors>>

(* ... and VIDIOC_QBUF with the same struct v4l2_buffer, so of the same    *)
(* buffer.  It is refused if the core does not think that the buffer is    *)
(* the client's; the client goes on all the same.                          *)
ClearedBuf == ByIndex[1]
Filled == inHand

RequeueSkipped(b) == UNCHANGED vars
Requeue(b) == QbufCall(Client, b)

Queue ==
  /\ Here("dequeued")
  /\ IF state[Filled] = "dequeued"
     THEN Requeue(Filled) /\ UNCHANGED errors
     ELSE UNCHANGED vars /\ errors' = errors + 1
  /\ inHand' = NoBuffer
  /\ frames' = frames + 1
  /\ at' = "capture_frame"
  /\ UNCHANGED index

(* stop_capturing, and vb2_fop_release at the close: there is nothing left *)
(* for it to do after STREAMOFF.                                           *)
StreamOff ==
  /\ Here("capture_frame") /\ ~CapturesMore
  /\ StreamOffCall(Client)
  /\ at' = "stop_capturing"
  /\ UNCHANGED <<index, inHand, frames, errors>>

Exit ==
  /\ Here("stop_capturing")
  /\ at' = "done"
  /\ UNCHANGED <<vars, index, inHand, frames, errors>>

(* The kernel's part of a call; the buffer that DQBUF takes is the         *)
(* client's from then on.                                                  *)
Kernel ==
  /\ Inside(Client)
  /\ inHand' = IF done' # done /\ pc[Client] = "dqbuf" THEN Head(done) ELSE inHand
  /\ UNCHANGED <<at, index, frames, errors>>

Program == \/ SetFormat
           \/ RequestBuffers \/ QueueNext \/ StreamOn \/ Dequeue \/ Queue \/ StreamOff \/ Exit

ClientNext == Program \/ Kernel \/ (Interrupt /\ UNCHANGED clientVars)

ClientSpec == ClientInit /\ [][ClientNext]_allVars

(* The client goes on, a call in the kernel goes on, frames keep coming.   *)
FairClientSpec ==
  ClientSpec /\ WF_allVars(Program) /\ WF_allVars(Kernel)
             /\ WF_allVars(Interrupt /\ UNCHANGED clientVars)

-----------------------------------------------------------------------------
ClientTypeOK ==
  /\ at \in {"init_device", "killed", "format_set", "start_capturing", "capture_frame",
             "dequeued", "stop_capturing", "done"}
  /\ index \in 0 .. Len(ByIndex) /\ frames \in 0 .. NumFrames /\ errors \in Nat
  /\ inHand \in Buffers \cup {NoBuffer}

(* The client sees its buffers in turn, by their indices and round again,  *)
(* although the driver only ever asks for the head of a list that it does  *)
(* not own, and the driver's own list is corrupt as soon as the first      *)
(* buffer is queued again.                                                 *)
BuffersRotate ==
  inHand # NoBuffer => inHand = ByIndex[1 + (frames % Len(ByIndex))]

(* No call of the loop is refused: the buffer the client has in hand is    *)
(* its own for the core too when the client comes back from DQBUF, and the *)
(* handler, which renumbers whatever is at the head of the queued list,    *)
(* cannot reach it any more.                                               *)
InHandIsFree ==
  /\ errors = 0
  /\ Here("dequeued") => /\ inHand # NoBuffer
                         /\ state[inHand] = "dequeued"
                         /\ inHand \notin ToSet(queued) \cup ToSet(done)

(* A client that waits in DQBUF gets a buffer, in every round: the handler *)
(* finishes the head of a list of the core, and the client itself has to   *)
(* fill that list again, for nobody else does.  Excepted is a client that  *)
(* the bound on frames keeps waiting.                                      *)
InDequeue == at = "dequeued" /\ inHand = NoBuffer
Starved == at = "dequeued" /\ done = <<>> /\ frame_count = MaxFrames
FrameServed == InDequeue ~> (~InDequeue \/ Starved)
=============================================================================
