--------------------------- MODULE CameraBuffers ---------------------------
(***************************************************************************)
(* The V4L2 driver's buffers: the vb2 callbacks of camera_vb2.c and the    *)
(* interrupt handler of camera_irq.c, with the videobuf2 core that calls   *)
(* the ones and is called by the other, and user threads that queue and    *)
(* dequeue buffers and switch the stream on and off.                       *)
(*                                                                         *)
(* A buffer is on up to three lists: vb2's queued list, from QBUF until    *)
(* DQBUF; vb2's done list; and the driver's own list cam->queued_list,     *)
(* kept here with its pointers because nothing takes a buffer off it       *)
(* before the stream stops.                                                *)
(*                                                                         *)
(* The handler is one step.  On a uniprocessor no thread runs while it     *)
(* does, and it does not run inside the core's done_lock sections, which   *)
(* are one step each here.  On a multiprocessor the handler takes          *)
(* done_lock and vb2_buffer_done takes it again (Smp).                     *)
(***************************************************************************)
EXTENDS KernelList, Naturals, Sequences, SequencesExt

CONSTANTS
  Buffers,      \* the buffers REQBUFS allocated
  Threads,      \* user threads
  Smp,          \* spinlocks spin (more than one processor)
  Unlocks,      \* the vb2 core releases q->lock for a waiting DQBUF although
                \* the driver has no wait_prepare (newer kernels)
  MaxFrames     \* bound on cam->frame_count

ASSUME BufferAssumption ==
  /\ Smp \in BOOLEAN /\ Unlocks \in BOOLEAN
  /\ MaxFrames \in Nat

(* videobuf2 *)
VARIABLES
  state,        \* vb->state
  queued,       \* q->queued_list
  done,         \* q->done_list
  on,           \* q->streaming
  called        \* q->start_streaming_called

(* struct camera_dev and struct camera_buffer *)
VARIABLES
  links,        \* cam->queued_list and the list field of every buffer
  streaming,    \* cam->streaming
  frame_count,  \* cam->frame_count
  sequence      \* vbuf->sequence

(* the processors *)
VARIABLES
  spinning,     \* a processor spins on done_lock, which it holds
  crashed,      \* a processor has followed a poisoned pointer
  lock,         \* holder of q->lock
  pc,           \* where each thread is
  buf,          \* the buffer a thread is at
  ahead         \* the next buffer of the walk in stop_streaming

(* history *)
VARIABLES
  delivered,    \* buffers dequeued since the stream was switched on
  last,         \* the sequence number of the last of them
  requeued      \* buf_queue has listed a buffer that was still listed

coreVars == <<state, queued, done, on, called>>
devVars == <<links, streaming, frame_count, sequence>>
cpuVars == <<spinning, crashed>>
threadVars == <<lock, pc, buf, ahead>>
histVars == <<delivered, last, requeued>>
vars == <<coreVars, devVars, cpuVars, threadVars, histVars>>

Free == "free"
NoBuffer == "none"

ASSUME NamesAreApart == Free \notin Threads /\ Buffers \cap {NoBuffer, Head0, Poison} = {}

Init ==
  /\ state = [b \in Buffers |-> "dequeued"]
  /\ queued = <<>> /\ done = <<>> /\ on = FALSE /\ called = FALSE
  /\ links = EmptyList(Buffers)
  /\ streaming = FALSE /\ frame_count = 0 /\ sequence = [b \in Buffers |-> 0]
  /\ spinning = FALSE /\ crashed = FALSE
  /\ lock = Free /\ pc = [t \in Threads |-> "idle"]
  /\ buf = [t \in Threads |-> NoBuffer] /\ ahead = NoBuffer
  /\ delivered = 0 /\ last = 0 /\ requeued = FALSE

-----------------------------------------------------------------------------
(* Nothing runs any more once a processor has oopsed or spins for ever.    *)
(* Every ioctl takes q->lock and gives it back.                            *)

Running == ~crashed /\ ~spinning

Goto(t, from, to) == Running /\ pc[t] = from /\ pc' = [pc EXCEPT ![t] = to]
Enter(t, to) == lock = Free /\ lock' = t /\ Goto(t, "idle", to)
Leave(t, from) == lock' = Free /\ Goto(t, from, "idle")

(* vb2_buffer_done refuses a buffer the driver does not own. *)
Completed(b, result) ==
  IF state[b] = "active"
  THEN state' = [state EXCEPT ![b] = result] /\ done' = Append(done, b)
  ELSE UNCHANGED <<state, done>>

-----------------------------------------------------------------------------
(* VIDIOC_REQBUFS, with the queue's lock from begin to end.  The core      *)
(* takes every buffer back, frees them all and allocates as many as        *)
(* queue_setup leaves it, which is what was asked for.  Nobody asks the    *)
(* driver whether its list still has a freed buffer: if so, the kernel     *)
(* may crash at once or find the new buffers at the places of the old.     *)

Reqbufs(t) ==
  /\ Running /\ pc[t] = "idle" /\ lock = Free
  /\ ~on /\ \A u \in Threads : pc[u] # "sleep"
  /\ state' = [b \in Buffers |-> "dequeued"]
  /\ queued' = <<>> /\ done' = <<>>
  /\ sequence' = [b \in Buffers |-> 0]
  /\ links' = [EmptyList(Buffers) EXCEPT ![Head0] = links[Head0]]
  /\ \/ UNCHANGED crashed
     \/ links[Head0].next # Head0 /\ crashed' = TRUE
  /\ UNCHANGED <<on, called, streaming, frame_count, spinning, threadVars, histVars>>

-----------------------------------------------------------------------------
(* VIDIOC_QBUF.                                                            *)

QbufCall(t, b) ==
  /\ state[b] = "dequeued"
  /\ state' = [state EXCEPT ![b] = "queued"]
  /\ queued' = Append(queued, b)
  /\ IF called
     THEN Enter(t, "activate") /\ buf' = [buf EXCEPT ![t] = b]
     ELSE Running /\ lock = Free /\ pc[t] = "idle" /\ UNCHANGED <<lock, pc, buf>>
  /\ UNCHANGED <<done, on, called, devVars, cpuVars, ahead, histVars>>

(* The core hands the buffer over to the driver ... *)
Activate(t) ==
  /\ Goto(t, "activate", "buf_queue")
  /\ state' = [state EXCEPT ![buf[t]] = "active"]
  /\ UNCHANGED <<queued, done, on, called, devVars, cpuVars, lock, buf, ahead, histVars>>

(* ... and calls buf_queue, which adds it to the driver's list without     *)
(* asking whether it is on it.                                             *)
Listed(b) ==
  /\ links' = AddTail(links, b)
  /\ requeued' = (requeued \/ links[b].next # Poison)

BufQueue(t) ==
  /\ Leave(t, "buf_queue")
  /\ Listed(buf[t])
  /\ buf' = [buf EXCEPT ![t] = NoBuffer]
  /\ UNCHANGED <<coreVars, streaming, frame_count, sequence, cpuVars, ahead, delivered, last>>

-----------------------------------------------------------------------------
(* VIDIOC_STREAMON.                                                        *)

StreamOnCall(t) ==
  /\ ~on
  /\ Enter(t, "enqueue")
  /\ UNCHANGED <<coreVars, devVars, cpuVars, buf, ahead, histVars>>

(* Every queued buffer is handed over; the handler ignores interrupts yet. *)
Enqueue(t) ==
  /\ Running /\ pc[t] = "enqueue"
  /\ \E i \in 1 .. Len(queued) :
       /\ state[queued[i]] = "queued"
       /\ \A j \in 1 .. i - 1 : state[queued[j]] = "active"
       /\ state' = [state EXCEPT ![queued[i]] = "active"]
       /\ Listed(queued[i])
  /\ UNCHANGED <<queued, done, on, called, streaming, frame_count, sequence, cpuVars,
                 threadVars, delivered, last>>

(* start_streaming sets the flag, and then the counter. *)
NotStarted == streaming
Started == TRUE

SetStreaming(t) ==
  /\ \A i \in 1 .. Len(queued) : state[queued[i]] # "queued"
  /\ Goto(t, "enqueue", "reset_count")
  /\ called' = TRUE
  /\ streaming' = Started
  /\ UNCHANGED <<state, queued, done, on, links, frame_count, sequence, cpuVars, lock,
                 buf, ahead, histVars>>

ResetCount(t) ==
  /\ Leave(t, "reset_count")
  /\ frame_count' = 0
  /\ on' = TRUE
  /\ delivered' = 0
  /\ UNCHANGED <<state, queued, done, called, links, streaming, sequence, cpuVars, buf,
                 ahead, last, requeued>>

-----------------------------------------------------------------------------
(* VIDIOC_DQBUF, blocking.  It fails while another thread waits in it.     *)

DqbufCall(t) ==
  /\ on /\ \A u \in Threads : pc[u] # "sleep"
  /\ Enter(t, "dqbuf")
  /\ UNCHANGED <<coreVars, devVars, cpuVars, buf, ahead, histVars>>

(* The driver gives the core no wait_prepare and wait_finish to release    *)
(* q->lock with, so it depends on the core whether it is released.         *)
Releases == Unlocks

(* Nothing is done yet: the core waits.  Woken up it looks again.          *)
Sleep(t) ==
  /\ Releases
  /\ done = <<>>
  /\ Goto(t, "dqbuf", "sleep")
  /\ lock' = Free
  /\ UNCHANGED <<coreVars, devVars, cpuVars, buf, ahead, histVars>>

Wake(t) ==
  /\ done # <<>> \/ ~on
  /\ lock = Free
  /\ \/ on /\ Goto(t, "sleep", "dqbuf") /\ lock' = t
     \/ ~on /\ Goto(t, "sleep", "idle") /\ lock' = lock
  /\ UNCHANGED <<coreVars, devVars, cpuVars, buf, ahead, histVars>>

(* The first buffer done is taken and its sequence number given to the     *)
(* user; ...                                                               *)
Take(t) ==
  /\ done # <<>>
  /\ Goto(t, "dqbuf", "unlist")
  /\ done' = Tail(done)
  /\ buf' = [buf EXCEPT ![t] = Head(done)]
  /\ delivered' = delivered + 1
  /\ last' = sequence[Head(done)]
  /\ UNCHANGED <<state, queued, on, called, devVars, cpuVars, lock, ahead, requeued>>

(* ... only then it leaves the queued list. *)
Unlist(t) ==
  /\ Leave(t, "unlist")
  /\ \E i \in 1 .. Len(queued) : queued[i] = buf[t] /\ queued' = RemoveAt(queued, i)
  /\ state' = [state EXCEPT ![buf[t]] = "dequeued"]
  /\ buf' = [buf EXCEPT ![t] = NoBuffer]
  /\ UNCHANGED <<done, on, called, devVars, cpuVars, ahead, histVars>>

-----------------------------------------------------------------------------
(* VIDIOC_STREAMOFF.  stop_streaming is called if start_streaming was.     *)

NotStopped == streaming
Stopped == FALSE

StreamOffCall(t) ==
  /\ IF called
     THEN /\ Enter(t, "walk")
          /\ streaming' = Stopped
          /\ buf' = [buf EXCEPT ![t] = links[Head0].next]
          /\ ahead' = links[links[Head0].next].next
     ELSE Enter(t, "cancel") /\ UNCHANGED <<streaming, buf, ahead>>
  /\ UNCHANGED <<coreVars, links, frame_count, sequence, cpuVars, histVars>>

(* list_for_each_entry_safe goes on with the entry it read ahead, not with *)
(* what the deleted entry points at.                                       *)
FollowingUnsafe(t) == Del(links, buf[t])[buf[t]].next
Following(t) == ahead

NotUnlisted(b) == links
Unlisted(b) == Del(links, b)

NotGivenBack(b) == UNCHANGED <<state, done>>
GivenBack(b) == Completed(b, "error")

(* One turn of the loop: the buffer is unlisted and given back with an     *)
(* error.                                                                  *)
Walk(t) ==
  /\ Running /\ pc[t] = "walk"
  /\ buf[t] # Head0
  /\ IF Faults(links, buf[t])
     THEN crashed' = TRUE /\ UNCHANGED <<state, done, links, buf, ahead>>
     ELSE /\ links' = Unlisted(buf[t])
          /\ GivenBack(buf[t])
          /\ buf' = [buf EXCEPT ![t] = Following(t)]
          /\ ahead' = links'[ahead].next
          /\ UNCHANGED crashed
  /\ UNCHANGED <<queued, on, called, streaming, frame_count, sequence, spinning, lock, pc,
                 histVars>>

WalkEnds(t) ==
  /\ buf[t] = Head0
  /\ Goto(t, "walk", "cancel")
  /\ UNCHANGED <<coreVars, devVars, cpuVars, lock, buf, ahead, histVars>>

(* The core completes what the driver did not, and takes every buffer back *)
(* from its lists.                                                         *)
Cancel(t) ==
  /\ Leave(t, "cancel")
  /\ state' = [b \in Buffers |-> "dequeued"]
  /\ queued' = <<>> /\ done' = <<>> /\ on' = FALSE /\ called' = FALSE
  /\ buf' = [buf EXCEPT ![t] = NoBuffer]
  /\ ahead' = NoBuffer
  /\ UNCHANGED <<devVars, cpuVars, histVars>>

-----------------------------------------------------------------------------
(* camera_irq_handler.  It tests no status register: any interrupt is      *)
(* taken for a frame.  It takes the first buffer of the core's queued      *)
(* list, in whatever state that is.                                        *)

LastQueued == Last(queued)
FirstQueued == Head(queued)

NotCounted == frame_count
Counted == frame_count + 1

Interrupt ==
  /\ Running /\ streaming /\ queued # <<>>
  /\ frame_count < MaxFrames
  /\ LET b == FirstQueued
     IN  /\ sequence' = [sequence EXCEPT ![b] = frame_count]
         /\ IF Smp /\ state[b] = "active"
            THEN spinning' = TRUE /\ UNCHANGED <<state, done, frame_count>>
            ELSE /\ Completed(b, "done")
                 /\ frame_count' = Counted
                 /\ UNCHANGED spinning
  /\ UNCHANGED <<queued, on, called, links, streaming, crashed, threadVars, histVars>>

-----------------------------------------------------------------------------
Inside(t) ==
  \/ Activate(t) \/ BufQueue(t)
  \/ Enqueue(t) \/ SetStreaming(t) \/ ResetCount(t)
  \/ Sleep(t) \/ Wake(t) \/ Take(t) \/ Unlist(t)
  \/ Walk(t) \/ WalkEnds(t) \/ Cancel(t)

Call(t) ==
  \/ \E b \in Buffers : QbufCall(t, b)
  \/ Reqbufs(t) \/ StreamOnCall(t) \/ DqbufCall(t) \/ StreamOffCall(t)

Next == Interrupt \/ \E t \in Threads : Inside(t) \/ Call(t)

Spec == Init /\ [][Next]_vars

(* A call in progress goes on, the kernel's mutex is handed to who waits   *)
(* for it, and the sensor's frames keep coming.                            *)
FairSpec ==
  /\ Spec
  /\ WF_vars(Interrupt)
  /\ \A t \in Threads : WF_vars(Inside(t)) /\ SF_vars(Wake(t))

-----------------------------------------------------------------------------
(* The variables have their types; the walk of stop_streaming never holds  *)
(* the poison of an entry it has deleted.                                  *)
TypeOK ==
  /\ state \in [Buffers -> {"dequeued", "queued", "active", "done", "error"}]
  /\ queued \in Seq(Buffers) /\ done \in Seq(Buffers)
  /\ links \in [Buffers \cup {Head0} ->
                  [next : Buffers \cup {Head0, Poison}, prev : Buffers \cup {Head0, Poison}]]
  /\ on \in BOOLEAN /\ called \in BOOLEAN /\ streaming \in BOOLEAN
  /\ spinning \in BOOLEAN /\ crashed \in BOOLEAN
  /\ frame_count \in 0 .. MaxFrames /\ sequence \in [Buffers -> 0 .. MaxFrames]
  /\ lock \in Threads \cup {Free}
  /\ pc \in [Threads -> {"idle", "activate", "buf_queue", "enqueue", "reset_count",
                         "dqbuf", "sleep", "unlist", "walk", "cancel"}]
  /\ buf \in [Threads -> Buffers \cup {NoBuffer, Head0}]
  /\ delivered \in Nat /\ last \in 0 .. MaxFrames /\ requeued \in BOOLEAN

(* Buffers are given to the user in the order they were queued, whatever   *)
(* the interleaving of QBUF, DQBUF and frames: the buffer DQBUF has taken  *)
(* is the one queued longest ago, and until it has left the queued list    *)
(* the handler completes no other.                                         *)
DeliveredInOrder ==
  \A t \in Threads : pc[t] = "unlist" => buf[t] = Head(queued) /\ done = <<>>

(* From the second buffer of a session on, sequence numbers rise from one  *)
(* DQBUF to the next although the handler renumbers a finished buffer that *)
(* waits at the head of the list.  The first buffer may carry a number of  *)
(* the session before: the flag is set before the counter is reset.        *)
SequenceRises ==
  [][delivered >= 2 /\ delivered' = delivered + 1 => last' > last]_<<delivered, last>>

(* As long as no buffer was queued again before the stream stopped, which  *)
(* is when its entry is added to the driver's list a second time,          *)
(* stop_streaming walks the list to its end without touching a poisoned    *)
(* entry and leaves no buffer with the driver.                             *)
NothingOwned ==
  \A t \in Threads : pc[t] = "cancel" => \A b \in Buffers : state[b] # "active"

CleanStop == ~requeued => ~crashed /\ NothingOwned

(* A thread asleep in DQBUF while a buffer is queued is woken: a frame     *)
(* completes the buffer at the head, and nothing the other threads do      *)
(* keeps it from the thread.  Excepted are a kernel that oopsed and the    *)
(* bound on frames.                                                        *)
DequeueServed ==
  \A t \in Threads :
    pc[t] = "sleep" /\ queued # <<>>
      ~> pc[t] # "sleep" \/ queued = <<>> \/ crashed \/ frame_count = MaxFrames

(* REQBUFS frees no buffer that the driver's list still has, as long as no *)
(* buffer was queued again: cam->queued_list (camera_vb2.c:149) is made    *)
(* once, and only the walk of stop_streaming ever takes a buffer off it.   *)
FreedUnlisted ==
  [][(\E t \in Threads : Reqbufs(t)) => requeued \/ links = EmptyList(Buffers)]_vars

(* The driver and the core together implement CaptureQueue.  A buffer      *)
(* waits from QBUF until its frame is there, whether the core has it yet   *)
(* or the driver; it is the user's as soon as DQBUF has taken it off the   *)
(* done list, though it stays on the queued list for a while.              *)
HeadDone == queued # <<>> /\ state[Head(queued)] = "done"

Capture == INSTANCE CaptureQueue WITH
  mode    <- IF streaming THEN "capturing" ELSE IF called THEN "stopping" ELSE "stopped",
  waiting <- IF HeadDone THEN Tail(queued) ELSE queued,
  ready   <- done

CaptureSpec == Capture!Spec

-----------------------------------------------------------------------------
(* What comments of the code say and the code does not do.                 *)

(* camera_irq.c:56: the handler marks the buffer ready to be dequeued.  It *)
(* returns, then, and no processor spins on a lock it holds.               *)
HandlerReturns == ~spinning

(* camera_vb2.c:117: wait_prepare and wait_finish, with which the core     *)
(* would release q->lock for a DQBUF that waits, are optional.  A call     *)
(* gives the lock back, then, without them too, also a DQBUF that waits    *)
(* for a buffer which another call must queue.  Excepted are a kernel that *)
(* oopsed and the bound on frames.                                         *)
LockGivenBack ==
  \A t \in Threads : lock = t ~> lock # t \/ crashed \/ frame_count = MaxFrames

(* camera_vb2.c:101: stop_streaming gives back all buffers the driver has. *)
StopReturnsAll == ~crashed /\ NothingOwned
=============================================================================
