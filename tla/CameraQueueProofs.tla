------------------------- MODULE CameraQueueProofs -------------------------
(***************************************************************************)
(* Proofs of what users of the capture queue of CameraBuffers see, for any *)
(* number of buffers, threads and frames.                                  *)
(*                                                                         *)
(* Sequence numbers: although the handler numbers the head of the queued   *)
(* list again at every interrupt until DQBUF has taken it, and the counter *)
(* is reset only after the flag is set, the numbers given to the user rise *)
(* from the second buffer of a session on.  What a user has been given is  *)
(* less than the counter, and the number of a buffer that is done lies     *)
(* between the two.                                                        *)
(*                                                                         *)
(* Refinement: driver and core implement CaptureQueue, also once buffers   *)
(* were queued again and the driver's list is corrupt.                     *)
(*                                                                         *)
(* Ownership: no step but QBUF and REQBUFS changes a buffer of the user's. *)
(***************************************************************************)
EXTENDS CameraStopProofs

Numbers ==
  /\ frame_count \in Nat /\ last \in Nat /\ delivered \in Nat
  /\ sequence \in [Buffers -> Nat]

Between ==
  /\ delivered >= 2 => last < frame_count
  /\ done # <<>> /\ delivered >= 1 => sequence[queued[1]] < frame_count
  /\ done # <<>> /\ delivered >= 2 => last < sequence[queued[1]]

SequenceInv ==
  /\ IInv
  /\ Numbers
  /\ \A t \in Threads : pc[t] = "dqbuf" => on
  /\ on /\ ~Stopping => Between

-----------------------------------------------------------------------------
(* Steps that number nothing and deliver nothing.                          *)
LEMMA NumbersStay ==
  ASSUME SequenceInv, UNCHANGED <<frame_count, last, delivered, sequence, done, on>>,
         done # <<>> /\ ~Stopping => queued'[1] = queued[1],
         Stopping => Stopping',
         \A t \in Threads : pc'[t] = "dqbuf" => pc[t] = "dqbuf" \/ on
  PROVE  Numbers' /\ (\A t \in Threads : pc'[t] = "dqbuf" => on') /\ (on' /\ ~Stopping' => Between')
<1>1. Numbers' /\ \A t \in Threads : pc'[t] = "dqbuf" => on'
  BY DEF SequenceInv, Numbers
<1>2. ASSUME on', ~Stopping' PROVE Between'
  BY <1>2 DEF SequenceInv, Between
<1> QED BY <1>1, <1>2

(* ... and that move at most one thread. *)
LEMMA MovesStay ==
  ASSUME SequenceInv, NEW t \in Threads, NEW to \in Places,
         pc' = [pc EXCEPT ![t] = to],
         UNCHANGED <<frame_count, last, delivered, sequence, done, on, queued>>,
         pc[t] \in {"walk", "cancel"} => to \in {"walk", "cancel"}, to = "dqbuf" => on
  PROVE  Numbers' /\ (\A u \in Threads : pc'[u] = "dqbuf" => on') /\ (on' /\ ~Stopping' => Between')
<1>1. pc'[t] = to /\ \A u \in Threads : u # t => pc'[u] = pc[u]
  BY DEF SequenceInv, IInv, Locks
<1>2. Stopping => Stopping'
  BY <1>1 DEF Stopping
<1> QED BY <1>1, <1>2, NumbersStay

Held == Numbers' /\ (\A t \in Threads : pc'[t] = "dqbuf" => on') /\ (on' /\ ~Stopping' => Between')

LEMMA CallsHold ==
  ASSUME SequenceInv, NEW t \in Threads, Call(t)
  PROVE  Held
<1> USE DEF Places
<1>1. ASSUME NEW b \in Buffers, QbufCall(t, b)
      PROVE  Held
  <2>1. /\ queued' = Append(queued, b)
        /\ UNCHANGED <<frame_count, last, delivered, sequence, done, on>>
    BY <1>1 DEF QbufCall, devVars, histVars
  <2>2. queued \in Seq(Buffers) /\ (done # <<>> /\ ~Stopping => queued # <<>>)
    BY DEF SequenceInv, IInv, Lists, HeadOnly, Finished
  <2>3. done # <<>> /\ ~Stopping => queued'[1] = queued[1]
    BY <2>1, <2>2
  <2>4. \A u \in Threads : pc'[u] = pc[u] \/ (pc[u] = "idle" /\ pc'[u] = "activate")
    BY <1>1 DEF QbufCall, Enter, Goto, SequenceInv, IInv, Locks
  <2>5. Stopping => Stopping'
    BY <2>4 DEF Stopping
  <2> QED BY <2>1, <2>3, <2>4, <2>5, NumbersStay DEF Held
<1>2. ASSUME Reqbufs(t)
      PROVE  Held
  <2>1. /\ ~on /\ lock = Free /\ UNCHANGED <<on, pc, frame_count, last, delivered>>
        /\ sequence' = [b \in Buffers |-> 0]
    BY <1>2 DEF Reqbufs, threadVars, histVars
  <2> QED BY <2>1 DEF Held, SequenceInv, Numbers
<1>3. CASE StreamOnCall(t)
  BY <1>3, MovesStay DEF Held, StreamOnCall, Enter, Goto, coreVars, devVars, histVars
<1>4. CASE DqbufCall(t)
  BY <1>4, MovesStay DEF Held, DqbufCall, Enter, Goto, coreVars, devVars, histVars
<1>5. CASE StreamOffCall(t)
  <2>1. PICK to \in {"walk", "cancel"} : Enter(t, to)
    BY <1>5 DEF StreamOffCall
  <2>2. UNCHANGED <<frame_count, last, delivered, sequence, done, on, queued>>
    BY <1>5 DEF StreamOffCall, coreVars, histVars
  <2> QED BY <2>1, <2>2, MovesStay DEF Held, Enter, Goto
<1> QED BY <1>1, <1>2, <1>3, <1>4, <1>5 DEF Call

(* The user is given the number of the head, which is done.                *)
LEMMA TakeHolds ==
  ASSUME SequenceInv, NEW t \in Threads, Take(t)
  PROVE  Held /\ (delivered >= 2 => last' > last)
<1>1. /\ done # <<>> /\ pc[t] = "dqbuf" /\ pc' = [pc EXCEPT ![t] = "unlist"]
      /\ done' = Tail(done) /\ delivered' = delivered + 1 /\ last' = sequence[Head(done)]
      /\ UNCHANGED <<queued, on, frame_count, sequence>>
  BY DEF Take, Goto, devVars
<1>2. lock = t /\ on
  BY <1>1 DEF SequenceInv, IInv, Locks
<1>3. ~Stopping
  BY <1>1, <1>2, Alone DEF SequenceInv
<1>4. Between
  BY <1>2, <1>3 DEF SequenceInv
<1>5. done = <<queued[1]>> /\ queued[1] \in Buffers
  BY <1>1, <1>3 DEF SequenceInv, IInv, HeadOnly, Finished, Lists
<1>6. done' = <<>> /\ last' = sequence[queued[1]]
  BY <1>1, <1>5
<1>7. delivered \in Nat /\ frame_count \in Nat /\ last \in Nat /\ sequence[queued[1]] \in Nat
  BY <1>5 DEF SequenceInv, Numbers
<1>8. Numbers'
  BY <1>1, <1>6, <1>7 DEF SequenceInv, Numbers
<1>9. Between'
  BY <1>1, <1>4, <1>6, <1>7 DEF Between
<1>10. delivered >= 2 => last' > last
  BY <1>1, <1>4, <1>6, <1>7 DEF Between
<1>11. \A u \in Threads : pc'[u] = "dqbuf" => on'
  BY <1>1, <1>2 DEF SequenceInv, IInv, Locks
<1> QED BY <1>8, <1>9, <1>10, <1>11 DEF Held

LEMMA InsideHolds ==
  ASSUME SequenceInv, NEW t \in Threads, Inside(t)
  PROVE  Held
<1> USE DEF Places
<1>0. pc[t] \notin {"idle", "sleep"} => lock = t
  BY DEF SequenceInv, IInv, Locks
<1>1. CASE Activate(t)
  BY <1>1, MovesStay DEF Held, Activate, Goto, devVars, histVars
<1>2. CASE BufQueue(t)
  BY <1>2, MovesStay DEF Held, BufQueue, Leave, Goto, coreVars
<1>3. CASE Enqueue(t)
  BY <1>3, NumbersStay DEF Held, Enqueue, threadVars, Stopping
<1>4. CASE SetStreaming(t)
  BY <1>4, MovesStay DEF Held, SetStreaming, Goto, histVars
<1>5. CASE ResetCount(t)
  <2>1. /\ frame_count' = 0 /\ on' = TRUE /\ delivered' = 0
        /\ UNCHANGED <<sequence, last>>
    BY <1>5 DEF ResetCount
  <2> QED BY <2>1 DEF Held, SequenceInv, Numbers, Between
<1>6. CASE Sleep(t)
  BY <1>6, MovesStay DEF Held, Sleep, Goto, coreVars, devVars, histVars
<1>7. CASE Wake(t)
  <2>1. PICK to \in {"dqbuf", "idle"} : Goto(t, "sleep", to) /\ (to = "dqbuf" => on)
    BY <1>7 DEF Wake
  <2>2. UNCHANGED <<frame_count, last, delivered, sequence, done, on, queued>>
    BY <1>7 DEF Wake, coreVars, devVars, histVars
  <2> QED BY <2>1, <2>2, MovesStay DEF Held, Goto
<1>8. CASE Take(t)
  BY <1>8, TakeHolds
<1>9. CASE Unlist(t)
  <2>1. /\ pc[t] = "unlist" /\ pc' = [pc EXCEPT ![t] = "idle"]
        /\ UNCHANGED <<frame_count, last, delivered, sequence, done, on>>
    BY <1>9 DEF Unlist, Leave, Goto, devVars, histVars
  <2>2. ~Stopping
    BY <1>0, <2>1, OthersWait DEF Stopping, SequenceInv
  <2>3. done = <<>>
    BY <2>1, <2>2 DEF SequenceInv, IInv, HeadOnly
  <2>4. \A u \in Threads : pc'[u] = "dqbuf" => pc[u] = "dqbuf"
    BY <2>1 DEF SequenceInv, IInv, Locks
  <2> QED BY <2>1, <2>2, <2>3, <2>4, NumbersStay DEF Held
<1>10. CASE Walk(t)
  <2>1. /\ pc[t] = "walk" /\ UNCHANGED <<pc, on, frame_count, last, delivered, sequence>>
    BY <1>10 DEF Walk, histVars
  <2> QED BY <2>1 DEF Held, SequenceInv, Numbers, Stopping
<1>11. CASE WalkEnds(t)
  BY <1>11, MovesStay DEF Held, WalkEnds, Goto, coreVars, devVars, histVars
<1>12. CASE Cancel(t)
  <2>1. /\ pc[t] = "cancel" /\ pc' = [pc EXCEPT ![t] = "idle"] /\ on' = FALSE
        /\ UNCHANGED <<frame_count, last, delivered, sequence>>
    BY <1>12 DEF Cancel, Leave, Goto, devVars, histVars
  <2>2. \A u \in Threads : pc'[u] # "dqbuf"
    BY <1>0, <2>1, OthersWait DEF SequenceInv, IInv, Locks
  <2> QED BY <2>1, <2>2 DEF Held, SequenceInv, Numbers
<1> QED BY <1>1, <1>2, <1>3, <1>4, <1>5, <1>6, <1>7, <1>8, <1>9, <1>10, <1>11, <1>12
        DEF Inside

(* An interrupt numbers the head with the counter, and counts; only a      *)
(* processor that spins for ever does not count, and the head it has       *)
(* numbered is not done.                                                   *)
LEMMA InterruptHolds ==
  ASSUME SequenceInv, Interrupt
  PROVE  Held
<1> DEFINE b == queued[1]
<1>1. /\ queued # <<>> /\ b \in Buffers /\ FirstQueued = b
      /\ UNCHANGED <<queued, on, pc, delivered, last>>
  BY DEF Interrupt, FirstQueued, threadVars, histVars, SequenceInv, IInv, Lists
<1>2. sequence' = [sequence EXCEPT ![b] = frame_count]
  BY <1>1 DEF Interrupt
<1>3. frame_count \in Nat /\ last \in Nat /\ delivered \in Nat /\ sequence \in [Buffers -> Nat]
  BY DEF SequenceInv, Numbers
<1>4. sequence' \in [Buffers -> Nat] /\ sequence'[b] = frame_count
  BY <1>1, <1>2, <1>3
<1>5. \/ frame_count' = frame_count + 1
      \/ frame_count' = frame_count /\ done' = done /\ state[b] = "active"
  BY <1>1 DEF Interrupt, Counted
<1>6. Numbers'
  BY <1>1, <1>3, <1>4, <1>5 DEF Numbers
<1>7. ASSUME on', ~Stopping' PROVE Between'
  <2>1. on /\ ~Stopping /\ Between
    BY <1>1, <1>7 DEF Stopping, SequenceInv
  <2>2. CASE frame_count' = frame_count + 1
    BY <1>1, <1>3, <1>4, <2>1, <2>2 DEF Between
  <2>3. CASE frame_count' = frame_count /\ done' = done /\ state[b] = "active"
    <3>1. done = <<>>
      BY <2>1, <2>3 DEF SequenceInv, IInv, HeadOnly, Finished
    <3> QED BY <1>1, <2>1, <2>3, <3>1 DEF Between
  <2> QED BY <1>5, <2>2, <2>3
<1> QED BY <1>1, <1>6, <1>7 DEF Held, SequenceInv

LEMMA SequenceKept ==
  ASSUME SequenceInv, [Next]_vars
  PROVE  SequenceInv'
<1>1. IInv'
  BY StepKeeps DEF SequenceInv
<1>2. CASE UNCHANGED vars
  <2>1. UNCHANGED <<frame_count, last, delivered, sequence, done, on, queued, pc>>
    BY <1>2 DEF vars, coreVars, devVars, threadVars, histVars
  <2>2. Held
    BY <2>1, NumbersStay DEF Held, Stopping
  <2> QED BY <1>1, <2>2 DEF SequenceInv, Held
<1>3. CASE Next
  <2>1. Held
    BY <1>3, InterruptHolds, InsideHolds, CallsHold DEF Next
  <2> QED BY <1>1, <2>1 DEF SequenceInv, Held
<1> QED BY <1>2, <1>3

-----------------------------------------------------------------------------
(* A step other than Take delivers nothing, or begins a session anew.      *)
LEMMA OnlyTakeDelivers ==
  ASSUME SequenceInv, [Next]_vars, delivered' = delivered + 1
  PROVE  \E t \in Threads : Take(t)
<1>1. delivered \in Nat
  BY DEF SequenceInv, Numbers
<1>2. ~Interrupt /\ ~UNCHANGED vars
  BY <1>1 DEF Interrupt, vars, histVars
<1>3. ASSUME NEW t \in Threads, Inside(t)
      PROVE  Take(t)
  BY <1>1, <1>3 DEF Inside, Activate, BufQueue, Enqueue, SetStreaming, ResetCount, Sleep, Wake,
                    Unlist, Walk, WalkEnds, Cancel, histVars
<1>4. ASSUME NEW t \in Threads
      PROVE  ~Call(t)
  BY <1>1, <1>4 DEF Call, QbufCall, Reqbufs, StreamOnCall, DqbufCall, StreamOffCall, histVars
<1> QED BY <1>2, <1>3, <1>4 DEF Next

(* From the second buffer of a session on the numbers DQBUF gives out rise *)
(* (camera_irq.c:52, camera_vb2.c:79-80).                                  *)
THEOREM NumbersRise == Spec => SequenceRises
<1>1. Init => SequenceInv
  <2>1. ASSUME Init PROVE Numbers /\ (\A t \in Threads : pc[t] # "dqbuf") /\ ~on
    BY <2>1 DEF Init, Numbers
  <2> QED BY <2>1, InitHolds DEF SequenceInv
<1>2. ASSUME SequenceInv, [Next]_vars
      PROVE  [delivered >= 2 /\ delivered' = delivered + 1 => last' > last]_<<delivered, last>>
  BY <1>2, OnlyTakeDelivers, TakeHolds
<1> QED BY <1>1, <1>2, SequenceKept, PTL DEF Spec, SequenceRises

-----------------------------------------------------------------------------
(* The refinement.  The flag of the driver is up while the core has called *)
(* start_streaming and nobody stops the stream; every buffer that is not   *)
(* the user's is on the queued list; what is on the done list is done or   *)
(* was given back with an error.                                           *)

FlagFollows == streaming <=> called /\ ~Stopping

Accounted ==
  /\ \A b \in Buffers : state[b] # "dequeued" => \E i \in 1 .. Len(queued) : queued[i] = b
  /\ \A i \in 1 .. Len(done) : state[done[i]] \in {"done", "error"}

QueueInv == StopInv /\ TypeInv /\ SequenceInv /\ FlagFollows /\ Accounted

Mode == IF streaming THEN "capturing" ELSE IF called THEN "stopping" ELSE "stopped"
Waiting == IF HeadDone THEN Tail(queued) ELSE queued

LEMMA FlagKept ==
  ASSUME QueueInv, [Next]_vars
  PROVE  FlagFollows'
<1>0. /\ streaming \in BOOLEAN /\ called \in BOOLEAN /\ (streaming <=> called /\ ~Stopping)
      /\ pc \in [Threads -> Places]
  BY DEF QueueInv, FlagFollows, TypeInv, Flags, IInv, Locks
<1>1. CASE UNCHANGED <<streaming, called, pc>>
  BY <1>0, <1>1 DEF FlagFollows, Stopping
<1>2. ASSUME NEW t \in Threads, NEW to \in Places \ {"walk", "cancel"},
             pc[t] \notin {"walk", "cancel"}, pc' = [pc EXCEPT ![t] = to],
             UNCHANGED <<streaming, called>>
      PROVE  FlagFollows'
  <2>1. Stopping' <=> Stopping
    BY <1>0, <1>2 DEF Stopping
  <2> QED BY <1>0, <1>2, <2>1 DEF FlagFollows
<1>3. CASE Interrupt \/ UNCHANGED vars
  BY <1>1, <1>3 DEF Interrupt, vars, coreVars, devVars, threadVars
<1>4. ASSUME NEW t \in Threads, lock = t \/ lock = Free
      PROVE  \A u \in Threads : u # t => pc[u] \in {"idle", "sleep"}
  BY <1>4, OthersWait DEF QueueInv, TypeInv
<1>5. ASSUME NEW t \in Threads, Call(t)
      PROVE  FlagFollows'
  <2>1. CASE StreamOffCall(t)
    <3>1. /\ lock = Free /\ pc[t] = "idle" /\ called' = called
          /\ \/ called /\ pc' = [pc EXCEPT ![t] = "walk"] /\ streaming' = FALSE
             \/ ~called /\ pc' = [pc EXCEPT ![t] = "cancel"] /\ streaming' = streaming
      BY <2>1 DEF StreamOffCall, Enter, Goto, Stopped, coreVars
    <3>2. Stopping'
      BY <1>0, <3>1 DEF Stopping
    <3> QED BY <1>0, <3>1, <3>2 DEF FlagFollows
  <2>2. CASE Reqbufs(t)
    BY <1>1, <2>2 DEF Reqbufs, threadVars
  <2>3. ASSUME NEW b \in Buffers, QbufCall(t, b)
        PROVE  FlagFollows'
    <3>1. UNCHANGED <<streaming, called>> /\ (UNCHANGED pc \/ Enter(t, "activate"))
      BY <2>3 DEF QbufCall, devVars
    <3> QED BY <1>1, <1>2, <3>1 DEF Enter, Goto, Places
  <2>4. CASE StreamOnCall(t)
    BY <1>2, <2>4 DEF StreamOnCall, Enter, Goto, coreVars, devVars, Places
  <2>5. CASE DqbufCall(t)
    BY <1>2, <2>5 DEF DqbufCall, Enter, Goto, coreVars, devVars, Places
  <2> QED BY <1>5, <2>1, <2>2, <2>3, <2>4, <2>5 DEF Call
<1>6. ASSUME NEW t \in Threads, Inside(t)
      PROVE  FlagFollows'
  <2>0. pc[t] \notin {"idle", "sleep"} => lock = t
    BY DEF QueueInv, TypeInv, IInv, Locks
  <2>1. CASE SetStreaming(t)
    <3>1. /\ pc[t] = "enqueue" /\ pc' = [pc EXCEPT ![t] = "reset_count"]
          /\ called' = TRUE /\ streaming' = TRUE
      BY <2>1 DEF SetStreaming, Goto, Started
    <3>2. ~Stopping'
      BY <1>0, <1>4, <2>0, <3>1 DEF Stopping
    <3> QED BY <3>1, <3>2 DEF FlagFollows
  <2>2. CASE Walk(t)
    BY <1>1, <2>2 DEF Walk
  <2>3. CASE WalkEnds(t)
    <3>1. /\ pc[t] = "walk" /\ pc' = [pc EXCEPT ![t] = "cancel"]
          /\ UNCHANGED <<streaming, called>>
      BY <2>3 DEF WalkEnds, Goto, coreVars, devVars
    <3>2. Stopping /\ Stopping'
      BY <1>0, <3>1 DEF Stopping
    <3> QED BY <1>0, <3>1, <3>2 DEF FlagFollows
  <2>4. CASE Cancel(t)
    <3>1. /\ pc[t] = "cancel" /\ called' = FALSE /\ streaming' = streaming
      BY <2>4 DEF Cancel, Leave, Goto, devVars
    <3>2. Stopping
      BY <3>1 DEF Stopping
    <3> QED BY <1>0, <3>1, <3>2 DEF FlagFollows
  <2>5. CASE Activate(t)
    BY <1>2, <2>5 DEF Activate, Goto, devVars, Places
  <2>6. CASE BufQueue(t)
    BY <1>2, <2>6 DEF BufQueue, Leave, Goto, coreVars, Places
  <2>7. CASE Enqueue(t)
    BY <1>1, <2>7 DEF Enqueue, threadVars
  <2>8. CASE ResetCount(t)
    BY <1>2, <2>8 DEF ResetCount, Leave, Goto, Places
  <2>9. CASE Sleep(t)
    BY <1>2, <2>9 DEF Sleep, Goto, coreVars, devVars, Places
  <2>10. CASE Wake(t)
    <3>1. PICK to \in {"dqbuf", "idle"} : Goto(t, "sleep", to)
      BY <2>10 DEF Wake
    <3>2. UNCHANGED <<streaming, called>>
      BY <2>10 DEF Wake, coreVars, devVars
    <3> QED BY <1>2, <3>1, <3>2 DEF Goto, Places
  <2>11. CASE Take(t)
    BY <1>2, <2>11 DEF Take, Goto, devVars, Places
  <2>12. CASE Unlist(t)
    BY <1>2, <2>12 DEF Unlist, Leave, Goto, devVars, Places
  <2> QED BY <1>6, <2>1, <2>2, <2>3, <2>4, <2>5, <2>6, <2>7, <2>8, <2>9, <2>10, <2>11, <2>12
          DEF Inside
<1> QED BY <1>3, <1>5, <1>6 DEF Next

LEMMA AccountedStays ==
  ASSUME QueueInv, UNCHANGED <<state, queued, done>>
  PROVE  Accounted'
BY DEF QueueInv, Accounted

(* A buffer that is not the user's goes on to another state. *)
LEMMA AccountedMoves ==
  ASSUME QueueInv, NEW b \in Buffers, NEW s \in {"active", "done", "error"},
         state[b] # "dequeued", state' = [state EXCEPT ![b] = s], queued' = queued,
         \/ s = "active" /\ state[b] = "queued" /\ done' = done
         \/ s # "active" /\ done' = Append(done, b)
  PROVE  Accounted'
<1>1. /\ done \in Seq(Buffers) /\ state \in [Buffers -> States]
      /\ \A i \in 1 .. Len(done) : done[i] \in Buffers /\ state[done[i]] \in {"done", "error"}
  BY DEF QueueInv, TypeInv, Counts, IInv, Lists, Accounted
<1>2. \A c \in Buffers : state'[c] # "dequeued" => \E i \in 1 .. Len(queued') : queued'[i] = c
  BY <1>1 DEF QueueInv, Accounted
<1>3. \A i \in 1 .. Len(done') : state'[done'[i]] \in {"done", "error"}
  <2>1. CASE done' = done /\ s = "active" /\ state[b] = "queued"
    BY <1>1, <2>1
  <2>2. CASE s # "active" /\ done' = Append(done, b)
    <3>1. /\ Len(done') = Len(done) + 1 /\ Len(done) \in Nat /\ done'[Len(done) + 1] = b
          /\ \A i \in 1 .. Len(done) : done'[i] = done[i]
      BY <1>1, <2>2
    <3>2. \A i \in 1 .. Len(done) + 1 : i \in 1 .. Len(done) \/ i = Len(done) + 1
      BY <3>1
    <3> QED BY <1>1, <2>2, <3>1, <3>2
  <2> QED BY <2>1, <2>2
<1> QED BY <1>2, <1>3 DEF Accounted

LEMMA AccountedKept ==
  ASSUME QueueInv, [Next]_vars
  PROVE  Accounted'
<1>0. /\ done \in Seq(Buffers) /\ state \in [Buffers -> States] /\ queued \in Seq(Buffers)
      /\ \A i \in 1 .. Len(done) : done[i] \in Buffers /\ state[done[i]] \in {"done", "error"}
      /\ \A i \in 1 .. Len(queued) : queued[i] \in Buffers /\ state[queued[i]] # "dequeued"
      /\ IInv
  BY DEF QueueInv, TypeInv, Counts, IInv, Lists, Accounted
<1>1. CASE Interrupt
  <2>1. /\ queued # <<>> /\ FirstQueued = queued[1] /\ queued' = queued
    BY <1>0, <1>1 DEF Interrupt, FirstQueued
  <2>2. queued[1] \in Buffers
    BY <1>0, <2>1
  <2>3. \/ UNCHANGED <<state, done>>
        \/ /\ state[queued[1]] = "active" /\ state' = [state EXCEPT ![queued[1]] = "done"]
           /\ done' = Append(done, queued[1])
    BY <1>1, <2>1 DEF Interrupt, Completed
  <2> QED BY <2>1, <2>2, <2>3, AccountedStays, AccountedMoves
<1>2. CASE UNCHANGED vars
  BY <1>2, AccountedStays DEF vars, coreVars
<1>3. ASSUME NEW t \in Threads, Call(t)
      PROVE  Accounted'
  <2>1. ASSUME NEW b \in Buffers, QbufCall(t, b)
        PROVE  Accounted'
    <3>1. /\ state[b] = "dequeued" /\ state' = [state EXCEPT ![b] = "queued"]
          /\ queued' = Append(queued, b) /\ done' = done
      BY <2>1 DEF QbufCall
    <3>2. /\ Len(queued') = Len(queued) + 1 /\ Len(queued) \in Nat
          /\ queued'[Len(queued) + 1] = b /\ \A i \in 1 .. Len(queued) : queued'[i] = queued[i]
      BY <1>0, <3>1
    <3>3. \A c \in Buffers : c # b /\ state[c] # "dequeued" => \E i \in 1 .. Len(queued) : queued[i] = c
      BY DEF QueueInv, Accounted
    <3>4. \A c \in Buffers : state'[c] # "dequeued" => \E i \in 1 .. Len(queued') : queued'[i] = c
      BY <1>0, <3>1, <3>2, <3>3
    <3>5. \A i \in 1 .. Len(done') : state'[done'[i]] \in {"done", "error"}
      BY <1>0, <3>1
    <3> QED BY <3>4, <3>5 DEF Accounted
  <2>2. CASE Reqbufs(t)
    BY <2>2 DEF Reqbufs, Accounted
  <2> QED BY <1>3, <2>1, <2>2, AccountedStays
          DEF Call, StreamOnCall, DqbufCall, StreamOffCall, coreVars
<1>4. ASSUME NEW t \in Threads, Inside(t)
      PROVE  Accounted'
  <2>1. CASE Activate(t)
    <3>1. buf[t] \in Buffers /\ state[buf[t]] = "queued"
      BY <1>0, <2>1 DEF Activate, Goto, IInv, Handing
    <3> QED BY <2>1, <3>1, AccountedMoves DEF Activate
  <2>2. CASE Enqueue(t)
    <3>1. PICK i \in 1 .. Len(queued) :
            state[queued[i]] = "queued" /\ state' = [state EXCEPT ![queued[i]] = "active"]
      BY <2>2 DEF Enqueue
    <3> QED BY <1>0, <2>2, <3>1, AccountedMoves DEF Enqueue
  <2>3. CASE Take(t)
    <3>1. done' = <<>> /\ UNCHANGED <<state, queued>>
      <4>1. lock = t /\ pc[t] = "dqbuf" /\ done # <<>>
        BY <1>0, <2>3 DEF Take, Goto, IInv, Locks
      <4>2. done = <<queued[1]>>
        BY <1>0, <4>1, Alone DEF IInv, HeadOnly
      <4> QED BY <2>3, <4>2 DEF Take
    <3> QED BY <3>1 DEF QueueInv, Accounted
  <2>4. CASE Unlist(t)
    <3>1. /\ buf[t] = queued[1] /\ buf[t] \in Buffers /\ Len(queued') = Len(queued) - 1
          /\ \A i \in 1 .. Len(queued') : queued'[i] = queued[i + 1]
          /\ state' = [state EXCEPT ![buf[t]] = "dequeued"] /\ done' = done
      BY <1>0, <2>4, UnlistKeeps DEF Unlist
    <3>2. done = <<>>
      <4>1. lock = t /\ pc[t] = "unlist"
        BY <1>0, <2>4 DEF Unlist, Leave, Goto, IInv, Locks
      <4>2. ~Stopping
        BY <1>0, <4>1, OthersWait DEF Stopping
      <4> QED BY <1>0, <4>1, <4>2 DEF IInv, HeadOnly
    <3>3. ASSUME NEW c \in Buffers, state'[c] # "dequeued"
          PROVE  \E i \in 1 .. Len(queued') : queued'[i] = c
      <4>1. c # queued[1] /\ state[c] # "dequeued"
        BY <1>0, <3>1, <3>3
      <4>2. PICK i \in 1 .. Len(queued) : queued[i] = c
        BY <4>1 DEF QueueInv, Accounted
      <4>3. i - 1 \in 1 .. Len(queued') /\ (i - 1) + 1 = i
        BY <1>0, <3>1, <4>1, <4>2
      <4> QED BY <3>1, <4>2, <4>3
    <3> QED BY <3>1, <3>2, <3>3 DEF Accounted
  <2>5. CASE Walk(t)
    <3>1. /\ queued' = queued
          /\ \/ UNCHANGED <<state, done>>
             \/ /\ state[buf[t]] = "active" /\ state' = [state EXCEPT ![buf[t]] = "error"]
                /\ done' = Append(done, buf[t])
      BY <2>5 DEF Walk, GivenBack, Completed
    <3>2. buf[t] \in Buffers
      BY <2>5 DEF Walk, QueueInv, TypeInv, AtEntry
    <3> QED BY <3>1, <3>2, AccountedStays, AccountedMoves
  <2>6. CASE Cancel(t)
    BY <2>6 DEF Cancel, Accounted
  <2> QED BY <1>4, <2>1, <2>2, <2>3, <2>4, <2>5, <2>6, AccountedStays
          DEF Inside, BufQueue, SetStreaming, ResetCount, Sleep, Wake, WalkEnds, coreVars
<1> QED BY <1>1, <1>2, <1>3, <1>4 DEF Next

LEMMA QueueKept ==
  ASSUME QueueInv, [Next]_vars
  PROVE  QueueInv'
BY StopKept, TypesKept, SequenceKept, FlagKept, AccountedKept DEF QueueInv

LEMMA QueueInit ==
  ASSUME Init
  PROVE  QueueInv
<1>1. SequenceInv
  <2>1. Numbers /\ (\A t \in Threads : pc[t] # "dqbuf") /\ ~on
    BY DEF Init, Numbers
  <2> QED BY <2>1, InitHolds DEF SequenceInv
<1>2. FlagFollows /\ Accounted
  BY DEF Init, FlagFollows, Accounted
<1> QED BY <1>1, <1>2, StopInit, TypesInit DEF QueueInv

-----------------------------------------------------------------------------
(* What a step of driver and core is for users of the queue.               *)

LEMMA Shown ==
  ASSUME QueueInv
  PROVE  /\ queued \in Seq(Buffers) /\ done \in Seq(Buffers)
         /\ \A i \in 1 .. Len(queued) : queued[i] \in Buffers /\ state[queued[i]] # "dequeued"
         /\ HeadDone <=> Finished
         /\ Mode \in {"stopped", "capturing", "stopping"}
         /\ Mode = "capturing" <=> called /\ ~Stopping
         /\ Mode = "stopped" <=> ~called
<1>1. /\ queued \in Seq(Buffers) /\ done \in Seq(Buffers)
      /\ \A i \in 1 .. Len(queued) : queued[i] \in Buffers /\ state[queued[i]] # "dequeued"
  BY DEF QueueInv, TypeInv, Counts, IInv, Lists
<1>2. HeadDone <=> Finished
  BY <1>1 DEF HeadDone, Finished
<1>3. streaming \in BOOLEAN /\ called \in BOOLEAN /\ (streaming <=> called /\ ~Stopping)
  BY DEF QueueInv, TypeInv, Flags, FlagFollows
<1> QED BY <1>1, <1>2, <1>3 DEF Mode

(* Nothing, as long as the head does not become done or leave.             *)
LEMMA Unseen ==
  ASSUME QueueInv, UNCHANGED <<streaming, called, queued, done>>,
         \A b \in Buffers : state'[b] = "done" <=> state[b] = "done"
  PROVE  UNCHANGED Capture!vars
<1>1. queued # <<>> => Head(queued) \in Buffers
  BY Shown
<1>2. HeadDone' <=> HeadDone
  BY <1>1 DEF HeadDone
<1> QED BY <1>2 DEF Capture!vars

LEMMA SeenInterrupt ==
  ASSUME QueueInv, Interrupt
  PROVE  [Capture!Next]_(Capture!vars)
<1>1. /\ queued # <<>> /\ FirstQueued = queued[1] /\ Head(queued) = queued[1]
      /\ queued[1] \in Buffers /\ streaming /\ UNCHANGED <<streaming, called, queued>>
  BY Shown DEF Interrupt, FirstQueued
<1>2. \/ UNCHANGED <<state, done>>
      \/ /\ state[queued[1]] = "active" /\ state' = [state EXCEPT ![queued[1]] = "done"]
         /\ done' = Append(done, queued[1])
  BY <1>1 DEF Interrupt, Completed
<1>3. CASE UNCHANGED <<state, done>>
  BY <1>1, <1>3, Unseen
<1>4. CASE /\ state[queued[1]] = "active" /\ state' = [state EXCEPT ![queued[1]] = "done"]
           /\ done' = Append(done, queued[1])
  <2>1. state'[queued[1]] = "done"
    BY <1>1, <1>4 DEF QueueInv, TypeInv, IInv, Lists
  <2>2. ~HeadDone /\ HeadDone'
    BY <1>1, <1>4, <2>1 DEF HeadDone
  <2>3. Capture!Frame
    BY <1>1, <1>4, <2>2 DEF Capture!Frame
  <2> QED BY <2>3 DEF Capture!Next
<1> QED BY <1>2, <1>3, <1>4

(* QBUF queues a buffer that is neither waiting nor ready.                 *)
LEMMA SeenQbuf ==
  ASSUME QueueInv, NEW t \in Threads, NEW b \in Buffers, QbufCall(t, b)
  PROVE  Capture!Queue(b)
<1>1. /\ state[b] = "dequeued" /\ state' = [state EXCEPT ![b] = "queued"]
      /\ queued' = Append(queued, b) /\ lock = Free /\ pc[t] = "idle"
      /\ UNCHANGED <<done, streaming, called>>
  BY DEF QbufCall, Enter, Goto, devVars
<1>2. ~Stopping
  BY <1>1, Alone DEF QueueInv, TypeInv
<1>3. Mode # "stopping" /\ UNCHANGED Mode
  BY <1>1, <1>2, Shown DEF Mode
<1>4. b \notin ToSet(Waiting) \cup ToSet(done)
  <2>0. DOMAIN done = 1 .. Len(done) /\ DOMAIN queued = 1 .. Len(queued)
    BY Shown
  <2>1. \A i \in DOMAIN done : done[i] # b
    BY <1>1, <2>0 DEF QueueInv, Accounted
  <2>2. \A i \in DOMAIN queued : queued[i] # b
    BY <1>1, <2>0, Shown
  <2>3. \A i \in DOMAIN Waiting : Waiting[i] # b
    <3>1. CASE HeadDone
      <4>1. Waiting = Tail(queued) /\ queued # <<>>
        BY <3>1 DEF Waiting, HeadDone
      <4> QED BY <2>2, <4>1, Shown
    <3>2. CASE ~HeadDone
      BY <2>2, <3>2 DEF Waiting
    <3> QED BY <3>1, <3>2
  <2> QED BY <2>1, <2>3 DEF ToSet
<1>5. Waiting' = Append(Waiting, b)
  <2>1. CASE queued = <<>>
    <3>1. queued' = <<b>> /\ state'[b] = "queued"
      BY <1>1, <2>1 DEF QueueInv, TypeInv, IInv, Lists
    <3>2. ~HeadDone /\ ~HeadDone'
      BY <2>1, <3>1 DEF HeadDone
    <3> QED BY <1>1, <2>1, <3>2 DEF Waiting
  <2>2. CASE queued # <<>>
    <3>1. /\ queued' # <<>> /\ Head(queued') = Head(queued) /\ Head(queued) = queued[1]
          /\ Head(queued) \in Buffers /\ Head(queued) # b
          /\ Tail(queued') = Append(Tail(queued), b)
      BY <1>1, <2>2, Shown
    <3>2. HeadDone' <=> HeadDone
      BY <1>1, <2>2, <3>1 DEF HeadDone, QueueInv, TypeInv, IInv, Lists
    <3> QED BY <1>1, <3>1, <3>2 DEF Waiting
  <2> QED BY <2>1, <2>2
<1> QED BY <1>1, <1>3, <1>4, <1>5 DEF Capture!Queue, Mode, Waiting, ToSet, Capture!ToSet

(* STREAMOFF ends the capturing, if there was any; REQBUFS and the end of  *)
(* STREAMOFF take everything back.                                         *)
LEMMA SeenStops ==
  ASSUME QueueInv, NEW t \in Threads, StreamOffCall(t) \/ Reqbufs(t) \/ Cancel(t)
  PROVE  [Capture!Next]_(Capture!vars)
<1>1. CASE StreamOffCall(t)
  <2>1. /\ lock = Free /\ pc[t] = "idle" /\ UNCHANGED <<called, queued, done, state>>
        /\ \/ called /\ streaming' = FALSE
           \/ ~called /\ streaming' = streaming
    BY <1>1 DEF StreamOffCall, Enter, Goto, Stopped, coreVars
  <2>2. ~Stopping /\ streaming \in BOOLEAN /\ (streaming <=> called)
    BY <2>1, Alone DEF QueueInv, TypeInv, FlagFollows, Flags
  <2>3. CASE called
    <3>1. UNCHANGED Waiting
      BY <2>1 DEF Waiting, HeadDone
    <3>2. Mode = "capturing" /\ Mode' = "stopping"
      BY <2>1, <2>2, <2>3 DEF Mode
    <3>3. Capture!Stop
      BY <2>1, <3>1, <3>2 DEF Capture!Stop, Mode, Waiting
    <3> QED BY <3>3 DEF Capture!Next
  <2>4. CASE ~called
    BY <2>1, <2>4, Unseen
  <2> QED BY <2>3, <2>4
<1>2. CASE Reqbufs(t) \/ Cancel(t)
  <2>1. queued' = <<>> /\ done' = <<>> /\ ~streaming /\ ~called' /\ streaming' = streaming
    <3>1. CASE Cancel(t)
      <4>1. Stopping
        BY <3>1 DEF Cancel, Leave, Goto, Stopping
      <4> QED BY <3>1, <4>1 DEF Cancel, devVars, QueueInv, FlagFollows
    <3>2. CASE Reqbufs(t)
      <4>1. lock = Free /\ ~on /\ pc[t] = "idle"
        BY <3>2 DEF Reqbufs
      <4>2. ~called
        BY <4>1, Agree DEF QueueInv
      <4> QED BY <3>2, <4>2 DEF Reqbufs, QueueInv, FlagFollows
    <3> QED BY <1>2, <3>1, <3>2
  <2>2. Mode # "capturing" /\ Mode' = "stopped" /\ Waiting' = <<>>
    BY <2>1 DEF Mode, Waiting, HeadDone
  <2>3. Capture!TakeBack
    BY <2>1, <2>2 DEF Capture!TakeBack, Mode, Waiting
  <2> QED BY <2>3 DEF Capture!Next
<1> QED BY <1>1, <1>2

(* The walk of stop_streaming returns a buffer of the driver's without its *)
(* frame, also when the list it walks is corrupt.                          *)
LEMMA SeenWalk ==
  ASSUME QueueInv, NEW t \in Threads, Walk(t)
  PROVE  [Capture!Next]_(Capture!vars)
<1>1. /\ pc[t] = "walk" /\ buf[t] \in Buffers /\ UNCHANGED <<streaming, called, queued>>
      /\ \/ UNCHANGED <<state, done>>
         \/ /\ state[buf[t]] = "active" /\ state' = [state EXCEPT ![buf[t]] = "error"]
            /\ done' = Append(done, buf[t])
  BY DEF Walk, GivenBack, Completed, QueueInv, TypeInv, AtEntry
<1>2. CASE UNCHANGED <<state, done>>
  BY <1>1, <1>2, Unseen
<1>3. CASE /\ state[buf[t]] = "active" /\ state' = [state EXCEPT ![buf[t]] = "error"]
           /\ done' = Append(done, buf[t])
  <2>1. Mode = "stopping"
    <3>1. Stopping /\ called
      BY <1>1 DEF Stopping, QueueInv, StopInv, Phases
    <3> QED BY <3>1, Shown
  <2>2. \A i \in DOMAIN done : done[i] # buf[t]
    <3>1. DOMAIN done = 1 .. Len(done)
      BY Shown
    <3>2. \A i \in 1 .. Len(done) : state[done[i]] # "active"
      BY DEF QueueInv, Accounted
    <3> QED BY <1>3, <3>1, <3>2
  <2>3. PICK i \in 1 .. Len(queued) : queued[i] = buf[t]
    BY <1>1, <1>3 DEF QueueInv, Accounted
  <2>4. queued # <<>> /\ Head(queued) = queued[1] /\ Head(queued) \in Buffers
    BY <2>3, Shown
  <2>5. buf[t] \in ToSet(Waiting)
    <3>1. CASE HeadDone
      <4>1. i # 1
        BY <1>3, <2>3, <2>4, <3>1 DEF HeadDone
      <4>2. /\ Waiting = Tail(queued)
            /\ i - 1 \in DOMAIN Tail(queued) /\ Tail(queued)[i - 1] = queued[(i - 1) + 1]
        BY <2>3, <2>4, <3>1, <4>1, Shown DEF Waiting
      <4>3. Waiting[i - 1] = buf[t] /\ i - 1 \in DOMAIN Waiting
        <5>1. (i - 1) + 1 = i
          BY <2>3
        <5> QED BY <2>3, <4>2, <5>1
      <4> QED BY <4>3 DEF ToSet
    <3>2. CASE ~HeadDone
      BY <2>3, <3>2, Shown DEF Waiting, ToSet
    <3> QED BY <3>1, <3>2
  <2>6. HeadDone' <=> HeadDone
    BY <1>1, <1>3, <2>4 DEF HeadDone, QueueInv, TypeInv, IInv, Lists
  <2>7. UNCHANGED <<Mode, Waiting>>
    BY <1>1, <2>6 DEF Mode, Waiting
  <2>8. buf[t] \in ToSet(Waiting) \ ToSet(done)
    BY <2>2, <2>5 DEF ToSet
  <2>9. Capture!Abort(buf[t])
    BY <1>3, <2>1, <2>7, <2>8 DEF Capture!Abort, Mode, Waiting, ToSet, Capture!ToSet
  <2> QED BY <1>1, <2>9 DEF Capture!Next
<1> QED BY <1>1, <1>2, <1>3

(* DQBUF takes what is ready; the buffer has left the line already.        *)
LEMMA SeenDqbuf ==
  ASSUME QueueInv, NEW t \in Threads, Take(t) \/ Unlist(t)
  PROVE  [Capture!Next]_(Capture!vars)
<1>1. CASE Take(t)
  <2>1. /\ done # <<>> /\ pc[t] = "dqbuf" /\ done' = Tail(done)
        /\ UNCHANGED <<state, queued, called, streaming>>
    BY <1>1 DEF Take, Goto, devVars
  <2>2. lock = t /\ on
    BY <2>1 DEF QueueInv, SequenceInv, IInv, Locks
  <2>3. ~Stopping /\ called
    BY <2>1, <2>2, Alone, Agree DEF QueueInv, TypeInv
  <2>4. Mode = "capturing" /\ UNCHANGED <<Mode, Waiting>>
    BY <2>1, <2>3, Shown DEF Mode, Waiting, HeadDone
  <2>5. Capture!Take
    BY <2>1, <2>4 DEF Capture!Take, Mode, Waiting
  <2> QED BY <2>5 DEF Capture!Next
<1>2. CASE Unlist(t)
  <2>1. /\ pc[t] = "unlist" /\ UNCHANGED <<done, called, streaming>>
        /\ state' = [state EXCEPT ![buf[t]] = "dequeued"]
    BY <1>2 DEF Unlist, Leave, Goto, devVars
  <2>2. lock = t /\ IInv
    BY <2>1 DEF QueueInv, TypeInv, IInv, Locks
  <2>3. ~Stopping
    BY <2>1, <2>2, OthersWait DEF Stopping
  <2>4. Finished /\ HeadDone
    BY <2>1, <2>2, <2>3, Shown DEF IInv, HeadOnly
  <2>5. /\ Len(queued') = Len(queued) - 1 /\ queued' \in Seq(Buffers)
        /\ \A i \in 1 .. Len(queued') : queued'[i] = queued[i + 1]
    BY <1>2, <2>2, UnlistKeeps DEF IInv, Lists
  <2>6. queued' = Tail(queued)
    <3>1. /\ Tail(queued) \in Seq(Buffers) /\ Len(Tail(queued)) = Len(queued) - 1
          /\ \A i \in 1 .. Len(queued) - 1 : Tail(queued)[i] = queued[i + 1]
      BY <2>4, Shown DEF HeadDone
    <3> QED BY <2>5, <3>1
  <2>7. ~HeadDone'
    <3> SUFFICES ASSUME queued' # <<>> PROVE state'[Head(queued')] # "done"
      BY DEF HeadDone
    <3>1. Head(queued') = queued'[1] /\ 1 \in 1 .. Len(queued')
      BY <2>5
    <3>2. Head(queued') = queued[2] /\ 2 \in 2 .. Len(queued) /\ queued[2] \in Buffers
      BY <2>5, <3>1, Shown
    <3>3. state[queued[2]] \in {"queued", "active"}
      BY <2>2, <2>3, <3>2 DEF IInv, HeadOnly
    <3> QED BY <2>1, <2>2, <3>2, <3>3 DEF IInv, Lists
  <2>8. UNCHANGED <<Mode, Waiting, done>>
    BY <2>1, <2>4, <2>6, <2>7 DEF Mode, Waiting
  <2> QED BY <2>8 DEF Capture!vars, Mode, Waiting
<1> QED BY <1>1, <1>2

LEMMA SeenStep ==
  ASSUME QueueInv, [Next]_vars
  PROVE  [Capture!Next]_(Capture!vars)
<1>1. CASE Interrupt
  BY <1>1, SeenInterrupt
<1>2. CASE UNCHANGED vars
  BY <1>2, Unseen DEF vars, coreVars, devVars
<1>3. ASSUME NEW t \in Threads, Call(t)
      PROVE  [Capture!Next]_(Capture!vars)
  <2>1. ASSUME NEW b \in Buffers, QbufCall(t, b)
        PROVE  Capture!Next
    BY <2>1, SeenQbuf DEF Capture!Next
  <2>2. CASE StreamOnCall(t) \/ DqbufCall(t)
    BY <2>2, Unseen DEF StreamOnCall, DqbufCall, coreVars, devVars
  <2> QED BY <1>3, <2>1, <2>2, SeenStops DEF Call
<1>4. ASSUME NEW t \in Threads, Inside(t)
      PROVE  [Capture!Next]_(Capture!vars)
  <2>1. CASE Activate(t)
    <3>1. /\ buf[t] \in Buffers /\ state[buf[t]] = "queued"
          /\ state' = [state EXCEPT ![buf[t]] = "active"]
          /\ UNCHANGED <<streaming, called, queued, done>>
      BY <2>1 DEF Activate, Goto, devVars, QueueInv, TypeInv, IInv, Handing
    <3> QED BY <3>1, Unseen DEF QueueInv, TypeInv, IInv, Lists
  <2>2. CASE Enqueue(t)
    <3>1. PICK i \in 1 .. Len(queued) :
            state[queued[i]] = "queued" /\ state' = [state EXCEPT ![queued[i]] = "active"]
      BY <2>2 DEF Enqueue
    <3>2. UNCHANGED <<streaming, called, queued, done>> /\ queued[i] \in Buffers
      BY <2>2, Shown DEF Enqueue
    <3> QED BY <3>1, <3>2, Unseen DEF QueueInv, TypeInv, IInv, Lists
  <2>3. CASE SetStreaming(t)
    <3>1. /\ pc[t] = "enqueue" /\ streaming' = TRUE /\ UNCHANGED <<state, queued, done>>
      BY <2>3 DEF SetStreaming, Goto, Started
    <3>2. Mode = "stopped" /\ Mode' = "capturing" /\ UNCHANGED Waiting
      BY <3>1, Shown DEF QueueInv, StopInv, Phases, Mode, Waiting, HeadDone
    <3>3. Capture!Start
      BY <3>1, <3>2 DEF Capture!Start, Mode, Waiting
    <3> QED BY <3>3 DEF Capture!Next
  <2>4. CASE BufQueue(t) \/ ResetCount(t) \/ Sleep(t) \/ Wake(t) \/ WalkEnds(t)
    BY <2>4, Unseen DEF BufQueue, ResetCount, Sleep, Wake, WalkEnds, coreVars, devVars
  <2> QED BY <1>4, <2>1, <2>2, <2>3, <2>4, SeenDqbuf, SeenWalk, SeenStops DEF Inside
<1> QED BY <1>1, <1>2, <1>3, <1>4 DEF Next

(* Driver and core implement the capture queue (camera_irq.c:48-60,        *)
(* camera_vb2.c:73-112), also when a buffer that was queued again has      *)
(* corrupted the list that stop_streaming walks.                           *)
THEOREM ImplementsQueue == Spec => CaptureSpec
<1>1. Init => Capture!Init
  BY DEF Init, Capture!Init, HeadDone
<1>2. QueueInv /\ [Next]_vars => [Capture!Next]_(Capture!vars)
  BY SeenStep
<1> QED BY <1>1, <1>2, QueueInit, QueueKept, PTL DEF Spec, CaptureSpec, Capture!Spec

-----------------------------------------------------------------------------
(* A buffer the user has: DQBUF has returned it, or it was never queued.   *)
(* The handler writes a number into whatever is at the head of the core's  *)
(* list, in whatever state (camera_irq.c:48-52), and stop_streaming walks  *)
(* a list that may still have the buffer (camera_vb2.c:101-106); yet       *)
(* nothing but QBUF and REQBUFS changes a buffer while it is the user's,   *)
(* and it gets on no list of the core.                                     *)
HandsOff ==
  [][\A b \in Buffers :
       /\ state[b] = "dequeued"
       /\ ~\E t \in Threads : QbufCall(t, b) \/ Reqbufs(t)
       => /\ UNCHANGED <<state[b], sequence[b]>>
          /\ b \notin ToSet(queued') \cup ToSet(done')]_vars

LEMMA UsersStay ==
  ASSUME QueueInv, [Next]_vars, NEW b \in Buffers, state[b] = "dequeued",
         ~\E t \in Threads : QbufCall(t, b) \/ Reqbufs(t)
  PROVE  UNCHANGED <<state[b], sequence[b]>>
<1>0. state \in [Buffers -> States] /\ sequence \in [Buffers -> Nat]
  BY DEF QueueInv, TypeInv, IInv, Lists, SequenceInv, Numbers
<1>1. CASE Interrupt
  <2>1. queued # <<>> /\ FirstQueued = queued[1] /\ queued[1] # b
    BY <1>1, Shown DEF Interrupt, FirstQueued
  <2> QED BY <1>0, <1>1, <2>1 DEF Interrupt, Completed
<1>2. CASE UNCHANGED vars
  BY <1>2 DEF vars, coreVars, devVars
<1>3. ASSUME NEW t \in Threads, Call(t)
      PROVE  UNCHANGED <<state[b], sequence[b]>>
  <2>1. ASSUME NEW c \in Buffers, QbufCall(t, c)
        PROVE  UNCHANGED <<state[b], sequence[b]>>
    BY <1>0, <2>1 DEF QbufCall, devVars
  <2>2. CASE StreamOnCall(t) \/ DqbufCall(t) \/ StreamOffCall(t)
    BY <2>2 DEF StreamOnCall, DqbufCall, StreamOffCall, coreVars, devVars
  <2> QED BY <1>3, <2>1, <2>2 DEF Call
<1>4. ASSUME NEW t \in Threads, Inside(t)
      PROVE  UNCHANGED <<state[b], sequence[b]>>
  <2>1. CASE Activate(t)
    <3>1. state[buf[t]] = "queued"
      BY <2>1 DEF Activate, Goto, QueueInv, TypeInv, IInv, Handing
    <3> QED BY <1>0, <2>1, <3>1 DEF Activate, devVars
  <2>2. CASE Enqueue(t)
    BY <1>0, <2>2 DEF Enqueue
  <2>3. CASE Unlist(t) \/ Cancel(t)
    BY <1>0, <2>3 DEF Unlist, Cancel, devVars
  <2>4. CASE Walk(t)
    BY <1>0, <2>4 DEF Walk, GivenBack, Completed
  <2>5. CASE BufQueue(t) \/ SetStreaming(t) \/ ResetCount(t)
    BY <2>5 DEF BufQueue, SetStreaming, ResetCount, coreVars
  <2>6. CASE Sleep(t) \/ Wake(t) \/ Take(t) \/ WalkEnds(t)
    BY <2>6 DEF Sleep, Wake, Take, WalkEnds, coreVars, devVars
  <2> QED BY <1>4, <2>1, <2>2, <2>3, <2>4, <2>5, <2>6 DEF Inside
<1> QED BY <1>1, <1>2, <1>3, <1>4 DEF Next

(* A buffer of the user's is on neither list of the core, and steps that   *)
(* change a buffer find it on one or are calls that name it.               *)
THEOREM UsersBuffersLeftAlone == Spec => HandsOff
<1>1. ASSUME QueueInv, [Next]_vars, NEW b \in Buffers, state[b] = "dequeued",
             ~\E t \in Threads : QbufCall(t, b) \/ Reqbufs(t)
      PROVE  UNCHANGED <<state[b], sequence[b]>> /\ b \notin ToSet(queued') \cup ToSet(done')
  <2>1. UNCHANGED <<state[b], sequence[b]>>
    BY <1>1, UsersStay
  <2>2. QueueInv' /\ state'[b] = "dequeued"
    BY <1>1, <2>1, QueueKept
  <2>3. /\ \A i \in DOMAIN queued' : queued'[i] # b
        /\ \A i \in DOMAIN done' : done'[i] # b
    <3>1. /\ DOMAIN queued' = 1 .. Len(queued') /\ DOMAIN done' = 1 .. Len(done')
          /\ \A i \in 1 .. Len(queued') : state'[queued'[i]] # "dequeued"
          /\ \A i \in 1 .. Len(done') : state'[done'[i]] \in {"done", "error"}
      <4>1. QueueInv' => /\ queued' \in Seq(Buffers) /\ done' \in Seq(Buffers)
                         /\ \A i \in 1 .. Len(queued') : state'[queued'[i]] # "dequeued"
                         /\ \A i \in 1 .. Len(done') : state'[done'[i]] \in {"done", "error"}
        BY DEF QueueInv, TypeInv, Counts, IInv, Lists, Accounted
      <4> QED BY <2>2, <4>1
    <3> QED BY <2>2, <3>1
  <2> QED BY <2>1, <2>3 DEF ToSet
<1>2. QueueInv /\ [Next]_vars =>
        [\A b \in Buffers :
           /\ state[b] = "dequeued"
           /\ ~\E t \in Threads : QbufCall(t, b) \/ Reqbufs(t)
           => /\ UNCHANGED <<state[b], sequence[b]>>
              /\ b \notin ToSet(queued') \cup ToSet(done')]_vars
  BY <1>1
<1> QED BY <1>2, QueueInit, QueueKept, PTL DEF Spec, HandsOff
=============================================================================
