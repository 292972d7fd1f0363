------------------------ MODULE SimpleCaptureProofs ------------------------
(***************************************************************************)
(* Proofs about SimpleCapture, for any number of buffers and of frames.    *)
(* The client only makes calls that CameraBuffers knows, so the invariant  *)
(* of CameraBuffersProofs holds, and with it that DQBUF takes the head of  *)
(* the queued list.  What is added here is what that list is: the buffers  *)
(* in the order of their indices, begun at the one whose turn it is.       *)
(***************************************************************************)
EXTENDS SimpleCapture, CameraQueueProofs

N == Len(ByIndex)
Turn == 1 + (frames % N)

(* The index i places after the one whose turn it is, and round again.     *)
Place(k, i) == IF k + i <= N THEN k + i ELSE k + i - N

(* All buffers are queued, or all but the one in hand.                     *)
AllQueued ==
  /\ Len(queued) = N
  /\ \A i \in 1 .. N : queued[i] = ByIndex[Place(Turn, i - 1)]

OthersQueued ==
  /\ Len(queued) = N - 1
  /\ \A i \in 1 .. N - 1 : queued[i] = ByIndex[Place(Turn, i)]

(* Before any buffer is queued.                                            *)
Early == {"init_device", "killed", "format_set"}

Starting ==
  /\ at \in Early => queued = <<>> /\ index = 0
  /\ at \in Early \cup {"start_capturing"} =>
       pc[Client] = "idle" /\ ~called /\ frames = 0 /\ inHand = NoBuffer
  /\ at = "start_capturing" =>
       Len(queued) = index /\ \A i \in 1 .. index : queued[i] = ByIndex[i]

Capturing ==
  /\ at = "capture_frame" =>
       /\ AllQueued /\ inHand = NoBuffer
       /\ \/ pc[Client] \in {"enqueue", "reset_count"}
          \/ on /\ pc[Client] \in {"idle", "activate", "buf_queue"}
  /\ at = "dequeued" =>
       /\ on /\ frames < NumFrames
       /\ \/ AllQueued /\ inHand = NoBuffer /\ pc[Client] \in {"dqbuf", "sleep"}
          \/ AllQueued /\ inHand = ByIndex[Turn] /\ pc[Client] = "unlist"
          \/ /\ OthersQueued /\ inHand = ByIndex[Turn] /\ pc[Client] = "idle"
             /\ state[inHand] = "dequeued"

Ending ==
  at \in {"stop_capturing", "done"} =>
    inHand = NoBuffer /\ pc[Client] \in {"walk", "cancel", "idle"}

ClientInv ==
  /\ IInv
  /\ at \in Early \cup {"start_capturing", "capture_frame", "dequeued",
                        "stop_capturing", "done"}
  /\ index \in 0 .. N /\ frames \in 0 .. NumFrames /\ errors = 0
  /\ Starting /\ Capturing /\ Ending

-----------------------------------------------------------------------------
(* Turns.                                                                  *)

LEMMA NextRemainder ==
  ASSUME NEW m \in Nat \ {0}, NEW f \in Nat
  PROVE  /\ f % m \in 0 .. m - 1
         /\ (f + 1) % m = IF f % m = m - 1 THEN 0 ELSE (f % m) + 1
<1> DEFINE q == f \div m
           r == f % m
           s == (f + 1) \div m
           u == (f + 1) % m
<1>1. q \in Int /\ r \in 0 .. m - 1 /\ f = m * q + r
  OBVIOUS
<1>2. s \in Int /\ u \in 0 .. m - 1 /\ f + 1 = m * s + u
  OBVIOUS
<1> HIDE DEF q, r, s, u
<1>3. m * (s - q) = m * s - m * q
  BY <1>1, <1>2
<1>4. m * (s - q) = r + 1 - u
  BY <1>1, <1>2, <1>3
<1>5. s - q \in {0, 1}
  <2>1. s - q >= 2 => m * (s - q) >= m * 2
    BY <1>1, <1>2
  <2>2. s - q <= -1 => m * (s - q) <= -m
    BY <1>1, <1>2
  <2> QED BY <1>1, <1>2, <1>4, <2>1, <2>2
<1>6. CASE s - q = 0
  BY <1>1, <1>2, <1>4, <1>6
<1>7. CASE s - q = 1
  BY <1>1, <1>2, <1>4, <1>7
<1> QED BY <1>1, <1>5, <1>6, <1>7 DEF r, u

LEMMA IndexFacts ==
  /\ N \in Nat /\ N >= 2 /\ NumFrames \in Nat
  /\ \A i \in 1 .. N : ByIndex[i] \in Buffers
  /\ Threads = {Client} /\ Client \in Threads
BY ClientAssumption DEF N

LEMMA TurnFacts ==
  ASSUME NEW f \in Nat
  PROVE  /\ 1 + (f % N) \in 1 .. N
         /\ 1 + ((f + 1) % N) = Place(1 + (f % N), 1)
<1>1. N \in Nat \ {0} /\ N >= 2
  BY IndexFacts
<1>2. f % N \in 0 .. N - 1
  BY <1>1, NextRemainder
<1>3. (f + 1) % N = IF f % N = N - 1 THEN 0 ELSE (f % N) + 1
  BY <1>1, NextRemainder
<1> DEFINE r == f % N
           u == (f + 1) % N
<1> HIDE DEF r, u
<1>4. /\ r \in 0 .. N - 1
      /\ u = IF r = N - 1 THEN 0 ELSE r + 1
  BY <1>2, <1>3 DEF r, u
<1>5. 1 + r \in 1 .. N /\ 1 + u = Place(1 + r, 1)
  BY <1>1, <1>4 DEF Place
<1> QED BY <1>5 DEF r, u

(* Before the first frame it is the first buffer's turn.                   *)
LEMMA FirstTurn ==
  ASSUME frames = 0
  PROVE  Turn = 1 /\ \A i \in 1 .. N : Place(Turn, i - 1) = i
<1>1. N \in Nat \ {0}
  BY IndexFacts
<1>2. 0 % N = 0
  BY <1>1
<1>3. Turn = 1
  BY <1>2 DEF Turn
<1> QED BY <1>1, <1>3 DEF Place

LEMMA HeadHasTurn ==
  ASSUME AllQueued, frames \in Nat
  PROVE  queued[1] = ByIndex[Turn] /\ ByIndex[Turn] \in Buffers
<1>1. Turn \in 1 .. N /\ N \in Nat
  BY TurnFacts, IndexFacts DEF Turn
<1>2. Place(Turn, 0) = Turn
  BY <1>1 DEF Place
<1>3. queued[1] = ByIndex[Place(Turn, 1 - 1)]
  BY <1>1 DEF AllQueued
<1> QED BY <1>1, <1>2, <1>3, IndexFacts

(* When the buffer in hand is queued again, it is the next one's turn.     *)
LEMMA Rotates ==
  ASSUME OthersQueued, queued \in Seq(Buffers), frames \in Nat,
         queued' = Append(queued, ByIndex[Turn]), frames' = frames + 1
  PROVE  AllQueued'
<1>1. N \in Nat /\ N >= 2 /\ Turn \in 1 .. N /\ Turn' = Place(Turn, 1)
  BY TurnFacts, IndexFacts DEF Turn
<1>2. /\ Len(queued') = N /\ queued'[N] = ByIndex[Turn]
      /\ \A i \in 1 .. N - 1 : queued'[i] = ByIndex[Place(Turn, i)]
  BY <1>1 DEF OthersQueued
<1>3. /\ Place(Turn', N - 1) = Turn
      /\ \A i \in 1 .. N - 1 : Place(Turn', i - 1) = Place(Turn, i)
  BY <1>1 DEF Place
<1>4. \A i \in 1 .. N : queued'[i] = ByIndex[Place(Turn', i - 1)]
  BY <1>1, <1>2, <1>3
<1> QED BY <1>2, <1>4 DEF AllQueued, N

-----------------------------------------------------------------------------
(* The client's own steps.                                                 *)

LEMMA Parts ==
  ASSUME ClientInv
  PROVE  /\ IInv /\ errors = 0 /\ index \in 0 .. N /\ frames \in 0 .. NumFrames
         /\ frames \in Nat /\ index \in Nat /\ queued \in Seq(Buffers)
         /\ pc \in [Threads -> Places]
BY IndexFacts DEF ClientInv, IInv, Lists, Locks

LEMMA BeginKeeps ==
  ASSUME ClientInv, IInv', SetFormat \/ RequestBuffers \/ QueueNext \/ StreamOn
  PROVE  ClientInv'
<1>0. CASE SetFormat
  <2>1. /\ at = "init_device" /\ at' \in {"format_set", "killed"}
        /\ UNCHANGED <<vars, index, inHand, frames, errors>>
    BY <1>0 DEF SetFormat, Here
  <2> QED BY <2>1 DEF vars, coreVars, threadVars, ClientInv, Starting, Capturing, Ending,
                      Early, N
<1>1. CASE RequestBuffers
  <2>1. /\ at = "format_set" /\ at' = "start_capturing" /\ queued' = <<>>
        /\ UNCHANGED <<index, inHand, frames, errors, pc, called>>
    BY <1>1 DEF RequestBuffers, Here, Reqbufs, threadVars
  <2> QED BY <2>1, IndexFacts DEF ClientInv, Starting, Capturing, Ending, Early, N
<1>2. CASE QueueNext
  <2>1. /\ at = "start_capturing" /\ index < N /\ index' = index + 1
        /\ queued' = Append(queued, ByIndex[index + 1])
        /\ UNCHANGED <<at, inHand, frames, errors, called>> /\ ~called
        /\ pc[Client] = "idle" /\ Len(queued) = index
    BY <1>2 DEF QueueNext, Here, QbufCall, ClientInv, Starting, N
  <2>2. pc' = pc
    BY <1>2, <2>1 DEF QueueNext, QbufCall
  <2>3. index' \in 0 .. N /\ Len(queued') = index'
    BY <2>1, Parts, IndexFacts
  <2>4. \A i \in 1 .. index' : queued'[i] = ByIndex[i]
    BY <2>1, Parts DEF ClientInv, Starting
  <2> QED BY <2>1, <2>2, <2>3, <2>4 DEF ClientInv, Starting, Capturing, Ending, Early, N
<1>3. CASE StreamOn
  <2>1. /\ at = "start_capturing" /\ index = N /\ at' = "capture_frame"
        /\ UNCHANGED <<index, inHand, frames, errors, queued>>
        /\ pc' = [pc EXCEPT ![Client] = "enqueue"]
    BY <1>3 DEF StreamOn, Here, StreamOnCall, Enter, Goto, coreVars, N
  <2>2. pc'[Client] = "enqueue"
    BY <2>1, Parts, IndexFacts
  <2>3. AllQueued'
    BY <2>1, FirstTurn DEF ClientInv, Starting, AllQueued, Turn, N
  <2>4. inHand' = NoBuffer
    BY <2>1 DEF ClientInv, Starting
  <2> QED BY <2>1, <2>2, <2>3, <2>4 DEF ClientInv, Starting, Capturing, Ending, Early, N
<1> QED BY <1>0, <1>1, <1>2, <1>3

LEMMA LoopKeeps ==
  ASSUME ClientInv, IInv', Dequeue \/ Queue
  PROVE  ClientInv'
<1>1. CASE Dequeue
  <2>1. /\ at = "capture_frame" /\ at' = "dequeued" /\ frames < NumFrames /\ on
        /\ UNCHANGED <<index, inHand, frames, errors, queued, on>>
        /\ pc' = [pc EXCEPT ![Client] = "dqbuf"]
    BY <1>1 DEF Dequeue, Here, CapturesMore, DqbufCall, Enter, Goto, coreVars
  <2>2. pc'[Client] = "dqbuf"
    BY <2>1, Parts, IndexFacts
  <2>3. AllQueued' /\ inHand' = NoBuffer
    BY <2>1 DEF ClientInv, Capturing, AllQueued, Turn, N
  <2> QED BY <2>1, <2>2, <2>3 DEF ClientInv, Starting, Capturing, Ending, Early, N
<1>2. CASE Queue
  <2>1. /\ at = "dequeued" /\ at' = "capture_frame" /\ pc[Client] = "idle"
        /\ inHand' = NoBuffer /\ frames' = frames + 1 /\ index' = index
    BY <1>2 DEF Queue, Here
  <2>2. /\ OthersQueued /\ inHand = ByIndex[Turn] /\ state[inHand] = "dequeued"
        /\ on /\ frames < NumFrames
    BY <2>1 DEF ClientInv, Capturing
  <2>3. QbufCall(Client, inHand) /\ errors' = errors
    BY <1>2, <2>2 DEF Queue, Filled, Requeue
  <2>4. queued' = Append(queued, ByIndex[Turn]) /\ on' = on
    BY <2>2, <2>3 DEF QbufCall
  <2>5. AllQueued'
    BY <2>1, <2>2, <2>4, Parts, Rotates
  <2>6. pc' = pc \/ pc' = [pc EXCEPT ![Client] = "activate"]
    BY <2>3 DEF QbufCall, Enter, Goto
  <2>7. pc'[Client] \in {"idle", "activate"}
    BY <2>1, <2>6, Parts, IndexFacts
  <2>8. frames' \in 0 .. NumFrames
    BY <2>1, <2>2, Parts, IndexFacts
  <2> QED BY <2>1, <2>2, <2>3, <2>4, <2>5, <2>7, <2>8
          DEF ClientInv, Starting, Capturing, Ending, Early, N
<1> QED BY <1>1, <1>2

LEMMA EndKeeps ==
  ASSUME ClientInv, IInv', StreamOff \/ Exit
  PROVE  ClientInv'
<1>1. CASE StreamOff
  <2>1. /\ at = "capture_frame" /\ at' = "stop_capturing"
        /\ UNCHANGED <<index, inHand, frames, errors>>
        /\ \E to \in {"walk", "cancel"} : pc' = [pc EXCEPT ![Client] = to]
    BY <1>1 DEF StreamOff, Here, StreamOffCall, Enter, Goto
  <2>2. pc'[Client] \in {"walk", "cancel"} /\ inHand' = NoBuffer
    BY <2>1, Parts, IndexFacts DEF ClientInv, Capturing
  <2> QED BY <2>1, <2>2 DEF ClientInv, Starting, Capturing, Ending, Early, N
<1>2. CASE Exit
  <2>1. /\ at = "stop_capturing" /\ at' = "done"
        /\ UNCHANGED <<index, inHand, frames, errors, pc>>
    BY <1>2 DEF Exit, Here, vars, threadVars
  <2> QED BY <2>1 DEF ClientInv, Starting, Capturing, Ending, Early, N
<1> QED BY <1>1, <1>2

-----------------------------------------------------------------------------
(* The kernel's part of the calls.  A step of it changes where the client  *)
(* is in the kernel, and nothing of the client but the buffer in hand.     *)
LEMMA InKernel ==
  ASSUME ClientInv, Kernel
  PROVE  /\ UNCHANGED <<at, index, frames, errors>>
         /\ Inside(Client)
         /\ at \notin Early \cup {"start_capturing"}
         /\ inHand' = IF done' # done /\ pc[Client] = "dqbuf" THEN Head(done) ELSE inHand
<1>1. Inside(Client) /\ UNCHANGED <<at, index, frames, errors>>
  BY DEF Kernel
<1>2. pc[Client] # "idle"
  BY <1>1 DEF Inside, Activate, BufQueue, Enqueue, SetStreaming, ResetCount, Sleep, Wake,
              Take, Unlist, Walk, WalkEnds, Cancel, Goto, Leave
<1> QED BY <1>1, <1>2 DEF Kernel, ClientInv, Starting

(* Before and between the frames: a buffer is handed over, or the stream   *)
(* is started.                                                             *)
LEMMA FrameKeeps ==
  ASSUME ClientInv, IInv', Kernel, at = "capture_frame"
  PROVE  ClientInv'
<1>1. /\ AllQueued /\ inHand = NoBuffer
      /\ \/ pc[Client] \in {"enqueue", "reset_count"}
         \/ on /\ pc[Client] \in {"idle", "activate", "buf_queue"}
  BY DEF ClientInv, Capturing
<1>2. inHand' = NoBuffer /\ UNCHANGED <<at, index, frames, errors>>
  BY <1>1, InKernel
<1>3. /\ queued' = queued
      /\ \/ pc'[Client] \in {"enqueue", "reset_count"}
         \/ on' /\ pc'[Client] \in {"idle", "activate", "buf_queue"}
  <2>1. Client \in DOMAIN pc
    BY Parts, IndexFacts
  <2>2. CASE Activate(Client)
    BY <1>1, <2>1, <2>2 DEF Activate, Goto
  <2>3. CASE BufQueue(Client)
    BY <1>1, <2>1, <2>3 DEF BufQueue, Leave, Goto, coreVars
  <2>4. CASE Enqueue(Client)
    BY <1>1, <2>1, <2>4 DEF Enqueue, threadVars
  <2>5. CASE SetStreaming(Client)
    BY <1>1, <2>1, <2>5 DEF SetStreaming, Goto
  <2>6. CASE ResetCount(Client)
    BY <1>1, <2>1, <2>6 DEF ResetCount, Leave, Goto
  <2> QED BY <1>1, <2>2, <2>3, <2>4, <2>5, <2>6, InKernel
          DEF Inside, Sleep, Wake, Take, Unlist, Walk, WalkEnds, Cancel, Goto, Leave
<1>4. AllQueued'
  BY <1>1, <1>2, <1>3 DEF AllQueued, Turn, N
<1> QED BY <1>1, <1>2, <1>3, <1>4 DEF ClientInv, Starting, Capturing, Ending, Early, N

(* DQBUF waits, takes the head, which has the turn, and unlists it.        *)
LEMMA DequeueKeeps ==
  ASSUME ClientInv, IInv', Kernel, at = "dequeued"
  PROVE  ClientInv'
<1>1. /\ on /\ frames < NumFrames /\ AllQueued
      /\ \/ inHand = NoBuffer /\ pc[Client] \in {"dqbuf", "sleep"}
         \/ inHand = ByIndex[Turn] /\ pc[Client] = "unlist"
  BY InKernel DEF ClientInv, Capturing, Inside, Activate, BufQueue, Enqueue, SetStreaming,
                  ResetCount, Sleep, Wake, Take, Unlist, Walk, WalkEnds, Cancel, Goto, Leave
<1>2. UNCHANGED <<at, index, frames, errors>>
  BY InKernel
<1>3. queued[1] = ByIndex[Turn] /\ Client \in Threads /\ Client \in DOMAIN pc
  BY <1>1, Parts, HeadHasTurn, IndexFacts
<1>4. CASE Sleep(Client) \/ Wake(Client)
  <2>1. UNCHANGED <<queued, done, on>> /\ pc'[Client] \in {"dqbuf", "sleep"}
    BY <1>1, <1>3, <1>4 DEF Sleep, Wake, Goto, coreVars
  <2>2. inHand' = NoBuffer
    BY <1>1, <1>4, <2>1, InKernel DEF Sleep, Wake, Goto
  <2>3. AllQueued'
    BY <1>1, <1>2, <2>1 DEF AllQueued, Turn, N
  <2> QED BY <1>1, <1>2, <2>1, <2>2, <2>3 DEF ClientInv, Starting, Capturing, Ending, Early, N
<1>5. CASE Take(Client)
  <2>1. /\ pc[Client] = "dqbuf" /\ pc'[Client] = "unlist" /\ done # <<>>
        /\ done' = Tail(done) /\ UNCHANGED <<queued, on>>
    BY <1>3, <1>5 DEF Take, Goto
  <2>2. ~Stopping
    BY <2>1, IndexFacts DEF Stopping
  <2>3. done = <<queued[1]>>
    BY <2>1, <2>2 DEF ClientInv, IInv, HeadOnly
  <2>4. done' # done /\ Head(done) = queued[1]
    BY <2>1, <2>3
  <2>5. inHand' = ByIndex[Turn]
    BY <1>3, <2>1, <2>4, InKernel
  <2>6. AllQueued' /\ Turn' = Turn
    BY <1>1, <1>2, <2>1 DEF AllQueued, Turn, N
  <2> QED BY <1>1, <1>2, <2>1, <2>5, <2>6 DEF ClientInv, Starting, Capturing, Ending, Early, N
<1>6. CASE Unlist(Client)
  <2>1. /\ pc[Client] = "unlist" /\ pc'[Client] = "idle" /\ UNCHANGED <<done, on>>
    BY <1>3, <1>6 DEF Unlist, Leave, Goto
  <2>2. /\ buf[Client] = queued[1] /\ state'[buf[Client]] = "dequeued"
        /\ Len(queued') = Len(queued) - 1
        /\ \A i \in 1 .. Len(queued') : queued'[i] = queued[i + 1]
    BY <1>3, <1>6, Parts, UnlistKeeps
  <2>3. inHand' = ByIndex[Turn] /\ Turn' = Turn
    BY <1>1, <1>2, <2>1, InKernel DEF Turn, N
  <2>4. OthersQueued'
    <3>1. N \in Nat /\ Len(queued') = N - 1
      BY <1>1, <2>2, IndexFacts DEF AllQueued
    <3>2. \A i \in 1 .. N - 1 : i + 1 \in 1 .. N /\ (i + 1) - 1 = i
      BY <3>1
    <3>3. \A i \in 1 .. N - 1 : queued'[i] = ByIndex[Place(Turn, i)]
      BY <1>1, <2>2, <3>1, <3>2 DEF AllQueued
    <3> QED BY <2>3, <3>1, <3>3 DEF OthersQueued, N
  <2>5. state'[inHand'] = "dequeued"
    BY <1>3, <2>2, <2>3
  <2> QED BY <1>1, <1>2, <2>1, <2>3, <2>4, <2>5
          DEF ClientInv, Starting, Capturing, Ending, Early, N
<1> QED BY <1>1, <1>4, <1>5, <1>6, InKernel
        DEF Inside, Activate, BufQueue, Enqueue, SetStreaming, ResetCount, Walk, WalkEnds,
            Cancel, Goto, Leave

LEMMA StopKeeps ==
  ASSUME ClientInv, IInv', Kernel, at \in {"stop_capturing", "done"}
  PROVE  ClientInv'
<1>1. inHand = NoBuffer /\ pc[Client] \in {"walk", "cancel", "idle"}
  BY DEF ClientInv, Ending
<1>2. inHand' = NoBuffer /\ UNCHANGED <<at, index, frames, errors>>
  BY <1>1, InKernel
<1>3. Client \in DOMAIN pc
  BY Parts, IndexFacts
<1>4. Walk(Client) \/ WalkEnds(Client) \/ Cancel(Client)
  BY <1>1, InKernel DEF Inside, Activate, BufQueue, Enqueue, SetStreaming, ResetCount, Sleep,
                        Wake, Take, Unlist, Goto, Leave
<1>5. pc'[Client] \in {"walk", "cancel", "idle"}
  BY <1>3, <1>4 DEF Walk, WalkEnds, Cancel, Goto, Leave
<1> QED BY <1>2, <1>5 DEF ClientInv, Starting, Capturing, Ending, Early, N

-----------------------------------------------------------------------------
(* A frame changes no list of the core but the done list, and no buffer    *)
(* that is the client's.                                                   *)
LEMMA FrameEndKeeps ==
  ASSUME ClientInv, IInv', Interrupt, UNCHANGED clientVars
  PROVE  ClientInv'
<1>1. UNCHANGED <<queued, pc, on, called, at, index, inHand, frames, errors>>
  BY DEF Interrupt, threadVars, clientVars
<1>2. inHand \in Buffers /\ state[inHand] = "dequeued" => state'[inHand] = "dequeued"
  BY Parts, InterruptKeeps
<1>3. ByIndex[Turn] \in Buffers
  BY Parts, TurnFacts, IndexFacts DEF Turn
<1>4. Starting' /\ Ending'
  BY <1>1 DEF ClientInv, Starting, Ending
<1>5. (AllQueued' <=> AllQueued) /\ (OthersQueued' <=> OthersQueued) /\ Turn' = Turn
  BY <1>1 DEF AllQueued, OthersQueued, Turn, N
<1>6. Capturing'
  BY <1>1, <1>2, <1>3, <1>5 DEF ClientInv, Capturing
<1> QED BY <1>1, <1>4, <1>6 DEF ClientInv, N

(* What the client does is what CameraBuffers lets threads do.             *)
LEMMA ClientCalls ==
  ASSUME ClientInv, [ClientNext]_allVars
  PROVE  [Next]_vars
<1>1. CASE Program
  <2>1. \A b \in Buffers : QbufCall(Client, b) => Next
    BY IndexFacts DEF Next, Call
  <2>2. CASE QueueNext
    BY <2>1, <2>2, Parts, IndexFacts DEF QueueNext, N
  <2>3. CASE Queue
    <3>1. Here("dequeued") => inHand \in Buffers /\ state[inHand] = "dequeued"
      BY Parts, TurnFacts, IndexFacts DEF Here, ClientInv, Capturing, Turn
    <3> QED BY <2>1, <2>3, <3>1 DEF Queue, Filled, Requeue
  <2> QED BY <1>1, <2>2, <2>3, IndexFacts
          DEF Program, SetFormat, RequestBuffers, StreamOn, Dequeue, StreamOff, Exit, Next, Call
<1> QED BY <1>1, IndexFacts DEF ClientNext, Kernel, Next, allVars

LEMMA ClientStep ==
  ASSUME ClientInv, [ClientNext]_allVars
  PROVE  ClientInv'
<1>1. [Next]_vars
  BY ClientCalls
<1>2. IInv'
  BY <1>1, Parts, StepKeeps
<1>3. CASE Program
  BY <1>2, <1>3, BeginKeeps, LoopKeeps, EndKeeps DEF Program
<1>4. CASE Kernel
  BY <1>2, <1>4, InKernel, FrameKeeps, DequeueKeeps, StopKeeps DEF ClientInv
<1>5. CASE Interrupt /\ UNCHANGED clientVars
  BY <1>2, <1>5, FrameEndKeeps
<1>6. CASE UNCHANGED allVars
  BY <1>2, <1>6 DEF allVars, vars, coreVars, threadVars, clientVars, ClientInv, Starting,
                    Capturing, Ending, AllQueued, OthersQueued, Turn, N
<1> QED BY <1>3, <1>4, <1>5, <1>6 DEF ClientNext

LEMMA ClientAlways == ClientSpec => []ClientInv
<1>1. ClientInit => ClientInv
  <2>1. ClientInit => pc[Client] = "idle" /\ ~called /\ queued = <<>>
    BY IndexFacts DEF ClientInit, Init
  <2> QED BY <2>1, InitHolds, IndexFacts
          DEF ClientInit, ClientInv, Starting, Capturing, Ending, Early
<1>2. ClientInv /\ [ClientNext]_allVars => ClientInv'
  BY ClientStep
<1> QED BY <1>1, <1>2, PTL DEF ClientSpec

(* The client sees its buffers in turn (simple_capture.c:159 to 187),      *)
(* however many it asked for.                                              *)
THEOREM InTurn == ClientSpec => []BuffersRotate
<1>1. ClientInv => BuffersRotate
  BY DEF ClientInv, Starting, Capturing, Ending, BuffersRotate, Turn, N
<1> QED BY <1>1, ClientAlways, PTL

(* The buffer the client has in hand is its own for the core too, and no   *)
(* call of its loop is refused.                                            *)
THEOREM HandIsFree == ClientSpec => []InHandIsFree
<1>1. ASSUME ClientInv, Here("dequeued")
      PROVE  /\ inHand # NoBuffer /\ state[inHand] = "dequeued"
             /\ inHand \notin ToSet(queued) \cup ToSet(done)
  <2>1. inHand = ByIndex[Turn] /\ state[inHand] = "dequeued"
    BY <1>1 DEF ClientInv, Capturing, Here
  <2>2. inHand \in Buffers
    BY <1>1, <2>1, Parts, TurnFacts, IndexFacts DEF Turn
  <2>3. \A i \in 1 .. Len(queued) : queued[i] # inHand
    BY <1>1, <2>1 DEF ClientInv, IInv, Lists
  <2>4. ~Stopping
    BY <1>1, IndexFacts DEF Here, Stopping
  <2>5. done = <<>> \/ (queued # <<>> /\ done = <<queued[1]>>)
    BY <1>1, <2>4 DEF ClientInv, IInv, HeadOnly, Finished
  <2>6. queued # <<>> => queued[1] # inHand
    BY <1>1, <2>3, Parts
  <2>7. inHand \notin ToSet(queued)
    BY <1>1, <2>3, Parts DEF ToSet
  <2>8. inHand \notin ToSet(done)
    BY <2>5, <2>6 DEF ToSet
  <2> QED BY <2>1, <2>2, <2>7, <2>8, NamesAreApart
<1>2. ClientInv => InHandIsFree
  BY <1>1 DEF ClientInv, InHandIsFree
<1> QED BY <1>2, ClientAlways, PTL

(* Type correctness of the client; it never captures more than it was      *)
(* asked for.                                                              *)
THEOREM ClientTypes == ClientSpec => []ClientTypeOK
<1>1. ASSUME ClientInv
      PROVE  inHand \in Buffers \cup {NoBuffer}
  <2>1. inHand = NoBuffer \/ inHand = ByIndex[Turn]
    BY <1>1 DEF ClientInv, Starting, Capturing, Ending, Early
  <2>2. ByIndex[Turn] \in Buffers
    BY <1>1, Parts, TurnFacts, IndexFacts DEF Turn
  <2> QED BY <2>1, <2>2
<1>2. ClientInv => ClientTypeOK
  BY <1>1 DEF ClientInv, ClientTypeOK, Early, N
<1> QED BY <1>2, ClientAlways, PTL

-----------------------------------------------------------------------------
(* The client on the driver: what is proved of all threads holds for it.   *)

LEMMA ClientRuns == ClientSpec => Spec
<1>1. ClientInit => Init
  BY DEF ClientInit
<1>2. ClientInv /\ [ClientNext]_allVars => [Next]_vars
  BY ClientCalls
<1> QED BY <1>1, <1>2, ClientAlways, PTL DEF ClientSpec, Spec

(* Of the driver the client sees the promised queue (simple_capture.c:129  *)
(* to 205), and numbers that rise, although the list in the driver is      *)
(* corrupt from the first buffer on that it queues again.                  *)
THEOREM ClientSeesQueue == ClientSpec => CaptureSpec /\ SequenceRises
BY ClientRuns, ImplementsQueue, NumbersRise, PTL

-----------------------------------------------------------------------------
(* Where the client fails.                                                 *)

NothingAsked == at \in {"init_device", "killed"} /\ queued = <<>> /\ index = 0 /\ frames = 0

(* On the driver as it is, the client is killed in its format call         *)
(* (simple_capture.c:70, camera_v4l2.c:127) or has not come to it: it      *)
(* never asks for buffers, queues none and captures no frame.              *)
THEOREM FormatKills ==
  ASSUME ~DrvdataSet
  PROVE  ClientSpec => []NothingAsked
<1>1. ClientInit => NothingAsked
  BY DEF ClientInit, Init, NothingAsked
<1>2. ASSUME ClientInv, NothingAsked, [ClientNext]_allVars
      PROVE  NothingAsked'
  <2>1. CASE Program
    BY <1>2, <2>1 DEF Program, SetFormat, RequestBuffers, QueueNext, StreamOn, Dequeue, Queue,
                      StreamOff, Exit, Here, NothingAsked, vars, coreVars
  <2>2. ~Kernel
    BY <1>2, InKernel DEF NothingAsked, Early
  <2>3. CASE Interrupt /\ UNCHANGED clientVars
    BY <1>2, <2>3 DEF Interrupt, clientVars, NothingAsked
  <2>4. CASE UNCHANGED allVars
    BY <1>2, <2>4 DEF allVars, vars, coreVars, clientVars, NothingAsked
  <2> QED BY <1>2, <2>1, <2>2, <2>3, <2>4 DEF ClientNext
<1> QED BY <1>1, <1>2, ClientAlways, PTL DEF ClientSpec

CrashesOnlyThere ==
  /\ crashed => at = "stop_capturing"
  /\ at = "killed" => ~DrvdataSet

CrashInv ==
  /\ CrashesOnlyThere
  /\ at \in Early => links = EmptyList(Buffers)
  /\ at = "done" => pc[Client] = "idle"

LEMMA CrashStep ==
  ASSUME ClientInv, CrashInv, [ClientNext]_allVars
  PROVE  CrashInv'
<1>1. Client \in Threads
  BY IndexFacts
<1>2. CASE Program
  <2>0. CASE SetFormat
    BY <2>0 DEF SetFormat, Here, Running, CrashInv, CrashesOnlyThere, Early, vars, devVars,
                cpuVars
  <2>1. CASE RequestBuffers
    <3>1. links = EmptyList(Buffers) /\ links[Head0].next = Head0 /\ ~crashed
      BY <2>1 DEF RequestBuffers, Here, CrashInv, CrashesOnlyThere, Early, EmptyList
    <3>2. ~crashed' /\ at' = "start_capturing"
      BY <2>1, <3>1 DEF RequestBuffers, Reqbufs
    <3> QED BY <3>2 DEF CrashInv, CrashesOnlyThere, Early
  <2>2. CASE Exit
    BY <2>2 DEF Exit, Here, Running, CrashInv, CrashesOnlyThere, Early, vars, threadVars, cpuVars
  <2>3. CASE QueueNext \/ StreamOn \/ Dequeue \/ Queue \/ StreamOff
    <3>1. ~crashed /\ crashed' = crashed
      BY <2>3 DEF QueueNext, StreamOn, Dequeue, Queue, StreamOff, Here, Running, QbufCall,
                  StreamOnCall, DqbufCall, StreamOffCall, Requeue, cpuVars, vars
    <3>2. at' \notin Early \cup {"done"}
      BY <2>3 DEF QueueNext, StreamOn, Dequeue, Queue, StreamOff, Here, Early
    <3> QED BY <3>1, <3>2 DEF CrashInv, CrashesOnlyThere, Early
  <2> QED BY <1>2, <2>0, <2>1, <2>2, <2>3 DEF Program
<1>3. CASE Kernel
  <2>1. at' = at /\ Inside(Client) /\ pc[Client] # "idle"
    BY <1>3 DEF Kernel, Inside, Activate, BufQueue, Enqueue, SetStreaming, ResetCount, Sleep,
                Wake, Take, Unlist, Walk, WalkEnds, Cancel, Goto, Leave
  <2>2. at \notin Early \cup {"done"}
    BY <2>1 DEF ClientInv, Starting, Early, CrashInv
  <2>3. at # "stop_capturing" => crashed' = crashed
    <3>1. pc[Client] = "walk" => at = "stop_capturing"
      BY <2>2 DEF ClientInv, Starting, Capturing, Early
    <3> QED BY <2>1, <3>1 DEF Inside, Activate, BufQueue, Enqueue, SetStreaming, ResetCount,
                Sleep, Wake, Take, Unlist, Walk, WalkEnds, Cancel, cpuVars
  <2> QED BY <2>1, <2>2, <2>3 DEF CrashInv, CrashesOnlyThere, Early
<1>4. CASE Interrupt /\ UNCHANGED clientVars
  BY <1>4 DEF Interrupt, clientVars, threadVars, CrashInv, CrashesOnlyThere
<1>5. CASE UNCHANGED allVars
  BY <1>5 DEF allVars, vars, devVars, cpuVars, threadVars, clientVars, CrashInv, CrashesOnlyThere
<1> QED BY <1>2, <1>3, <1>4, <1>5 DEF ClientNext

(* The client is killed only where drvdata is not set, and if the kernel   *)
(* crashes under it otherwise, then when it stops the stream               *)
(* (simple_capture.c:198) and in no call before.  REQBUFS finds an empty   *)
(* list, and the calls that follow add to the list by the pointers of its  *)
(* head only, which no requeueing poisons.                                 *)
THEOREM CrashAtStop == ClientSpec => []CrashesOnlyThere
<1>1. ClientInit => CrashInv
  BY DEF ClientInit, Init, CrashInv, CrashesOnlyThere
<1>2. CrashInv => CrashesOnlyThere
  BY DEF CrashInv
<1> QED BY <1>1, <1>2, CrashStep, ClientAlways, PTL DEF ClientSpec
=============================================================================
