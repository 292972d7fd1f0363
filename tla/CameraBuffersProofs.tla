------------------------ MODULE CameraBuffersProofs ------------------------
(***************************************************************************)
(* Proofs about CameraBuffers, for any number of buffers, threads and      *)
(* frames, on one processor or several.                                    *)
(*                                                                         *)
(* The inductive invariant says who holds the lock of the queue, and that  *)
(* as long as no stop is going on the done list has the head of the queued *)
(* list or nothing: the handler looks at no other buffer, and the head     *)
(* stays on the queued list until DQBUF has finished with it.  What the    *)
(* driver's own list looks like, which a buffer queued again corrupts,     *)
(* plays no part in it.                                                    *)
(***************************************************************************)
EXTENDS CameraBuffers, SequenceTheorems, TLAPS

States == {"dequeued", "queued", "active", "done", "error"}
Places == {"idle", "activate", "buf_queue", "enqueue", "reset_count", "dqbuf", "sleep",
           "unlist", "walk", "cancel"}

(* A call that is in the kernel and not asleep has the lock.               *)
Locks ==
  /\ pc \in [Threads -> Places]
  /\ \A t \in Threads : pc[t] \notin {"idle", "sleep"} => lock = t

(* The queued list has every buffer once, and none that is the user's.     *)
Lists ==
  /\ state \in [Buffers -> States]
  /\ queued \in Seq(Buffers)
  /\ \A i, j \in 1 .. Len(queued) : queued[i] = queued[j] => i = j
  /\ \A i \in 1 .. Len(queued) : state[queued[i]] # "dequeued"

(* The buffer that a thread is about to hand to the driver.                *)
Handing ==
  /\ buf = [t \in Threads |-> buf[t]]
  /\ \A t \in Threads : pc[t] = "activate" => buf[t] \in Buffers /\ state[buf[t]] = "queued"

Stopping == \E t \in Threads : pc[t] \in {"walk", "cancel"}

Finished ==
  /\ queued # <<>>
  /\ state[queued[1]] = "done"

HeadOnly ==
  ~Stopping =>
    /\ \A i \in 2 .. Len(queued) : state[queued[i]] \in {"queued", "active"}
    /\ done = <<>> \/ (Finished /\ done = <<queued[1]>>)
    /\ \A t \in Threads : pc[t] = "unlist" => Finished /\ done = <<>> /\ buf[t] = queued[1]

IInv == Locks /\ Lists /\ Handing /\ HeadOnly

-----------------------------------------------------------------------------
(* Entering and leaving a call.                                            *)

LEMMA OthersWait ==
  ASSUME IInv, NEW t \in Threads, lock = t \/ lock = Free
  PROVE  \A u \in Threads : u # t => pc[u] \in {"idle", "sleep"}
BY NamesAreApart DEF IInv, Locks, Places

LEMMA LocksKept ==
  ASSUME IInv, NEW t \in Threads, NEW from \in Places, NEW to \in Places,
         \/ lock = Free /\ lock' = t
         \/ lock' = lock /\ (from \notin {"idle", "sleep"} \/ to \in {"idle", "sleep"})
         \/ lock' = Free /\ lock = t /\ to \in {"idle", "sleep"},
         Goto(t, from, to)
  PROVE  Locks'
<1>1. pc[t] = from /\ pc' = [pc EXCEPT ![t] = to]
  BY DEF Goto
<1>2. pc' \in [Threads -> Places] /\ pc'[t] = to /\ \A u \in Threads : u # t => pc'[u] = pc[u]
  BY <1>1 DEF IInv, Locks
<1>3. CASE lock' = lock
  BY <1>1, <1>2, <1>3, NamesAreApart DEF IInv, Locks
<1>4. CASE lock = Free \/ lock = t
  <2>1. \A u \in Threads : u # t => pc[u] \in {"idle", "sleep"}
    BY <1>4, OthersWait
  <2> QED BY <1>1, <1>2, <2>1, NamesAreApart DEF IInv, Locks
<1> QED BY <1>3, <1>4

(* A step that moves one thread and changes no list and no buffer, and     *)
(* that neither begins to hand a buffer over nor to take one off the list. *)
LEMMA MoveKeeps ==
  ASSUME IInv, Locks', NEW t \in Threads, NEW to \in Places,
         pc' = [pc EXCEPT ![t] = to], to \notin {"activate", "unlist"},
         buf' = buf \/ (\E x : buf' = [buf EXCEPT ![t] = x]),
         UNCHANGED <<state, queued, done>>,
         Stopping => Stopping'
  PROVE  IInv'
<1>1. /\ buf' = [u \in Threads |-> buf'[u]]
      /\ \A u \in Threads : u # t => buf'[u] = buf[u]
  BY DEF IInv, Handing
<1>2. pc'[t] = to /\ \A u \in Threads : u # t => pc'[u] = pc[u]
  BY DEF IInv, Locks
<1>3. Lists' /\ Handing'
  BY <1>1, <1>2 DEF IInv, Lists, Handing
<1>4. HeadOnly'
  BY <1>1, <1>2 DEF IInv, HeadOnly, Finished
<1> QED BY <1>3, <1>4 DEF IInv

LEMMA CallsMove ==
  ASSUME IInv, NEW t \in Threads,
         \/ StreamOnCall(t) \/ DqbufCall(t) \/ StreamOffCall(t)
         \/ BufQueue(t) \/ SetStreaming(t) \/ ResetCount(t)
         \/ Sleep(t) \/ Wake(t) \/ WalkEnds(t)
  PROVE  IInv'
<1>1. CASE StreamOnCall(t)
  <2>1. Locks'
    BY <1>1, LocksKept DEF StreamOnCall, Enter, Places
  <2>2. Stopping => Stopping'
    BY <1>1, NamesAreApart DEF IInv, Locks, Stopping, StreamOnCall, Enter
  <2> QED BY <1>1, <2>1, <2>2, MoveKeeps DEF StreamOnCall, Enter, Goto, coreVars, Places
<1>2. CASE DqbufCall(t)
  <2>1. Locks'
    BY <1>2, LocksKept DEF DqbufCall, Enter, Places
  <2>2. Stopping => Stopping'
    BY <1>2, NamesAreApart DEF IInv, Locks, Stopping, DqbufCall, Enter
  <2> QED BY <1>2, <2>1, <2>2, MoveKeeps DEF DqbufCall, Enter, Goto, coreVars, Places
<1>3. CASE StreamOffCall(t)
  <2>1. PICK to \in {"walk", "cancel"} : Enter(t, to)
    BY <1>3 DEF StreamOffCall
  <2>2. Locks'
    BY <2>1, LocksKept DEF Enter, Places
  <2>3. Stopping'
    BY <2>1 DEF IInv, Locks, Stopping, Enter, Goto
  <2>4. buf' = buf \/ \E x : buf' = [buf EXCEPT ![t] = x]
    BY <1>3 DEF StreamOffCall
  <2>5. UNCHANGED <<state, queued, done>> /\ pc' = [pc EXCEPT ![t] = to]
    BY <1>3, <2>1 DEF StreamOffCall, Enter, Goto, coreVars
  <2> QED BY <2>2, <2>3, <2>4, <2>5, MoveKeeps DEF Places
<1>4. CASE BufQueue(t)
  <2>1. lock = t
    BY <1>4 DEF BufQueue, Leave, Goto, IInv, Locks
  <2>2. Locks'
    BY <1>4, <2>1, LocksKept DEF BufQueue, Leave, Places
  <2>3. Stopping => Stopping'
    BY <1>4 DEF BufQueue, Leave, Goto, IInv, Locks, Stopping
  <2>4. \E x : buf' = [buf EXCEPT ![t] = x]
    BY <1>4 DEF BufQueue
  <2>5. UNCHANGED <<state, queued, done>> /\ pc' = [pc EXCEPT ![t] = "idle"]
    BY <1>4 DEF BufQueue, Leave, Goto, coreVars
  <2> QED BY <2>2, <2>3, <2>4, <2>5, MoveKeeps DEF Places
<1>5. CASE SetStreaming(t)
  <2>1. Locks'
    BY <1>5, LocksKept DEF SetStreaming, Places
  <2>2. Stopping => Stopping'
    BY <1>5 DEF SetStreaming, Goto, IInv, Locks, Stopping
  <2> QED BY <1>5, <2>1, <2>2, MoveKeeps DEF SetStreaming, Goto, Places
<1>6. CASE ResetCount(t)
  <2>1. lock = t
    BY <1>6 DEF ResetCount, Leave, Goto, IInv, Locks
  <2>2. Locks'
    BY <1>6, <2>1, LocksKept DEF ResetCount, Leave, Places
  <2>3. Stopping => Stopping'
    BY <1>6 DEF ResetCount, Leave, Goto, IInv, Locks, Stopping
  <2> QED BY <1>6, <2>2, <2>3, MoveKeeps DEF ResetCount, Leave, Goto, Places
<1>7. CASE Sleep(t)
  <2>1. lock = t
    BY <1>7 DEF Sleep, Goto, IInv, Locks
  <2>2. Locks'
    BY <1>7, <2>1, LocksKept DEF Sleep, Places
  <2>3. Stopping => Stopping'
    BY <1>7 DEF Sleep, Goto, IInv, Locks, Stopping
  <2> QED BY <1>7, <2>2, <2>3, MoveKeeps DEF Sleep, Goto, coreVars, Places
<1>8. CASE Wake(t)
  <2>1. PICK to \in {"dqbuf", "idle"} :
          /\ Goto(t, "sleep", to) /\ lock = Free
          /\ lock' = t \/ (lock' = lock /\ to = "idle")
          /\ UNCHANGED <<state, queued, done, buf>>
    BY <1>8 DEF Wake, coreVars
  <2>2. Locks'
    BY <2>1, LocksKept DEF Places
  <2>3. Stopping => Stopping'
    BY <2>1 DEF Goto, IInv, Locks, Stopping
  <2> QED BY <2>1, <2>2, <2>3, MoveKeeps DEF Goto, Places
<1>9. CASE WalkEnds(t)
  <2>1. Locks'
    BY <1>9, LocksKept DEF WalkEnds, Places
  <2>2. Stopping'
    BY <1>9 DEF WalkEnds, Goto, IInv, Locks, Stopping
  <2> QED BY <1>9, <2>1, <2>2, MoveKeeps DEF WalkEnds, Goto, coreVars, Places
<1> QED BY <1>1, <1>2, <1>3, <1>4, <1>5, <1>6, <1>7, <1>8, <1>9

-----------------------------------------------------------------------------
(* The interrupt completes the head, and no other buffer.                  *)
LEMMA InterruptKeeps ==
  ASSUME IInv, Interrupt
  PROVE  /\ IInv'
         /\ \A b \in Buffers : state[b] = "dequeued" => state'[b] = "dequeued"
<1>1. queued # <<>> /\ FirstQueued = queued[1] /\ queued[1] \in Buffers
  BY DEF Interrupt, FirstQueued, IInv, Lists
<1>2. UNCHANGED <<queued, pc, lock, buf>>
  BY DEF Interrupt, threadVars
<1>3. \/ UNCHANGED <<state, done>>
      \/ /\ state[queued[1]] = "active"
         /\ state' = [state EXCEPT ![queued[1]] = "done"]
         /\ done' = Append(done, queued[1])
  BY <1>1 DEF Interrupt, Completed
<1>4. CASE UNCHANGED <<state, done>>
  BY <1>2, <1>4 DEF IInv, Locks, Lists, Handing, HeadOnly, Finished, Stopping
<1>5. CASE /\ state[queued[1]] = "active"
           /\ state' = [state EXCEPT ![queued[1]] = "done"]
           /\ done' = Append(done, queued[1])
  <2>1. Locks' /\ Handing'
    BY <1>2, <1>5 DEF IInv, Locks, Lists, Handing
  <2>2. Lists'
    BY <1>1, <1>2, <1>5 DEF IInv, Lists, States
  <2>3. HeadOnly'
    <3> SUFFICES ASSUME ~Stopping PROVE HeadOnly'
      BY <1>2 DEF HeadOnly, Stopping
    <3>1. done = <<>> /\ \A t \in Threads : pc[t] # "unlist"
      BY <1>5 DEF IInv, HeadOnly, Finished
    <3>2. done' = <<queued[1]>> /\ Finished'
      BY <1>1, <1>2, <1>5, <3>1 DEF Finished, IInv, Lists
    <3>3. \A i \in 2 .. Len(queued) : queued[i] # queued[1] /\ queued[i] \in Buffers
      BY <1>1 DEF IInv, Lists
    <3>4. \A i \in 2 .. Len(queued) : state'[queued[i]] \in {"queued", "active"}
      BY <1>5, <3>3 DEF IInv, HeadOnly, Lists
    <3> QED BY <1>2, <3>1, <3>2, <3>4 DEF HeadOnly
  <2>4. \A b \in Buffers : state[b] = "dequeued" => state'[b] = "dequeued"
    BY <1>1, <1>5 DEF IInv, Lists
  <2> QED BY <2>1, <2>2, <2>3, <2>4 DEF IInv
<1> QED BY <1>3, <1>4, <1>5

-----------------------------------------------------------------------------
(* With the lock free, or held by a thread that does neither, no thread    *)
(* takes a buffer, hands one over or stops the stream.                     *)
LEMMA Alone ==
  ASSUME IInv, NEW t \in Threads, lock = t \/ lock = Free,
         pc[t] \notin {"unlist", "activate", "walk", "cancel"}
  PROVE  ~Stopping /\ \A u \in Threads : pc[u] \notin {"unlist", "activate"}
BY OthersWait DEF Stopping

(* QBUF appends a buffer that was the user's.                              *)
LEMMA QbufKeeps ==
  ASSUME IInv, NEW t \in Threads, NEW b \in Buffers, QbufCall(t, b)
  PROVE  IInv'
<1>1. /\ state[b] = "dequeued" /\ state' = [state EXCEPT ![b] = "queued"]
      /\ queued' = Append(queued, b) /\ done' = done
      /\ lock = Free /\ pc[t] = "idle"
      /\ \/ Enter(t, "activate") /\ buf' = [buf EXCEPT ![t] = b]
         \/ UNCHANGED <<lock, pc, buf>>
  BY DEF QbufCall, Enter, Goto
<1>2. ~Stopping /\ \A u \in Threads : pc[u] \notin {"unlist", "activate"}
  BY <1>1, Alone
<1>3. Locks'
  <2>1. CASE Enter(t, "activate")
    BY <2>1, LocksKept DEF Enter, Places
  <2>2. CASE UNCHANGED <<lock, pc, buf>>
    BY <2>2 DEF IInv, Locks
  <2> QED BY <1>1, <2>1, <2>2
<1>4. /\ Len(queued') = Len(queued) + 1 /\ Len(queued) \in Nat
      /\ \A i \in 1 .. Len(queued) : queued'[i] = queued[i] /\ queued[i] \in Buffers
      /\ queued'[Len(queued) + 1] = b /\ queued' \in Seq(Buffers)
  BY <1>1 DEF IInv, Lists
<1>5. \A i \in 1 .. Len(queued) : queued[i] # b /\ state'[queued[i]] = state[queued[i]]
  BY <1>1, <1>4 DEF IInv, Lists
<1>6. state' \in [Buffers -> States] /\ state'[b] = "queued"
  BY <1>1 DEF IInv, Lists, States
<1>7. Lists'
  <2>1. \A i, j \in 1 .. Len(queued) : queued[i] = queued[j] => i = j
    BY DEF IInv, Lists
  <2>2. \A i, j \in 1 .. Len(queued) + 1 : queued'[i] = queued'[j] => i = j
    BY <1>4, <1>5, <2>1
  <2>3. \A i \in 1 .. Len(queued) + 1 : state'[queued'[i]] # "dequeued"
    BY <1>4, <1>5, <1>6 DEF IInv, Lists
  <2> QED BY <1>4, <1>6, <2>2, <2>3 DEF Lists
<1>8. Handing'
  <2>1. CASE Enter(t, "activate") /\ buf' = [buf EXCEPT ![t] = b]
    <3>1. pc' = [pc EXCEPT ![t] = "activate"]
      BY <2>1 DEF Enter, Goto
    <3>2. \A u \in Threads : u # t => pc'[u] # "activate"
      BY <1>2, <3>1 DEF IInv, Locks
    <3>3. buf'[t] = b /\ buf' = [u \in Threads |-> buf'[u]]
      BY <2>1 DEF IInv, Handing
    <3> QED BY <1>6, <3>2, <3>3 DEF Handing
  <2>2. CASE UNCHANGED <<lock, pc, buf>>
    BY <1>2, <2>2 DEF IInv, Handing
  <2> QED BY <1>1, <2>1, <2>2
<1>9. HeadOnly'
  <2>1. \A i \in 2 .. Len(queued) + 1 : state'[queued'[i]] \in {"queued", "active"}
    BY <1>2, <1>4, <1>5, <1>6 DEF IInv, HeadOnly
  <2>2. done' = <<>> \/ (Finished' /\ done' = <<queued'[1]>>)
    <3>1. CASE done = <<>>
      BY <1>1, <3>1
    <3>2. CASE Finished /\ done = <<queued[1]>>
      <4>1. 1 \in 1 .. Len(queued)
        BY <3>2, <1>4 DEF Finished, IInv, Lists
      <4> QED BY <1>1, <1>4, <1>5, <3>2, <4>1 DEF Finished
    <3> QED BY <1>2, <3>1, <3>2 DEF IInv, HeadOnly
  <2>3. \A u \in Threads : pc'[u] # "unlist"
    BY <1>1, <1>2 DEF Enter, Goto, IInv, Locks
  <2> QED BY <1>4, <2>1, <2>2, <2>3 DEF HeadOnly
<1> QED BY <1>3, <1>7, <1>8, <1>9 DEF IInv

(* The core gives a queued buffer to the driver.                           *)
LEMMA HandOver ==
  ASSUME IInv, Locks', NEW b \in Buffers, state[b] = "queued",
         state' = [state EXCEPT ![b] = "active"],
         UNCHANGED <<queued, done, buf>>,
         \A t \in Threads : pc'[t] # "activate" /\ (pc'[t] = "unlist" => pc[t] = "unlist"),
         Stopping => Stopping'
  PROVE  IInv'
<1>1. \A i \in 1 .. Len(queued) : queued[i] \in Buffers
  BY DEF IInv, Lists
<1>2. state' \in [Buffers -> States] /\ state'[b] = "active"
  BY DEF IInv, Lists, States
<1>3. Lists' /\ Handing'
  BY <1>1, <1>2 DEF IInv, Lists, Handing
<1>4. HeadOnly'
  <2> SUFFICES ASSUME ~Stopping PROVE HeadOnly'
    BY DEF HeadOnly
  <2>1. \A i \in 2 .. Len(queued) : state'[queued[i]] \in {"queued", "active"}
    BY <1>1, <1>2 DEF IInv, HeadOnly, Lists
  <2>2. Finished => Finished'
    BY <1>1, <1>2 DEF Finished, IInv, Lists
  <2> QED BY <2>1, <2>2 DEF IInv, HeadOnly
<1> QED BY <1>3, <1>4 DEF IInv

LEMMA HandingKeeps ==
  ASSUME IInv, NEW t \in Threads, Activate(t) \/ Enqueue(t)
  PROVE  IInv'
<1>1. CASE Activate(t)
  <2>1. /\ pc[t] = "activate" /\ pc' = [pc EXCEPT ![t] = "buf_queue"] /\ lock' = lock
        /\ buf[t] \in Buffers /\ state[buf[t]] = "queued" /\ lock = t
    BY <1>1 DEF Activate, Goto, IInv, Handing, Locks
  <2>2. Locks'
    BY <1>1, <2>1, LocksKept DEF Activate, Places
  <2>3. /\ \A u \in Threads : pc'[u] # "activate" /\ (pc'[u] = "unlist" => pc[u] = "unlist")
        /\ Stopping => Stopping'
    BY <2>1, OthersWait DEF IInv, Locks, Stopping
  <2> QED BY <1>1, <2>1, <2>2, <2>3, HandOver DEF Activate
<1>2. CASE Enqueue(t)
  <2>1. PICK i \in 1 .. Len(queued) :
          state[queued[i]] = "queued" /\ state' = [state EXCEPT ![queued[i]] = "active"]
    BY <1>2 DEF Enqueue
  <2>2. UNCHANGED <<queued, done, buf, pc, lock>> /\ pc[t] = "enqueue"
    BY <1>2 DEF Enqueue, threadVars
  <2>3. lock = t /\ Locks' /\ queued[i] \in Buffers
    BY <2>2 DEF IInv, Locks, Lists
  <2>4. \A u \in Threads : pc'[u] # "activate" /\ (pc'[u] = "unlist" => pc[u] = "unlist")
    BY <2>2, <2>3, Alone
  <2>5. Stopping => Stopping'
    BY <2>2 DEF Stopping
  <2> QED BY <2>1, <2>2, <2>3, <2>4, <2>5, HandOver
<1> QED BY <1>1, <1>2

-----------------------------------------------------------------------------
(* DQBUF takes the only buffer that is done, the head of the queued list,  *)
(* off the done list, and then off the queued list.                        *)

LEMMA TakeKeeps ==
  ASSUME IInv, NEW t \in Threads, Take(t)
  PROVE  IInv'
<1>1. /\ done # <<>> /\ pc[t] = "dqbuf" /\ pc' = [pc EXCEPT ![t] = "unlist"]
      /\ done' = Tail(done) /\ buf' = [buf EXCEPT ![t] = Head(done)]
      /\ UNCHANGED <<state, queued, lock>>
  BY DEF Take, Goto
<1>2. lock = t
  BY <1>1 DEF IInv, Locks
<1>3. ~Stopping /\ \A u \in Threads : pc[u] \notin {"unlist", "activate"}
  BY <1>1, <1>2, Alone
<1>4. Locks'
  BY <1>1, LocksKept DEF Take, Places
<1>5. Finished /\ done = <<queued[1]>>
  BY <1>1, <1>3 DEF IInv, HeadOnly
<1>6. done' = <<>> /\ buf' = [buf EXCEPT ![t] = queued[1]]
  BY <1>1, <1>5
<1>7. Lists'
  BY <1>1 DEF IInv, Lists
<1>8. pc'[t] = "unlist" /\ \A u \in Threads : u # t => pc'[u] = pc[u]
  BY <1>1 DEF IInv, Locks
<1>9. buf'[t] = queued[1] /\ buf' = [u \in Threads |-> buf'[u]]
  BY <1>6 DEF IInv, Handing
<1>10. Handing'
  BY <1>3, <1>8, <1>9 DEF Handing
<1>11. HeadOnly'
  <2>1. \A u \in Threads : pc'[u] = "unlist" => u = t
    BY <1>3, <1>8
  <2>2. \A i \in 2 .. Len(queued') : state'[queued'[i]] \in {"queued", "active"}
    BY <1>1, <1>3 DEF IInv, HeadOnly
  <2>3. Finished'
    BY <1>1, <1>5 DEF Finished
  <2> QED BY <1>1, <1>6, <1>9, <2>1, <2>2, <2>3 DEF HeadOnly
<1> QED BY <1>4, <1>7, <1>10, <1>11 DEF IInv

LEMMA UnlistKeeps ==
  ASSUME IInv, NEW t \in Threads, Unlist(t)
  PROVE  /\ IInv'
         /\ buf[t] = queued[1] /\ buf[t] \in Buffers /\ state'[buf[t]] = "dequeued"
         /\ Len(queued') = Len(queued) - 1
         /\ \A i \in 1 .. Len(queued') : queued'[i] = queued[i + 1]
<1>1. /\ pc[t] = "unlist" /\ pc' = [pc EXCEPT ![t] = "idle"] /\ lock' = Free
      /\ state' = [state EXCEPT ![buf[t]] = "dequeued"]
      /\ buf' = [buf EXCEPT ![t] = NoBuffer] /\ done' = done
  BY DEF Unlist, Leave, Goto
<1>2. lock = t
  BY <1>1 DEF IInv, Locks
<1>3. Locks'
  BY <1>1, <1>2, LocksKept DEF Unlist, Leave, Places
<1>4. \A u \in Threads : u # t => pc[u] \in {"idle", "sleep"}
  BY <1>2, OthersWait
<1>5. ~Stopping
  BY <1>1, <1>4 DEF Stopping
<1>6. Finished /\ done = <<>> /\ buf[t] = queued[1]
  BY <1>1, <1>5 DEF IInv, HeadOnly
<1>7. /\ Len(queued) \in Nat /\ Len(queued) >= 1
      /\ \A i \in 1 .. Len(queued) : queued[i] \in Buffers
      /\ \A i, j \in 1 .. Len(queued) : queued[i] = queued[j] => i = j
  BY <1>6 DEF IInv, Lists, Finished
<1>8. /\ queued' \in Seq(Buffers) /\ Len(queued') = Len(queued) - 1
      /\ \A i \in 1 .. Len(queued') : queued'[i] = queued[i + 1]
  <2>1. PICK p \in 1 .. Len(queued) : queued[p] = buf[t] /\ queued' = RemoveAt(queued, p)
    BY DEF Unlist
  <2>2. p = 1
    BY <1>6, <1>7, <2>1
  <2>3. queued' = SubSeq(queued, 1, 0) \o SubSeq(queued, 2, Len(queued))
    BY <2>1, <2>2 DEF RemoveAt
  <2> DEFINE rest == SubSeq(queued, 2, Len(queued))
  <2>4. queued \in Seq(Buffers)
    BY DEF IInv, Lists
  <2>5. SubSeq(queued, 1, 0) = <<>>
    BY <2>4
  <2>6. /\ rest \in Seq(Buffers) /\ Len(rest) = Len(queued) - 1
        /\ \A i \in 1 .. Len(queued) - 1 : rest[i] = queued[i + 1]
    <3>1. Len(queued) \in Int /\ Len(queued) >= 1 /\ queued # <<>>
      BY <1>6, <1>7 DEF Finished
    <3>2. Tail(queued) = rest
      BY <2>4, <3>1, TailIsSubSeq
    <3> QED BY <2>4, <3>1, <3>2, HeadTailProperties
  <2>7. queued' = rest
    BY <2>3, <2>5, <2>6
  <2> QED BY <2>6, <2>7
<1>9. \A i \in 1 .. Len(queued') : queued'[i] # queued[1] /\ queued'[i] \in Buffers
  BY <1>7, <1>8
<1>10. state' \in [Buffers -> States] /\ state'[buf[t]] = "dequeued" /\ buf[t] \in Buffers
  BY <1>1, <1>6, <1>7 DEF IInv, Lists, States
<1>11. \A i \in 1 .. Len(queued') : state'[queued'[i]] \in {"queued", "active"}
  <2>1. \A i \in 1 .. Len(queued') : state'[queued'[i]] = state[queued'[i]]
    BY <1>1, <1>6, <1>9 DEF IInv, Lists
  <2>2. \A i \in 1 .. Len(queued') : state[queued[i + 1]] \in {"queued", "active"}
    BY <1>5, <1>7, <1>8 DEF IInv, HeadOnly
  <2> QED BY <1>8, <2>1, <2>2
<1>12. Lists'
  <2>1. \A i, j \in 1 .. Len(queued') : queued'[i] = queued'[j] => i = j
    BY <1>7, <1>8
  <2> QED BY <1>8, <1>10, <1>11, <2>1 DEF Lists
<1>13. \A u \in Threads : pc'[u] \in {"idle", "sleep"}
  BY <1>1, <1>4 DEF IInv, Locks
<1>14. Handing'
  BY <1>1, <1>13 DEF IInv, Handing
<1>15. HeadOnly'
  <2>1. done' = <<>>
    BY <1>1, <1>6
  <2>2. \A i \in 2 .. Len(queued') : state'[queued'[i]] \in {"queued", "active"}
    <3>1. Len(queued') \in Nat
      BY <1>7, <1>8
    <3> QED BY <1>11, <3>1
  <2>3. \A u \in Threads : pc'[u] # "unlist"
    BY <1>13
  <2> QED BY <2>1, <2>2, <2>3 DEF HeadOnly
<1> QED BY <1>3, <1>6, <1>8, <1>10, <1>12, <1>14, <1>15 DEF IInv

-----------------------------------------------------------------------------
(* STREAMOFF and REQBUFS.                                                  *)

LEMMA WalkKeeps ==
  ASSUME IInv, NEW t \in Threads, Walk(t)
  PROVE  IInv'
<1>1. pc[t] = "walk" /\ UNCHANGED <<queued, pc, lock>>
  BY DEF Walk
<1>2. Locks' /\ lock = t
  BY <1>1 DEF IInv, Locks
<1>3. Stopping'
  BY <1>1 DEF Stopping
<1>4. state' = state \/ state' = [state EXCEPT ![buf[t]] = "error"]
  BY DEF Walk, GivenBack, Completed
<1>5. state' \in [Buffers -> States] /\ \A b \in Buffers : state'[b] \in {state[b], "error"}
  BY <1>4 DEF IInv, Lists, States
<1>6. Lists'
  <2>1. \A i \in 1 .. Len(queued) : queued[i] \in Buffers
    BY DEF IInv, Lists
  <2> QED BY <1>1, <1>5, <2>1 DEF IInv, Lists
<1>7. \A u \in Threads : pc[u] # "activate"
  BY <1>1, <1>2, OthersWait
<1>8. buf' = buf \/ buf' = [buf EXCEPT ![t] = Following(t)]
  BY DEF Walk
<1>9. Handing'
  BY <1>1, <1>7, <1>8 DEF IInv, Handing
<1> QED BY <1>2, <1>3, <1>6, <1>9 DEF IInv, HeadOnly

(* Without buffers in the core's lists there is nothing to show.           *)
LEMMA Emptied ==
  ASSUME IInv, Locks', queued' = <<>>, done' = <<>>,
         state' = [b \in Buffers |-> "dequeued"],
         buf' = [t \in Threads |-> buf'[t]],
         \A t \in Threads : pc'[t] \in {"idle", "sleep"}
  PROVE  IInv'
BY DEF IInv, Lists, Handing, HeadOnly, States

LEMMA EmptyingKeeps ==
  ASSUME IInv, NEW t \in Threads, Cancel(t) \/ Reqbufs(t)
  PROVE  IInv'
<1>1. CASE Cancel(t)
  <2>1. /\ pc[t] = "cancel" /\ pc' = [pc EXCEPT ![t] = "idle"] /\ lock' = Free
        /\ buf' = [buf EXCEPT ![t] = NoBuffer]
    BY <1>1 DEF Cancel, Leave, Goto
  <2>2. lock = t
    BY <2>1 DEF IInv, Locks
  <2>3. Locks'
    BY <1>1, <2>2, LocksKept DEF Cancel, Leave, Places
  <2>4. \A u \in Threads : pc'[u] \in {"idle", "sleep"}
    BY <2>1, <2>2, OthersWait DEF IInv, Locks
  <2>5. buf' = [u \in Threads |-> buf'[u]]
    BY <2>1 DEF IInv, Handing
  <2> QED BY <1>1, <2>3, <2>4, <2>5, Emptied DEF Cancel
<1>2. CASE Reqbufs(t)
  <2>1. lock = Free /\ pc[t] = "idle" /\ UNCHANGED <<pc, buf, lock>>
    BY <1>2 DEF Reqbufs, threadVars
  <2>2. Locks'
    BY <2>1 DEF IInv, Locks
  <2>3. \A u \in Threads : pc'[u] \in {"idle", "sleep"}
    BY <2>1, OthersWait
  <2>4. buf' = [u \in Threads |-> buf'[u]]
    BY <2>1 DEF IInv, Handing
  <2> QED BY <1>2, <2>2, <2>3, <2>4, Emptied DEF Reqbufs
<1> QED BY <1>1, <1>2

-----------------------------------------------------------------------------
LEMMA StepKeeps ==
  ASSUME IInv, [Next]_vars
  PROVE  IInv'
<1>1. CASE Interrupt
  BY <1>1, InterruptKeeps
<1>2. ASSUME NEW t \in Threads, Inside(t)
      PROVE  IInv'
  BY <1>2, HandingKeeps, CallsMove, TakeKeeps, UnlistKeeps, WalkKeeps, EmptyingKeeps
     DEF Inside
<1>3. ASSUME NEW t \in Threads, Call(t)
      PROVE  IInv'
  BY <1>3, QbufKeeps, CallsMove, EmptyingKeeps DEF Call
<1>4. CASE UNCHANGED vars
  BY <1>4 DEF vars, coreVars, threadVars, IInv, Locks, Lists, Handing, HeadOnly, Finished,
              Stopping
<1> QED BY <1>1, <1>2, <1>3, <1>4 DEF Next

LEMMA InitHolds ==
  ASSUME Init
  PROVE  IInv
<1>1. Locks /\ Handing
  BY DEF Init, Locks, Handing, Places
<1>2. Lists
  BY DEF Init, Lists, States
<1>3. HeadOnly
  BY DEF Init, HeadOnly
<1> QED BY <1>1, <1>2, <1>3 DEF IInv

(* The buffer a DQBUF has taken is the one queued longest ago, and until   *)
(* it has left the queued list no other is completed (camera_irq.c:48).    *)
THEOREM Fifo == Spec => []DeliveredInOrder
<1>1. Init => IInv
  BY InitHolds
<1>2. IInv /\ [Next]_vars => IInv'
  BY StepKeeps
<1>3. ASSUME IInv, NEW t \in Threads, pc[t] = "unlist"
      PROVE  buf[t] = Head(queued) /\ done = <<>>
  <2>1. ~Stopping
    BY <1>3, OthersWait DEF Stopping, IInv, Locks
  <2>2. Finished /\ done = <<>> /\ buf[t] = queued[1]
    BY <1>3, <2>1 DEF IInv, HeadOnly
  <2> QED BY <2>2 DEF IInv, Lists, Finished
<1>4. IInv => DeliveredInOrder
  BY <1>3 DEF DeliveredInOrder
<1> QED BY <1>1, <1>2, <1>4, PTL DEF Spec
=============================================================================
