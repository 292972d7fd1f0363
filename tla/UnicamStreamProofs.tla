------------------------- MODULE UnicamStreamProofs -------------------------
(***************************************************************************)
(* Proofs about UnicamStream, for any set of threads, any length of the    *)
(* register table and any number of frames.                                *)
(***************************************************************************)
EXTENDS UnicamStream, TLAPS

-----------------------------------------------------------------------------
(* What the different kinds of steps leave alone.                          *)

LEMMA IoctlFrame ==
  ASSUME NEW t \in Threads, Ioctl(t), ~ResetCount(t)
  PROVE  UNCHANGED beyondIoctl
<1> USE DEF RegisterStep, SensorStep
<1>1. CASE InitCoreOff(t) \/ InitLanes(t) \/ InitWindow(t) \/ InitIrq(t) \/ InitCoreOn(t)
  BY <1>1 DEF InitCoreOff, InitLanes, InitWindow, InitIrq, InitCoreOn
<1>2. CASE ModelIdOk(t) \/ WriteReg(t) \/ SensorFails(t) \/ SetFlag(t)
  BY <1>2 DEF ModelIdOk, WriteReg, SensorFails, SetFlag
<1>3. CASE DisableIrq(t) \/ DisableCore(t) \/ DisableLanes(t) \/ StopSensor(t) \/ ClearFlag(t)
  BY <1>3 DEF DisableIrq, DisableCore, DisableLanes, StopSensor, ClearFlag
<1> QED BY <1>1, <1>2, <1>3 DEF Ioctl

(* An ioctl step moves its thread and no other one, never into a read, and *)
(* either keeps the thread's command or ends it.                           *)
LEMMA IoctlStep ==
  ASSUME NEW t \in Threads, Ioctl(t)
  PROVE  /\ \E to \in Points \ {"read", "poll"} : pc' = [pc EXCEPT ![t] = to]
         /\ op' = op \/ op' = [op EXCEPT ![t] = "none"]
<1> USE DEF RegisterStep, SensorStep, Goto, Points, StartPoints, DisablePoints
<1>1. CASE InitCoreOff(t) \/ InitLanes(t) \/ InitWindow(t) \/ InitIrq(t) \/ InitCoreOn(t)
  BY <1>1 DEF InitCoreOff, InitLanes, InitWindow, InitIrq, InitCoreOn
<1>2. CASE ModelIdOk(t) \/ WriteReg(t) \/ SetFlag(t)
  BY <1>2 DEF ModelIdOk, WriteReg, SetFlag
<1>3. CASE SensorFails(t)
  <2>1. pc' = [pc EXCEPT ![t] = "dis_irq"] /\ op' = op
    BY <1>3 DEF SensorFails, OnSensorError
  <2> QED BY <2>1
<1>4. CASE DisableIrq(t) \/ DisableCore(t) \/ DisableLanes(t)
  BY <1>4 DEF DisableIrq, DisableCore, DisableLanes, Return, StopPoints
<1>5. CASE StopSensor(t) \/ ClearFlag(t) \/ ResetCount(t)
  BY <1>5 DEF StopSensor, ClearFlag, ResetCount, Return
<1> QED BY <1>1, <1>2, <1>3, <1>4, <1>5 DEF Ioctl

LEMMA CallFrame ==
  ASSUME NEW t \in Threads, Call(t)
  PROVE  UNCHANGED <<devVars, regVars, ista, sensor_on, isrVars, reg, info,
                     raised, counted, counted_ptr, base>>
<1>1. CASE ReadCall(t) \/ PollCall(t)
  BY <1>1 DEF ReadCall, PollCall, besideRead, readVars
<1>2. CASE StartCall(t) \/ StopCall(t)
  BY <1>2 DEF StartCall, StopCall, Enter, beyondIoctl, readVars, histVars, devVars
<1> QED BY <1>1, <1>2 DEF Call

-----------------------------------------------------------------------------
(* The initial state is well typed.                                        *)
LEMMA InitTypes == Init => TypeOK
<1> USE StreamAssumption DEF StreamAssumption
<1> SUFFICES ASSUME Init PROVE TypeOK
  OBVIOUS
<1>1. /\ pc \in [Threads -> Points]
      /\ op \in [Threads -> {"none", "START", "STOP"}]
      /\ reg \in [Threads -> 0 .. RegCount - 1]
  BY DEF Init, Points
<1>2. /\ todo \in [Threads -> SUBSET Accesses]
      /\ info \in [Threads -> [frame : Nat, ptr : Nat]]
  BY DEF Init, NoInfo
<1> QED BY <1>1, <1>2 DEF Init, TypeOK

(* Type correctness, for the accesses of every thread and of the handler.  *)
THEOREM TypeCorrect == Spec => []TypeOK
<1> USE StreamAssumption DEF StreamAssumption
<1>1. Init => TypeOK
  BY InitTypes
<1>2. TypeOK /\ [Next]_vars => TypeOK'
  <2> SUFFICES ASSUME TypeOK, [Next]_vars
               PROVE  TypeOK'
    OBVIOUS
  <2>1. CASE FrameStart \/ FrameEnd
    <3>1. ista' \in SUBSET Bits
      <4>1. PICK b \in Bits : ista' = ista \cup {b}
        BY <2>1 DEF FrameStart, FrameEnd, Bits
      <4> QED BY <4>1 DEF TypeOK
    <3>2. raised' \in Nat
      BY <2>1 DEF TypeOK, FrameStart, FrameEnd
    <3> QED BY <2>1, <3>1, <3>2 DEF TypeOK, FrameStart, FrameEnd, devVars, regVars, isrVars,
                              threadVars, histVars
  <2>2. CASE Isr
    <3>1. UNCHANGED <<streaming, regVars, sensor_on, threadVars, raised, base>>
      BY <2>2 DEF Isr, IsrEnter, IsrAck, IsrSample, IsrStorePtr, IsrCount, devVars,
                  histVars
    <3>2. /\ ista' \in SUBSET Bits /\ isr_bits' \in SUBSET Bits
          /\ isr_ptr' \in Nat /\ isr_todo' \in SUBSET Accesses
          /\ isr_pc' \in {"idle", "ack", "sample", "update"}
      <4>1. CASE IsrEnter \/ IsrAck
        BY <4>1 DEF TypeOK, IsrEnter, IsrAck, Seen, Acked
      <4>2. CASE IsrSample
        BY <4>2 DEF TypeOK, IsrSample
      <4>3. CASE IsrStorePtr \/ IsrCount
        BY <4>3 DEF TypeOK, IsrStorePtr, IsrCount, Stored
      <4> QED BY <2>2, <4>1, <4>2, <4>3 DEF Isr
    <3>3. /\ frame_count' \in Nat /\ write_ptr' \in Nat
          /\ counted' \in Nat /\ counted_ptr' \in Nat
      BY <2>2 DEF TypeOK, Isr, IsrEnter, IsrAck, IsrSample, IsrStorePtr, IsrCount,
                  NewPtr, devVars, histVars
    <3>4. overlapped' \subseteq Threads
      BY <2>2 DEF TypeOK, Isr, IsrEnter, IsrAck, IsrSample, IsrStorePtr, IsrCount, histVars
    <3> QED BY <3>1, <3>2, <3>3, <3>4 DEF TypeOK, regVars, threadVars
  <2>3. ASSUME NEW t \in Threads, Call(t)
        PROVE  TypeOK'
    <3>1. UNCHANGED <<devVars, regVars, ista, sensor_on, isrVars, reg, info,
                      raised, counted, counted_ptr, base>>
      BY <2>3, CallFrame
    <3>2. /\ pc' \in [Threads -> Points]
          /\ op' \in [Threads -> {"none", "START", "STOP"}]
          /\ todo' \in [Threads -> SUBSET Accesses]
      <4>1. CASE ReadCall(t)
        BY <4>1 DEF TypeOK, ReadCall, Goto, Points, Accesses, besideRead
      <4>2. CASE PollCall(t)
        BY <4>2 DEF TypeOK, PollCall, Goto, Points, besideRead, readVars
      <4>3. CASE StartCall(t) \/ StopCall(t)
        BY <4>3 DEF TypeOK, StartCall, StopCall, Enter, Goto, Points, StartPoints, StopPoints,
                    beyondIoctl, readVars
      <4> QED BY <2>3, <4>1, <4>2, <4>3 DEF Call
    <3>3. overlapped' \subseteq Threads
      BY <2>3 DEF TypeOK, Call, ReadCall, PollCall, StartCall, StopCall, Enter,
                  beyondIoctl, histVars
    <3> QED BY <3>1, <3>2, <3>3 DEF TypeOK, devVars, regVars, isrVars
  <2>4. ASSUME NEW t \in Threads, Ioctl(t)
        PROVE  TypeOK'
    <3>1. pc' \in [Threads -> Points] /\ op' \in [Threads -> {"none", "START", "STOP"}]
      <4>1. PICK to \in Points : pc' = [pc EXCEPT ![t] = to]
        BY <2>4, IoctlStep
      <4>2. op' = op \/ op' = [op EXCEPT ![t] = "none"]
        BY <2>4, IoctlStep
      <4>3. op' \in [Threads -> {"none", "START", "STOP"}]
        BY <4>2 DEF TypeOK
      <4> QED BY <4>1, <4>3 DEF TypeOK
    <3>2. reg' \in [Threads -> 0 .. RegCount - 1]
      <4>1. CASE WriteReg(t) \/ SensorFails(t)
        BY <4>1 DEF TypeOK, WriteReg, SensorFails, IsLast
      <4>2. CASE ~(WriteReg(t) \/ SensorFails(t))
        <5>1. UNCHANGED reg
          BY <2>4, <4>2 DEF Ioctl, InitCoreOff, InitLanes, InitWindow, InitIrq,
             InitCoreOn, ModelIdOk, SetFlag, ResetCount, DisableIrq, DisableCore,
             DisableLanes, StopSensor, ClearFlag, RegisterStep
        <5> QED BY <5>1 DEF TypeOK
      <4> QED BY <4>1, <4>2
    <3>3. /\ core' \in BOOLEAN /\ lanes' \in BOOLEAN /\ window' \in BOOLEAN
          /\ irq_on' \in BOOLEAN /\ sensor_on' \in BOOLEAN /\ streaming' \in BOOLEAN
      <4>1. CASE UNCHANGED regVars
        BY <2>4, <4>1 DEF TypeOK, Ioctl, InitCoreOff, InitLanes, InitWindow, InitIrq,
           InitCoreOn, ModelIdOk, WriteReg, SensorFails, SetFlag, ResetCount, regVars,
           DisableIrq, DisableCore, DisableLanes, StopSensor, ClearFlag, RegisterStep, SensorStep
      <4>2. CASE ~UNCHANGED regVars
        BY <2>4, <4>2 DEF TypeOK, Ioctl, InitCoreOff, InitLanes, InitWindow, InitIrq,
           InitCoreOn, ModelIdOk, WriteReg, SensorFails, SetFlag, ResetCount,
           DisableIrq, DisableCore, DisableLanes, StopSensor, ClearFlag, RegisterStep, SensorStep, regVars
      <4> QED BY <4>1, <4>2
    <3>4. CASE ResetCount(t)
      BY <3>1, <3>2, <3>3, <3>4 DEF TypeOK, ResetCount, StartValue, isrVars, readVars
    <3>5. CASE ~ResetCount(t)
      BY <2>4, <3>1, <3>2, <3>3, <3>5, IoctlFrame
         DEF TypeOK, beyondIoctl, isrVars, readVars, histVars
    <3> QED BY <3>4, <3>5
  <2>5. ASSUME NEW t \in Threads,
               LoadCount(t) \/ LoadPtr(t) \/ ReadReturn(t) \/ PollReturn(t)
        PROVE  TypeOK'
    <3>1. UNCHANGED besideRead /\ overlapped' \subseteq Threads
      BY <2>5 DEF TypeOK, LoadCount, LoadPtr, ReadReturn, PollReturn, Loaded
    <3>2. /\ pc' \in [Threads -> Points]
          /\ todo' \in [Threads -> SUBSET Accesses]
      BY <2>5 DEF TypeOK, LoadCount, LoadPtr, ReadReturn, PollReturn, Loaded, Goto,
                  Points, readVars
    <3>3. info' \in [Threads -> [frame : Nat, ptr : Nat]]
      BY <2>5 DEF TypeOK, LoadCount, LoadPtr, ReadReturn, PollReturn, NoInfo, readVars
    <3> QED BY <3>1, <3>2, <3>3 DEF TypeOK, besideRead, devVars, regVars, isrVars
  <2>6. CASE UNCHANGED vars
    BY <2>6 DEF TypeOK, vars, devVars, regVars, isrVars, threadVars, histVars
  <2> QED BY <2>1, <2>2, <2>3, <2>4, <2>5, <2>6 DEF Next, Inside
<1> QED BY <1>1, <1>2, PTL DEF Spec

-----------------------------------------------------------------------------
(* Counting.  Neither bound is inductive: the frame ends in the handler    *)
(* and in the status register are still to be counted, so both bounds hold *)
(* with them added, and the handler's local variables must tell them.      *)
IsrShape ==
  /\ isr_pc = "update" <=> isr_todo # {}
  /\ isr_pc = "sample" => "FE" \in isr_bits
  /\ isr_pc \in {"idle", "update"} => isr_bits = {}

DriftWithOwed == base <= raised /\ frame_count + Owed <= (raised - base) + 2

CountInv == TypeOK /\ IsrShape /\ NoPhantomFrames /\ DriftWithOwed

(* Threads count nothing; a start only restarts the counter.               *)
LEMMA ThreadsCountNothing ==
  ASSUME NEW t \in Threads, Inside(t) \/ Call(t)
  PROVE  /\ UNCHANGED <<ista, isrVars, raised, counted>>
         /\ \/ UNCHANGED <<frame_count, base>>
            \/ frame_count' = 0 /\ base' = raised
<1>1. CASE Ioctl(t) /\ ~ResetCount(t)
  BY <1>1, IoctlFrame DEF beyondIoctl, histVars
<1>2. CASE ResetCount(t)
  BY <1>2 DEF ResetCount, StartValue
<1>3. CASE Call(t)
  BY <1>3, CallFrame DEF devVars, histVars
<1>4. CASE LoadCount(t) \/ LoadPtr(t) \/ ReadReturn(t) \/ PollReturn(t)
  BY <1>4 DEF LoadCount, LoadPtr, ReadReturn, PollReturn, Loaded, besideRead,
              devVars, histVars
<1> QED BY <1>1, <1>2, <1>3, <1>4 DEF Inside

LEMMA CountInvInductive == TypeOK /\ CountInv /\ TypeOK' /\ [Next]_vars => CountInv'
<1> SUFFICES ASSUME TypeOK, CountInv, TypeOK', [Next]_vars
             PROVE  CountInv'
  OBVIOUS
<1> USE DEF CountInv, IsrShape, NoPhantomFrames, DriftWithOwed, Owed, InHand, Pending
<1>0. /\ raised \in Nat /\ counted \in Nat /\ base \in Nat /\ frame_count \in Nat
      /\ isr_todo \in SUBSET Accesses
      /\ isr_pc \in {"idle", "ack", "sample", "update"}
  BY DEF TypeOK
<1>1. CASE FrameStart \/ FrameEnd
  <2>1. /\ UNCHANGED <<isr_pc, isr_bits, isr_todo, counted, base, frame_count>>
        /\ \/ raised' = raised /\ ista' = ista \cup {"FS"}
           \/ raised' = raised + 1 /\ ista' = ista \cup {"FE"}
    BY <1>1 DEF FrameStart, FrameEnd, devVars, isrVars, histVars
  <2>2. CASE raised' = raised /\ ista' = ista \cup {"FS"}
    <3>1. "FE" \in ista' <=> "FE" \in ista
      BY <2>2
    <3> QED BY <1>0, <2>1, <2>2, <3>1
  <2>3. CASE raised' = raised + 1 /\ ista' = ista \cup {"FE"}
    BY <1>0, <2>1, <2>3
  <2> QED BY <2>1, <2>2, <2>3
<1>2. CASE IsrEnter
  BY <1>0, <1>2 DEF IsrEnter, Seen, devVars, histVars
<1>3. CASE IsrAck
  BY <1>0, <1>3 DEF IsrAck, Acked, devVars, histVars
<1>4. CASE IsrSample
  BY <1>0, <1>4 DEF IsrSample, Accesses, devVars, histVars
<1>5. CASE IsrStorePtr
  BY <1>0, <1>5 DEF IsrStorePtr, Stored, histVars
<1>6. CASE IsrCount
  BY <1>0, <1>6 DEF IsrCount, Stored
<1>7. ASSUME NEW t \in Threads, Inside(t) \/ Call(t)
      PROVE  CountInv'
  BY <1>0, <1>7, ThreadsCountNothing DEF isrVars
<1>8. CASE UNCHANGED vars
  BY <1>8 DEF vars, devVars, isrVars, histVars
<1> QED BY <1>1, <1>2, <1>3, <1>4, <1>5, <1>6, <1>7, <1>8 DEF Next, Isr

LEMMA CountInvariant == Spec => []CountInv
<1>1. Init => CountInv
  <2>1. Init => TypeOK
    BY InitTypes
  <2> QED BY <2>1 DEF Init, CountInv, IsrShape, NoPhantomFrames, DriftWithOwed, Owed,
                      InHand, Pending
<1> QED BY <1>1, CountInvInductive, TypeCorrect, PTL DEF Spec

(* No frame end is counted twice, for any number of threads, frames and    *)
(* register table entries.                                                 *)
THEOREM NoPhantoms == Spec => []NoPhantomFrames
<1>1. CountInv => NoPhantomFrames
  BY DEF CountInv
<1> QED BY <1>1, CountInvariant, PTL

(* The counter never runs more than two frames ahead of its session.       *)
THEOREM DriftBounded == Spec => []CountDriftBounded
<1>1. CountInv => CountDriftBounded
  <2> SUFFICES ASSUME CountInv PROVE CountDriftBounded
    OBVIOUS
  <2>1. Owed \in 0 .. 2
    BY DEF Owed
  <2> QED BY <2>1 DEF CountInv, TypeOK, DriftWithOwed, CountDriftBounded
<1> QED BY <1>1, CountInvariant, PTL

-----------------------------------------------------------------------------
(* Reading.  Outside its critical section the handler has published a      *)
(* count and the pointer that belongs to it, or a start has reset the      *)
(* count since; within, in whichever order it stores, the two belong       *)
(* together once it has stored both.  A reader the section does not        *)
(* overlap has loaded from one such pair.                                  *)
NewestPtr == IF "ptr" \in isr_todo THEN isr_ptr ELSE write_ptr

HandlerPair ==
  /\ isr_pc = "update" <=> isr_todo # {}
  /\ "count" \notin isr_todo => counted_ptr \in {0, NewestPtr}
  /\ "count" \in isr_todo /\ "ptr" \notin isr_todo => write_ptr = isr_ptr

ReaderPair(t) ==
  pc[t] = "read" /\ t \notin overlapped =>
    /\ isr_todo = {}
    /\ "count" \notin todo[t] => info[t].frame \in {0, write_ptr}
    /\ "ptr" \notin todo[t] => info[t].ptr = write_ptr

PairInv == TypeOK /\ HandlerPair /\ \A t \in Threads : ReaderPair(t)

(* Steps of threads leave the handler's pair alone, but for a reset of the *)
(* count.                                                                  *)
LEMMA ThreadsKeepHandlerPair ==
  ASSUME TypeOK, HandlerPair, NEW t \in Threads, Inside(t) \/ Call(t)
  PROVE  HandlerPair' /\ UNCHANGED <<write_ptr, isr_pc, isr_todo>>
<1>1. UNCHANGED isrVars
  BY ThreadsCountNothing
<1>2. /\ UNCHANGED write_ptr
      /\ counted_ptr' = counted_ptr \/ counted_ptr' = 0
  <2>1. CASE Ioctl(t) /\ ~ResetCount(t)
    BY <2>1, IoctlFrame DEF beyondIoctl, histVars
  <2>2. CASE ResetCount(t)
    BY <2>2 DEF ResetCount
  <2>3. CASE Call(t)
    BY <2>3, CallFrame DEF devVars
  <2>4. CASE LoadCount(t) \/ LoadPtr(t) \/ ReadReturn(t) \/ PollReturn(t)
    BY <2>4 DEF LoadCount, LoadPtr, ReadReturn, PollReturn, Loaded, besideRead, devVars
  <2> QED BY <2>1, <2>2, <2>3, <2>4 DEF Inside
<1> QED BY <1>1, <1>2 DEF HandlerPair, NewestPtr, isrVars

(* Only its own steps change what a reader has loaded, and whether the     *)
(* handler overlaps it.                                                    *)
LEMMA OthersKeepReaderPair ==
  ASSUME TypeOK, NEW t \in Threads, NEW u \in Threads, u # t,
         Inside(t) \/ Call(t)
  PROVE  /\ UNCHANGED <<pc[u], todo[u], info[u]>>
         /\ u \in overlapped' <=> u \in overlapped
<1>1. CASE Ioctl(t)
  <2>1. UNCHANGED <<todo, info, overlapped>>
    BY <1>1, IoctlFrame DEF beyondIoctl, readVars, histVars, ResetCount
  <2> QED BY <1>1, <2>1, IoctlStep DEF TypeOK
<1>2. CASE Call(t)
  BY <1>2 DEF TypeOK, Call, ReadCall, PollCall, StartCall, StopCall, Enter, Goto,
              readVars, histVars, beyondIoctl
<1>3. CASE LoadCount(t) \/ LoadPtr(t) \/ ReadReturn(t) \/ PollReturn(t)
  BY <1>3 DEF TypeOK, LoadCount, LoadPtr, ReadReturn, PollReturn, Loaded, Goto, readVars
<1> QED BY <1>1, <1>2, <1>3 DEF Inside

LEMMA PairInvInductive == PairInv /\ TypeOK' /\ [Next]_vars => PairInv'
<1> SUFFICES ASSUME PairInv, TypeOK', [Next]_vars
             PROVE  PairInv'
  OBVIOUS
<1> USE DEF PairInv, HandlerPair, ReaderPair, NewestPtr
<1>0. /\ isr_todo \in SUBSET Accesses
      /\ todo \in [Threads -> SUBSET Accesses]
      /\ info \in [Threads -> [frame : Nat, ptr : Nat]]
  BY DEF TypeOK
<1>1. CASE FrameStart \/ FrameEnd
  BY <1>1 DEF FrameStart, FrameEnd, devVars, isrVars, threadVars, histVars
<1>2. CASE IsrEnter \/ IsrAck
  BY <1>2 DEF IsrEnter, IsrAck, devVars, threadVars, histVars
<1>3. CASE IsrSample
  BY <1>3 DEF IsrSample, Accesses, devVars, threadVars
<1>4. CASE IsrStorePtr
  <2>1. HandlerPair'
    BY <1>0, <1>4 DEF IsrStorePtr, NewPtr, Stored, Accesses, histVars
  <2>2. \A t \in Threads : ReaderPair(t)'
    BY <1>4 DEF IsrStorePtr, Stored, threadVars, histVars
  <2> QED BY <2>1, <2>2
<1>5. CASE IsrCount
  <2>1. HandlerPair'
    BY <1>0, <1>5 DEF IsrCount, Stored, Accesses
  <2>2. \A t \in Threads : ReaderPair(t)'
    BY <1>5 DEF IsrCount, Stored, threadVars
  <2> QED BY <2>1, <2>2
<1>6. ASSUME NEW t \in Threads, Inside(t) \/ Call(t)
      PROVE  PairInv'
  <2>1. HandlerPair' /\ UNCHANGED <<write_ptr, isr_pc, isr_todo>>
    BY <1>6, ThreadsKeepHandlerPair
  <2>2. ASSUME NEW u \in Threads, u # t PROVE ReaderPair(u)'
    BY <1>6, <2>1, <2>2, OthersKeepReaderPair
  <2>3. ReaderPair(t)'
    <3>1. CASE Ioctl(t)
      <4>1. pc'[t] # "read"
        BY <3>1, IoctlStep DEF TypeOK
      <4> QED BY <4>1
    <3>2. CASE Call(t)
      <4>1. CASE ReadCall(t)
        <5>1. todo'[t] = Accesses
          BY <4>1 DEF TypeOK, ReadCall
        <5>2. t \notin overlapped' => isr_todo = {}
          BY <4>1 DEF ReadCall
        <5> QED BY <2>1, <5>1, <5>2 DEF Accesses
      <4>2. CASE PollCall(t) \/ StartCall(t) \/ StopCall(t)
        <5>1. pc'[t] # "read"
          BY <4>2 DEF TypeOK, PollCall, StartCall, StopCall, Enter, Goto
        <5> QED BY <5>1
      <4> QED BY <3>2, <4>1, <4>2 DEF Call
    <3>3. CASE LoadCount(t)
      BY <1>0, <2>1, <3>3 DEF LoadCount, Loaded, Accesses
    <3>4. CASE LoadPtr(t)
      BY <1>0, <2>1, <3>4 DEF LoadPtr, Loaded, Accesses
    <3>5. CASE ReadReturn(t) \/ PollReturn(t)
      BY <3>5 DEF TypeOK, ReadReturn, PollReturn, Goto
    <3> QED BY <1>6, <3>1, <3>2, <3>3, <3>4, <3>5 DEF Inside
  <2> QED BY <2>1, <2>2, <2>3
<1>7. CASE UNCHANGED vars
  BY <1>7 DEF vars, devVars, isrVars, threadVars, histVars
<1> QED BY <1>1, <1>2, <1>3, <1>4, <1>5, <1>6, <1>7 DEF Next, Isr

(* In either memory order, a read that the handler's stores do not overlap *)
(* hands out a count with the pointer of its frame, or a count of zero,    *)
(* however often any number of threads restart the stream meanwhile.       *)
THEOREM ReadsFit == Spec => []ReadFits
<1>1. Init => PairInv
  <2>1. Init => TypeOK
    BY InitTypes
  <2> QED BY <2>1 DEF Init, PairInv, HandlerPair, ReaderPair, NewestPtr
<1>2. PairInv => ReadFits
  BY DEF PairInv, ReaderPair, ReadFits
<1> QED BY <1>1, <1>2, PairInvInductive, TypeCorrect, PTL DEF Spec

-----------------------------------------------------------------------------
(* Programming the DMA window.  A thread that has passed the write of the  *)
(* window relies on it, whatever other threads do.                         *)
WindowInv ==
  /\ TypeOK
  /\ WindowBeforeCore
  /\ \A t \in Threads : pc[t] \in {"irq_on", "core_on"} => window

LEMMA WindowInvInductive == WindowInv /\ TypeOK' /\ [Next]_vars => WindowInv'
<1> SUFFICES ASSUME WindowInv, TypeOK', [Next]_vars
             PROVE  WindowInv'
  OBVIOUS
<1> USE DEF WindowInv, WindowBeforeCore
<1>1. CASE FrameStart \/ FrameEnd
  BY <1>1 DEF FrameStart, FrameEnd, regVars, threadVars
<1>2. CASE Isr
  BY <1>2 DEF Isr, IsrEnter, IsrAck, IsrSample, IsrStorePtr, IsrCount, regVars, threadVars
<1>3. ASSUME NEW t \in Threads, Ioctl(t)
      PROVE  WindowInv'
  <2>1. CASE InitWindow(t) \/ InitIrq(t) \/ InitCoreOn(t)
    BY <2>1 DEF InitWindow, InitIrq, InitCoreOn, RegisterStep, Goto, TypeOK
  <2>2. CASE InitCoreOff(t) \/ InitLanes(t)
    BY <2>2 DEF InitCoreOff, InitLanes, RegisterStep, Goto, TypeOK
  <2>3. CASE ModelIdOk(t) \/ WriteReg(t) \/ SensorFails(t) \/ StopSensor(t)
    BY <2>3 DEF ModelIdOk, WriteReg, SensorFails, OnSensorError, StopSensor, SensorStep,
                Goto, regVars, TypeOK
  <2>4. CASE SetFlag(t) \/ ResetCount(t) \/ ClearFlag(t)
    BY <2>4 DEF SetFlag, ResetCount, ClearFlag, Return, Goto, regVars, TypeOK
  <2>5. CASE DisableIrq(t) \/ DisableCore(t) \/ DisableLanes(t)
    BY <2>5 DEF DisableIrq, DisableCore, DisableLanes, RegisterStep, Return, Goto, TypeOK
  <2> QED BY <1>3, <2>1, <2>2, <2>3, <2>4, <2>5 DEF Ioctl
<1>4. ASSUME NEW t \in Threads, Call(t)
      PROVE  WindowInv'
  BY <1>4 DEF Call, ReadCall, PollCall, StartCall, StopCall, Enter, Goto, besideRead,
              regVars, TypeOK
<1>5. ASSUME NEW t \in Threads,
             LoadCount(t) \/ LoadPtr(t) \/ ReadReturn(t) \/ PollReturn(t)
      PROVE  WindowInv'
  BY <1>5 DEF LoadCount, LoadPtr, ReadReturn, PollReturn, Loaded, Goto, besideRead,
              regVars, TypeOK
<1>6. CASE UNCHANGED vars
  BY <1>6 DEF vars, regVars, threadVars
<1> QED BY <1>1, <1>2, <1>3, <1>4, <1>5, <1>6 DEF Next, Inside

(* The core never runs on an unprogrammed DMA window, however many threads *)
(* start and stop the stream at once.                                      *)
THEOREM WindowProgrammed == Spec => []WindowBeforeCore
<1>1. Init => WindowInv
  <2>1. Init => TypeOK
    BY InitTypes
  <2> QED BY <2>1 DEF Init, WindowInv, WindowBeforeCore
<1>2. WindowInv => WindowBeforeCore
  BY DEF WindowInv
<1> QED BY <1>1, <1>2, WindowInvInductive, TypeCorrect, PTL DEF Spec
=============================================================================
