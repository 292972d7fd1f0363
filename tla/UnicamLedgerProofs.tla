------------------------ MODULE UnicamLedgerProofs ------------------------
(***************************************************************************)
(* With at most one controlling thread, the driver keeps dev->streaming in *)
(* step with the hardware and implements the capture ledger.               *)
(*                                                                         *)
(* Both need to know, at every point of an ioctl, which registers have     *)
(* been written so far: ChainAt.  It is inductive only because the one     *)
(* controller is the only thread that writes them.                         *)
(***************************************************************************)
EXTENDS UnicamStreamProofs

Alone == \A a, b \in Controllers : a = b

ChainAt(c) ==
  /\ Outside(c) => op[c] = "none" /\ IF streaming THEN AllOn ELSE AllOff
  /\ pc[c] \in StartPoints => op[c] = "START"
  /\ pc[c] \in StopPoints => op[c] = "STOP"
  /\ pc[c] \in DisablePoints => op[c] \in {"START", "STOP"}
  /\ ~Outside(c) /\ pc[c] # "reset_count" => (streaming <=> op[c] = "STOP")
  /\ pc[c] = "reset_count" => streaming
  /\ pc[c] \in {"ctrl_off", "lanes", "clear_flag"} => AllOff
  /\ pc[c] \in {"window", "irq_on"} => lanes /\ ~core /\ ~irq_on
  /\ pc[c] = "irq_on" => window
  /\ pc[c] = "core_on" => lanes /\ window /\ irq_on /\ ~core
  /\ pc[c] \in {"model_id", "mode7"} => core /\ lanes /\ window /\ irq_on
  /\ pc[c] \in {"set_flag", "reset_count", "stop_sensor"} => AllOn
  /\ pc[c] \in {"dis_core", "dis_lanes"} => ~irq_on
  /\ pc[c] = "dis_lanes" => ~core

SerialInv ==
  /\ TypeOK
  /\ \A t \in Threads \ Controllers : Outside(t)
  /\ \A c \in Controllers : ChainAt(c)
  /\ Controllers = {} => AllOff /\ ~streaming

-----------------------------------------------------------------------------
(* What ChainAt depends on beside the thread's own place.                  *)
chain == <<streaming, regVars, sensor_on>>

(* A step of a thread moves that thread alone.                             *)
LEMMA OneThreadMoves ==
  ASSUME TypeOK, NEW t \in Threads, NEW u \in Threads, u # t,
         Inside(t) \/ Call(t)
  PROVE  UNCHANGED <<pc[u], op[u]>>
<1>1. UNCHANGED pc[u]
  BY OthersKeepReaderPair
<1>2. CASE Ioctl(t)
  BY <1>1, <1>2, IoctlStep DEF TypeOK
<1>3. CASE Call(t)
  BY <1>1, <1>3 DEF TypeOK, Call, ReadCall, PollCall, StartCall, StopCall, Enter, besideRead
<1>4. CASE LoadCount(t) \/ LoadPtr(t) \/ ReadReturn(t) \/ PollReturn(t)
  BY <1>1, <1>4 DEF LoadCount, LoadPtr, ReadReturn, PollReturn, Loaded, besideRead
<1> QED BY <1>2, <1>3, <1>4 DEF Inside

(* Neither the camera and the handler nor the reading and polling calls    *)
(* touch the chain, and no thread leaves or enters an ioctl by them.       *)
LEMMA BesideChain ==
  ASSUME TypeOK,
         \/ FrameStart \/ FrameEnd \/ Isr \/ UNCHANGED vars
         \/ \E t \in Threads : \/ ReadCall(t) \/ PollCall(t)
                               \/ LoadCount(t) \/ LoadPtr(t)
                               \/ ReadReturn(t) \/ PollReturn(t)
  PROVE  /\ UNCHANGED <<chain, op>>
         /\ \A u \in Threads : pc'[u] = pc[u] \/ (Outside(u) /\ Outside(u)')
<1> USE DEF chain, Outside
<1>1. CASE FrameStart \/ FrameEnd
  BY <1>1 DEF FrameStart, FrameEnd, devVars, threadVars
<1>2. CASE Isr
  BY <1>2 DEF Isr, IsrEnter, IsrAck, IsrSample, IsrStorePtr, IsrCount, devVars, threadVars
<1>3. ASSUME NEW t \in Threads, ReadCall(t) \/ PollCall(t) \/ ReadReturn(t) \/ PollReturn(t)
      PROVE  /\ UNCHANGED <<chain, op>>
             /\ \A u \in Threads : pc'[u] = pc[u] \/ (Outside(u) /\ Outside(u)')
  BY <1>3 DEF TypeOK, ReadCall, PollCall, ReadReturn, PollReturn, Goto, besideRead, devVars
<1>4. ASSUME NEW t \in Threads, LoadCount(t) \/ LoadPtr(t)
      PROVE  /\ UNCHANGED <<chain, op>>
             /\ \A u \in Threads : pc'[u] = pc[u] \/ (Outside(u) /\ Outside(u)')
  BY <1>4 DEF LoadCount, LoadPtr, Loaded, besideRead, devVars
<1>5. CASE UNCHANGED vars
  BY <1>5 DEF vars, devVars, threadVars
<1> QED BY <1>1, <1>2, <1>3, <1>4, <1>5

(* Only a controller is ever inside an ioctl.                              *)
LEMMA OnlyControllers ==
  ASSUME SerialInv, NEW t \in Threads, Ioctl(t)
  PROVE  t \in Controllers
<1>1. ~Outside(t)
  <2> USE DEF Outside, RegisterStep, SensorStep, Return, Goto
  <2>1. CASE InitCoreOff(t) \/ InitLanes(t) \/ InitWindow(t) \/ InitIrq(t) \/ InitCoreOn(t)
    BY <2>1 DEF InitCoreOff, InitLanes, InitWindow, InitIrq, InitCoreOn
  <2>2. CASE ModelIdOk(t) \/ WriteReg(t) \/ SensorFails(t) \/ SetFlag(t) \/ ResetCount(t)
    BY <2>2 DEF ModelIdOk, WriteReg, SensorFails, SetFlag, ResetCount
  <2>3. CASE DisableIrq(t) \/ DisableCore(t) \/ DisableLanes(t) \/ StopSensor(t) \/ ClearFlag(t)
    BY <2>3 DEF DisableIrq, DisableCore, DisableLanes, StopSensor, ClearFlag
  <2> QED BY <2>1, <2>2, <2>3 DEF Ioctl
<1> QED BY <1>1 DEF SerialInv

(* The controller's own steps write the chain in order.                    *)
LEMMA ControllerStep ==
  ASSUME SerialInv, NEW t \in Controllers, Ioctl(t) \/ StartCall(t) \/ StopCall(t)
  PROVE  ChainAt(t)'
<1> USE StreamAssumption DEF StreamAssumption
<1>0. /\ ChainAt(t) /\ t \in Threads
      /\ pc \in [Threads -> Points] /\ op \in [Threads -> {"none", "START", "STOP"}]
  BY DEF SerialInv, TypeOK
<1> USE DEF ChainAt, Outside, AllOn, AllOff, StartPoints, StopPoints, DisablePoints,
            RegisterStep, SensorStep, Return, Goto
<1>1. CASE StartCall(t) \/ StopCall(t)
  BY <1>0, <1>1 DEF StartCall, StopCall, Enter, regVars
<1>2. CASE InitCoreOff(t)
  BY <1>0, <1>2 DEF InitCoreOff
<1>3. CASE InitLanes(t) \/ InitWindow(t)
  BY <1>0, <1>3 DEF InitLanes, InitWindow
<1>4. CASE InitIrq(t) \/ InitCoreOn(t)
  BY <1>0, <1>4 DEF InitIrq, InitCoreOn
<1>5. CASE ModelIdOk(t)
  BY <1>0, <1>5 DEF ModelIdOk, regVars
<1>6. CASE WriteReg(t)
  BY <1>0, <1>6 DEF WriteReg, regVars
<1>7. CASE SensorFails(t)
  BY <1>0, <1>7 DEF SensorFails, OnSensorError, regVars
<1>8. CASE SetFlag(t) \/ ResetCount(t)
  BY <1>0, <1>8 DEF SetFlag, ResetCount, regVars
<1>9. CASE DisableIrq(t) \/ DisableCore(t)
  BY <1>0, <1>9 DEF DisableIrq, DisableCore
<1>10. CASE DisableLanes(t)
  BY <1>0, <1>10 DEF DisableLanes
<1>11. CASE StopSensor(t)
  BY <1>0, <1>11 DEF StopSensor, regVars
<1>12. CASE ClearFlag(t)
  BY <1>0, <1>12 DEF ClearFlag, regVars
<1> QED BY <1>1, <1>2, <1>3, <1>4, <1>5, <1>6, <1>7, <1>8, <1>9, <1>10, <1>11, <1>12
        DEF Ioctl

LEMMA SerialInvInductive ==
  ASSUME Alone, SerialInv, TypeOK', [Next]_vars
  PROVE  SerialInv'
<1> USE StreamAssumption DEF StreamAssumption
<1>0. TypeOK
  BY DEF SerialInv
<1>1. CASE \/ FrameStart \/ FrameEnd \/ Isr \/ UNCHANGED vars
           \/ \E t \in Threads : \/ ReadCall(t) \/ PollCall(t)
                                 \/ LoadCount(t) \/ LoadPtr(t)
                                 \/ ReadReturn(t) \/ PollReturn(t)
  <2>1. /\ UNCHANGED <<chain, op>>
        /\ \A u \in Threads : pc'[u] = pc[u] \/ (Outside(u) /\ Outside(u)')
    BY <1>0, <1>1, BesideChain
  <2>2. UNCHANGED <<streaming, core, lanes, window, irq_on, sensor_on, op>>
    BY <2>1 DEF chain, regVars
  <2>3. ASSUME NEW c \in Controllers PROVE ChainAt(c)'
    <3>1. ChainAt(c) /\ c \in Threads
      BY DEF SerialInv
    <3>2. CASE pc'[c] = pc[c]
      BY <2>2, <3>1, <3>2 DEF ChainAt, Outside, AllOn, AllOff
    <3>3. CASE Outside(c) /\ Outside(c)'
      BY <2>2, <3>1, <3>3 DEF ChainAt, Outside, AllOn, AllOff, StartPoints, StopPoints,
                              DisablePoints
    <3> QED BY <2>1, <3>1, <3>2, <3>3
  <2>4. \A u \in Threads \ Controllers : Outside(u)'
    BY <2>1 DEF SerialInv, Outside
  <2> QED BY <2>2, <2>3, <2>4 DEF SerialInv, AllOff
<1>2. ASSUME NEW t \in Threads, Ioctl(t) \/ (t \in Controllers /\ (StartCall(t) \/ StopCall(t)))
      PROVE  SerialInv'
  <2>1. t \in Controllers
    BY <1>2, OnlyControllers
  <2>2. \A c \in Controllers : ChainAt(c)'
    BY <1>2, <2>1, ControllerStep DEF Alone
  <2>3. \A u \in Threads \ Controllers : Outside(u)'
    BY <1>0, <1>2, <2>1, OneThreadMoves DEF SerialInv, Outside, Inside, Call
  <2> QED BY <2>1, <2>2, <2>3 DEF SerialInv
<1> QED BY <1>1, <1>2 DEF Next, Inside, Call

LEMMA SerialInvariant ==
  ASSUME Alone
  PROVE  Spec => []SerialInv
<1>1. Init => SerialInv
  <2>1. Init => TypeOK
    BY InitTypes
  <2> QED BY <2>1, StreamAssumption
          DEF StreamAssumption, Init, SerialInv, ChainAt, Outside, AllOff, StartPoints,
              StopPoints, DisablePoints
<1>2. SerialInv /\ TypeOK' /\ [Next]_vars => SerialInv'
  BY SerialInvInductive
<1> QED BY <1>1, <1>2, TypeCorrect, PTL DEF Spec

(* With one controlling thread, between calls the flag tells the state of  *)
(* the whole chain, for any number of other threads and any table.         *)
THEOREM FlagIsRight ==
  ASSUME Alone
  PROVE  Spec => []FlagTellsHardware
<1>1. SerialInv => FlagTellsHardware
  BY DEF SerialInv, ChainAt, FlagTellsHardware, Settled
<1> QED BY <1>1, SerialInvariant, PTL

(* unicam_remove takes the flag for the answer whether the core runs (line *)
(* 691): with a single controlling thread it may.  With two it may not     *)
(* (run stream_stop_race).                                                 *)
THEOREM FlagDownCoreOff ==
  ASSUME Alone
  PROVE  Spec => []IdleFlagMeansIdleCore
<1>1. FlagTellsHardware => IdleFlagMeansIdleCore
  BY DEF FlagTellsHardware, IdleFlagMeansIdleCore, AllOff
<1> QED BY <1>1, FlagIsRight, PTL

-----------------------------------------------------------------------------
(* The refinement of the capture ledger.  The session follows from the one *)
(* controller's place and from dev->streaming.                             *)
SessionAt(c) ==
  IF Outside(c) THEN IF streaming THEN "on" ELSE "off"
  ELSE IF op[c] = "STOP" THEN "stopping" ELSE "starting"

LEMMA SessionOfController ==
  ASSUME Alone, NEW c \in Controllers
  PROVE  Session = SessionAt(c)
<1>1. Busy = IF Outside(c) THEN {} ELSE {c}
  BY DEF Busy, Alone
<1> QED BY <1>1 DEF Session, SessionAt

LEMMA SessionAfterStep ==
  ASSUME Alone, NEW c \in Controllers
  PROVE  Session' = SessionAt(c)'
<1>1. Busy' = IF Outside(c)' THEN {} ELSE {c}
  BY DEF Busy, Alone
<1> QED BY <1>1 DEF Session, SessionAt

(* Without a controller the session never begins.                          *)
LEMMA SessionOfNobody ==
  ASSUME Controllers = {}
  PROVE  /\ Session = IF streaming THEN "on" ELSE "off"
         /\ Session' = IF streaming' THEN "on" ELSE "off"
BY DEF Session, Busy

(* The session is the same before and after a step that leaves the flag    *)
(* alone and moves no thread into or out of an ioctl.                      *)
LEMMA SessionKept ==
  ASSUME Alone, UNCHANGED <<streaming, op>>,
         \A c \in Controllers : Outside(c)' <=> Outside(c)
  PROVE  UNCHANGED Session
<1>1. CASE Controllers = {}
  BY <1>1, SessionOfNobody
<1>2. ASSUME NEW c \in Controllers PROVE UNCHANGED Session
  BY SessionOfController, SessionAfterStep DEF SessionAt
<1> QED BY <1>1, <1>2

(* Inside an ioctl the session stays what it is until the call returns,    *)
(* and then it is off unless a start has succeeded.                        *)
LEMMA SessionMoves ==
  ASSUME TypeOK, NEW t \in Threads, ChainAt(t), Ioctl(t), ~ResetCount(t)
  PROVE  \/ SessionAt(t)' = SessionAt(t)
         \/ SessionAt(t) = "starting" /\ SessionAt(t)' = "off"
         \/ SessionAt(t) = "stopping" /\ SessionAt(t)' = "off"
<1> USE DEF TypeOK, SessionAt, Outside, RegisterStep, SensorStep, Return, Goto
<1>1. CASE InitCoreOff(t) \/ InitLanes(t) \/ InitWindow(t) \/ InitIrq(t) \/ InitCoreOn(t)
  BY <1>1 DEF InitCoreOff, InitLanes, InitWindow, InitIrq, InitCoreOn
<1>2. CASE ModelIdOk(t) \/ WriteReg(t)
  BY <1>2 DEF ModelIdOk, WriteReg
<1>3. CASE SensorFails(t)
  BY <1>3 DEF SensorFails, OnSensorError
<1>4. CASE SetFlag(t) \/ StopSensor(t)
  BY <1>4 DEF SetFlag, StopSensor
<1>5. CASE DisableIrq(t) \/ DisableCore(t)
  BY <1>5 DEF DisableIrq, DisableCore
<1>6. CASE DisableLanes(t)
  BY <1>6 DEF DisableLanes, ChainAt
<1>7. CASE ClearFlag(t)
  BY <1>7 DEF ClearFlag, ChainAt, StopPoints
<1> QED BY <1>1, <1>2, <1>3, <1>4, <1>5, <1>6, <1>7 DEF Ioctl

(* Every step is a step of the ledger or leaves it alone.                  *)
LEMMA LedgerStep ==
  ASSUME Alone, SerialInv, CountInv, TypeOK', [Next]_vars
  PROVE  [Ledger!Next]_(Ledger!vars)
<1> USE DEF Ledger!Next, Ledger!vars
<1>0. TypeOK
  BY DEF SerialInv
<1>1. CASE \/ FrameStart \/ FrameEnd \/ Isr \/ UNCHANGED vars
           \/ \E t \in Threads : \/ ReadCall(t) \/ PollCall(t)
                                 \/ LoadCount(t) \/ LoadPtr(t)
                                 \/ ReadReturn(t) \/ PollReturn(t)
  <2>1. UNCHANGED Session
    <3>1. /\ UNCHANGED <<streaming, op>>
          /\ \A u \in Threads : pc'[u] = pc[u] \/ (Outside(u) /\ Outside(u)')
      BY <1>0, <1>1, BesideChain DEF chain
    <3>2. \A c \in Controllers : Outside(c)' <=> Outside(c)
      BY <3>1, StreamAssumption DEF StreamAssumption, Outside
    <3> QED BY <3>1, <3>2, SessionKept
  <2>2. CASE FrameEnd
    <3>1. Session # "off"
      <4>1. core
        BY <2>2 DEF FrameEnd, Capturing
      <4>2. Controllers # {}
        BY <4>1 DEF SerialInv, AllOff
      <4>3. PICK c \in Controllers : TRUE
        BY <4>2
      <4>4. ~Outside(c) \/ streaming
        BY <4>1, <4>3 DEF SerialInv, ChainAt, AllOff
      <4> QED BY <4>4, SessionOfController DEF SessionAt
    <3> QED BY <2>1, <2>2, <3>1 DEF Ledger!Produce, FrameEnd, devVars, histVars
  <2>3. CASE IsrCount
    <3>1. counted < raised
      BY <2>3 DEF CountInv, NoPhantomFrames, Owed, InHand, TypeOK, IsrCount, Stored
    <3> QED BY <2>1, <2>3, <3>1 DEF Ledger!Report, IsrCount
  <2>4. CASE FrameStart \/ IsrEnter \/ IsrAck \/ IsrSample \/ IsrStorePtr \/ UNCHANGED vars
    BY <2>1, <2>4 DEF FrameStart, IsrEnter, IsrAck, IsrSample, IsrStorePtr, vars,
                      devVars, histVars
  <2>5. ASSUME NEW t \in Threads,
               \/ ReadCall(t) \/ PollCall(t) \/ LoadCount(t) \/ LoadPtr(t)
               \/ ReadReturn(t) \/ PollReturn(t)
        PROVE  UNCHANGED Ledger!vars
    BY <2>1, <2>5 DEF ReadCall, PollCall, LoadCount, LoadPtr, Loaded, ReadReturn,
                      PollReturn, besideRead, devVars, histVars
  <2> QED BY <1>1, <2>2, <2>3, <2>4, <2>5 DEF Isr
<1>2. ASSUME NEW t \in Controllers, StartCall(t) \/ StopCall(t)
      PROVE  Ledger!Next
  <2>1. /\ UNCHANGED <<raised, counted, frame_count, streaming>>
        /\ pc[t] = "idle"
        /\ \/ ~streaming /\ pc'[t] = "ctrl_off" /\ op'[t] = "START"
           \/ streaming /\ pc'[t] = "stop_sensor" /\ op'[t] = "STOP"
    BY <1>0, <1>2, StreamAssumption
       DEF StreamAssumption, TypeOK, StartCall, StopCall, Enter, Goto, beyondIoctl, histVars
  <2>2. \/ SessionAt(t) = "off" /\ SessionAt(t)' = "starting"
        \/ SessionAt(t) = "on" /\ SessionAt(t)' = "stopping"
    BY <2>1 DEF SessionAt, Outside
  <2>3. Session = SessionAt(t) /\ Session' = SessionAt(t)'
    BY SessionOfController, SessionAfterStep
  <2> QED BY <2>1, <2>2, <2>3 DEF Ledger!Start, Ledger!Stop, Ledger!Move
<1>3. ASSUME NEW t \in Threads, Ioctl(t)
      PROVE  [Ledger!Next]_(Ledger!vars)
  <2>1. t \in Controllers /\ ChainAt(t)
    BY <1>3, OnlyControllers DEF SerialInv
  <2>2. Session = SessionAt(t) /\ Session' = SessionAt(t)'
    BY <2>1, SessionOfController, SessionAfterStep
  <2>3. CASE ResetCount(t)
    <3>1. SessionAt(t) = "starting" /\ SessionAt(t)' = "on"
      BY <1>0, <2>1, <2>3 DEF TypeOK, ResetCount, Return, Goto, SessionAt, Outside, ChainAt,
                              StartPoints
    <3> QED BY <2>2, <2>3, <3>1 DEF ResetCount, StartValue, Ledger!Started, Ledger!Move
  <2>4. CASE ~ResetCount(t)
    <3>1. UNCHANGED <<raised, counted, frame_count>>
      BY <1>3, <2>4, IoctlFrame DEF beyondIoctl, histVars
    <3>2. \/ SessionAt(t)' = SessionAt(t)
          \/ SessionAt(t) = "starting" /\ SessionAt(t)' = "off"
          \/ SessionAt(t) = "stopping" /\ SessionAt(t)' = "off"
      BY <1>0, <1>3, <2>1, <2>4, SessionMoves
    <3> QED BY <2>2, <3>1, <3>2 DEF Ledger!StartFailed, Ledger!Stopped, Ledger!Move
  <2> QED BY <2>3, <2>4
<1> QED BY <1>1, <1>2, <1>3 DEF Next, Inside, Call

(* With one controlling thread the driver implements the capture ledger:   *)
(* for every number of threads, table entries and frames.                  *)
THEOREM ImplementsLedger ==
  ASSUME Alone
  PROVE  Spec => LedgerSpec
<1>1. Init => Ledger!Init
  <2>1. Init => Busy = {}
    BY StreamAssumption DEF StreamAssumption, Init, Busy, Outside
  <2> QED BY <2>1 DEF Init, Ledger!Init, Session
<1>2. SerialInv /\ CountInv /\ TypeOK' /\ [Next]_vars => [Ledger!Next]_(Ledger!vars)
  BY LedgerStep
<1> QED BY <1>1, <1>2, SerialInvariant, CountInvariant, TypeCorrect, PTL
        DEF Spec, LedgerSpec, Ledger!Spec
=============================================================================
