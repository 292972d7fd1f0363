---------------------------- MODULE UnicamStream ----------------------------
(***************************************************************************)
(* The running manual-unicam character driver                              *)
(* (src/manual-unicam-driver.c of the repository): the ioctl, read and     *)
(* poll handlers that user threads enter concurrently, the interrupt       *)
(* handler, and the hardware they share, the Unicam registers and the      *)
(* IMX219 sensor behind I2C.                                               *)
(*                                                                         *)
(* The file operations take no lock (unlocked_ioctl, and dev->lock is      *)
(* taken by the interrupt handler alone, which the kernel never runs twice *)
(* at once for one interrupt).  So every access to a register or to a      *)
(* field of struct unicam_device is a step of its own here.                *)
(*                                                                         *)
(* Frames are numbered by the order in which the hardware ends them, and a *)
(* write pointer is the number of the last frame it points behind.         *)
(***************************************************************************)
EXTENDS Naturals, FiniteSets

CONSTANTS
  Threads,      \* user threads that hold the device open
  Controllers,  \* those of them that issue START_STREAM and STOP_STREAM
  Readers,      \* those of them that read and poll
  RegCount,     \* IMX219_MODE7_REG_COUNT, entries of the mode 7 table
  MaxFrames,    \* bound on the frames the camera ends in a behaviour
  WeakOrder     \* the build may reorder two plain accesses to memory

ASSUME StreamAssumption ==
  /\ Controllers \subseteq Threads /\ Readers \subseteq Threads
  /\ RegCount \in Nat \ {0}
  /\ MaxFrames \in Nat
  /\ WeakOrder \in BOOLEAN

(* struct unicam_device *)
VARIABLES
  streaming,    \* dev->streaming
  frame_count,  \* dev->frame_count
  write_ptr     \* dev->current_write_ptr

(* Unicam registers and the sensor *)
VARIABLES
  core,         \* UNICAM_CTRL has UNICAM_CPE
  lanes,        \* UNICAM_CLK has the clock lane enabled
  window,       \* UNICAM_IBSA0 and UNICAM_IBEA0 hold the DMA buffer
  irq_on,       \* UNICAM_ICTL has UNICAM_FEIE and UNICAM_FSIE
  ista,         \* UNICAM_ISTA, the frame start and frame end bits
  sensor_on     \* the IMX219 streams

(* unicam_isr *)
VARIABLES
  isr_pc,       \* where the interrupt handler is
  isr_bits,     \* its local ista
  isr_ptr,      \* the value it read from UNICAM_IBWP
  isr_todo      \* the stores it has not made yet: "ptr", "count"

(* user threads *)
VARIABLES
  pc,           \* where each thread is in the driver
  op,           \* the ioctl a thread is in
  reg,          \* its index in the mode 7 table
  todo,         \* the loads a read has not made yet: "count", "ptr"
  info          \* its frame_info, as frame numbers

(* history *)
VARIABLES
  raised,       \* frames the hardware ended; UNICAM_IBWP points behind them
  counted,      \* increments of frame_count ever made
  counted_ptr,  \* the write pointer of the frame counted last, 0 if none is
  base,         \* raised when frame_count was last set to zero
  overlapped    \* threads in a read which the handler's stores overlap

devVars == <<streaming, frame_count, write_ptr>>
regVars == <<core, lanes, window, irq_on>>
isrVars == <<isr_pc, isr_bits, isr_ptr, isr_todo>>
readVars == <<todo, info>>
threadVars == <<pc, op, reg, todo, info>>
histVars == <<counted, counted_ptr, base, overlapped>>
vars == <<devVars, regVars, ista, sensor_on, isrVars, threadVars, raised, histVars>>

Bits == {"FE", "FS"}            \* UNICAM_FEI, UNICAM_FSI
Accesses == {"count", "ptr"}
StartPoints == {"ctrl_off", "lanes", "window", "irq_on", "core_on",
                "model_id", "mode7", "set_flag", "reset_count"}
DisablePoints == {"dis_irq", "dis_core", "dis_lanes"}
StopPoints == {"stop_sensor", "clear_flag"}
Points == {"idle", "read", "poll"} \cup StartPoints \cup DisablePoints \cup StopPoints

NoInfo == [frame |-> 0, ptr |-> 0]

(***************************************************************************)
(* unicam_probe leaves the device allocated with zeroes and the hardware   *)
(* off; no user thread is inside the driver.                               *)
(***************************************************************************)
Init ==
  /\ streaming = FALSE /\ frame_count = 0 /\ write_ptr = 0
  /\ core = FALSE /\ lanes = FALSE /\ window = FALSE /\ irq_on = FALSE
  /\ ista = {} /\ sensor_on = FALSE
  /\ isr_pc = "idle" /\ isr_bits = {} /\ isr_ptr = 0 /\ isr_todo = {}
  /\ pc = [t \in Threads |-> "idle"]
  /\ op = [t \in Threads |-> "none"]
  /\ reg = [t \in Threads |-> 0]
  /\ todo = [t \in Threads |-> {}]
  /\ info = [t \in Threads |-> NoInfo]
  /\ raised = 0 /\ counted = 0 /\ counted_ptr = 0 /\ base = 0 /\ overlapped = {}

Goto(t, from, to) ==
  /\ pc[t] = from
  /\ pc' = [pc EXCEPT ![t] = to]

(* The local variables of an ioctl are gone when it returns. *)
Return(t, from) ==
  /\ Goto(t, from, "idle")
  /\ op' = [op EXCEPT ![t] = "none"]

-----------------------------------------------------------------------------
(* The camera.  Code outside the repository, modelled from the way the     *)
(* driver uses it: frames arrive only while the sensor streams, the clock  *)
(* lane is on and the core is enabled.                                     *)

Capturing == core /\ lanes /\ sensor_on

FrameStart ==
  /\ Capturing
  /\ ista' = ista \cup {"FS"}
  /\ UNCHANGED <<devVars, regVars, sensor_on, isrVars, threadVars, raised, histVars>>

FrameEnd ==
  /\ Capturing
  /\ raised < MaxFrames
  /\ raised' = raised + 1
  /\ ista' = ista \cup {"FE"}
  /\ UNCHANGED <<devVars, regVars, sensor_on, isrVars, threadVars, histVars>>

-----------------------------------------------------------------------------
(* unicam_isr.  It runs when the enabled interrupt is pending and also,    *)
(* the line being shared (IRQF_SHARED), when another device raises it.  It *)
(* returns IRQ_NONE without effect when the status register is zero.       *)

(* The register is write-1-to-clear: a bit set again since it was read is  *)
(* cleared with it.                                                        *)
AckedWithoutClear(bits) == ista
Acked(bits) == ista \ bits

(* The status bits the handler finds worth handling. *)
SeenFrameStart == IF "FS" \in ista THEN ista ELSE {}
Seen == ista

IsrEnter ==
  /\ isr_pc = "idle"
  /\ Seen # {}
  /\ isr_pc' = "ack"
  /\ isr_bits' = Seen
  /\ UNCHANGED <<devVars, regVars, ista, sensor_on, isr_ptr, isr_todo,
                 threadVars, raised, histVars>>

IsrAck ==
  /\ isr_pc = "ack"
  /\ ista' = Acked(isr_bits)
  /\ isr_pc' = IF "FE" \in isr_bits THEN "sample" ELSE "idle"
  /\ isr_bits' = IF "FE" \in isr_bits THEN isr_bits ELSE {}
  /\ UNCHANGED <<devVars, regVars, sensor_on, isr_ptr, isr_todo, threadVars,
                 raised, histVars>>

(* The frame end branch, under dev->lock: UNICAM_IBWP is read, ... *)
IsrSample ==
  /\ isr_pc = "sample"
  /\ isr_pc' = "update"
  /\ isr_bits' = {}
  /\ isr_ptr' = raised
  /\ isr_todo' = Accesses
  /\ overlapped' = {t \in Threads : pc[t] = "read"}
  /\ UNCHANGED <<devVars, regVars, ista, sensor_on, threadVars, raised, counted,
                 counted_ptr, base>>

Stored(access) ==
  /\ isr_pc = "update"
  /\ access \in isr_todo
  /\ isr_todo' = isr_todo \ {access}
  /\ isr_pc' = IF isr_todo' = {} THEN "idle" ELSE "update"

(* ... stored in current_write_ptr, and frame_count is incremented.  The   *)
(* code makes the stores in this order; only a weakly ordered build swaps  *)
(* them.                                                                   *)
PtrKept == write_ptr
NewPtr == isr_ptr

IsrStorePtr ==
  /\ Stored("ptr")
  /\ write_ptr' = NewPtr
  /\ UNCHANGED <<streaming, frame_count, regVars, ista, sensor_on, isr_bits,
                 isr_ptr, threadVars, raised, histVars>>

CountAfterPtr == WeakOrder \/ "ptr" \notin isr_todo

(* atomic_inc, and wake_up_interruptible on a queue nobody sleeps on:      *)
(* unicam_poll never lets its caller wait.                                 *)
IsrCount ==
  /\ Stored("count")
  /\ CountAfterPtr
  /\ frame_count' = frame_count + 1
  /\ counted' = counted + 1
  /\ counted_ptr' = isr_ptr
  /\ UNCHANGED <<streaming, write_ptr, regVars, ista, sensor_on, isr_bits,
                 isr_ptr, threadVars, raised, base, overlapped>>

Isr == IsrEnter \/ IsrAck \/ IsrSample \/ IsrStorePtr \/ IsrCount

-----------------------------------------------------------------------------
(* What the steps of an ioctl leave alone, all but the last of a start; a  *)
(* step that only writes registers; and one that only talks to the sensor. *)

beyondIoctl == <<frame_count, write_ptr, ista, isrVars, readVars, raised, histVars>>

RegisterStep(t, from, to) ==
  /\ Goto(t, from, to)
  /\ UNCHANGED <<streaming, sensor_on, op, reg, beyondIoctl>>

SensorStep(t, from, to) ==
  /\ Goto(t, from, to)
  /\ UNCHANGED <<streaming, regVars, op, beyondIoctl>>

(* An ioctl passes its test of dev->streaming.  When it does not pass it   *)
(* returns 0 at once and changes nothing.                                  *)
Enter(t, command, to) ==
  /\ Goto(t, "idle", to)
  /\ op' = [op EXCEPT ![t] = command]
  /\ UNCHANGED <<streaming, regVars, sensor_on, reg, beyondIoctl>>

-----------------------------------------------------------------------------
(* unicam_ioctl, UNICAM_IOC_START_STREAM.                                  *)

StartCall(t) == ~streaming /\ Enter(t, "START", "ctrl_off")

(* unicam_hw_init writes the registers in this order; the first write      *)
(* stops the core and the driver then sleeps for a millisecond or two.     *)
InitCoreOff(t) ==
  /\ RegisterStep(t, "ctrl_off", "lanes")
  /\ core' = FALSE
  /\ UNCHANGED <<lanes, window, irq_on>>

InitLanes(t) ==
  /\ RegisterStep(t, "lanes", "window")
  /\ lanes' = TRUE
  /\ UNCHANGED <<core, window, irq_on>>

InitNoWindow(t) ==
  /\ RegisterStep(t, "window", "irq_on")
  /\ UNCHANGED regVars

InitWindow(t) ==
  /\ RegisterStep(t, "window", "irq_on")
  /\ window' = TRUE
  /\ UNCHANGED <<core, lanes, irq_on>>

InitIrq(t) ==
  /\ RegisterStep(t, "irq_on", "core_on")
  /\ irq_on' = TRUE
  /\ UNCHANGED <<core, lanes, window>>

InitCoreOn(t) ==
  /\ RegisterStep(t, "core_on", "model_id")
  /\ core' = TRUE
  /\ UNCHANGED <<lanes, window, irq_on>>

(* imx219_configure_mode7: the model ID is read and compared, then the     *)
(* table is written entry by entry.  The table is not in the repository;   *)
(* its last entry is taken to start the sensor, which nothing else does.   *)
ModelIdOk(t) ==
  /\ SensorStep(t, "model_id", "mode7")
  /\ UNCHANGED <<sensor_on, reg>>

PastLast(i) == i = RegCount
IsLast(i) == i + 1 = RegCount

WriteReg(t) ==
  \/ /\ ~IsLast(reg[t])
     /\ SensorStep(t, "mode7", "mode7")
     /\ reg' = [reg EXCEPT ![t] = @ + 1]
     /\ UNCHANGED sensor_on
  \/ /\ IsLast(reg[t])
     /\ SensorStep(t, "mode7", "set_flag")
     /\ sensor_on' = TRUE
     /\ reg' = [reg EXCEPT ![t] = 0]

(* Where a failed transfer goes: to unicam_hw_disable and out. *)
OnSensorErrorRetry == "model_id"
OnSensorError == "dis_irq"

(* An I2C transfer fails, or the model ID is not the one of the IMX219. *)
SensorFails(t) ==
  \E from \in {"model_id", "mode7"} :
     /\ SensorStep(t, from, OnSensorError)
     /\ reg' = [reg EXCEPT ![t] = 0]
     /\ UNCHANGED sensor_on

SetFlag(t) ==
  /\ Goto(t, "set_flag", "reset_count")
  /\ streaming' = TRUE
  /\ UNCHANGED <<regVars, sensor_on, op, reg, beyondIoctl>>

StartValueKept == frame_count
StartValue == 0

ResetCount(t) ==
  /\ Return(t, "reset_count")
  /\ frame_count' = StartValue
  /\ counted_ptr' = 0
  /\ base' = raised
  /\ UNCHANGED <<streaming, write_ptr, regVars, ista, sensor_on, isrVars, reg,
                 readVars, raised, counted, overlapped>>

-----------------------------------------------------------------------------
(* unicam_hw_disable, called by a START_STREAM that failed on the sensor   *)
(* and by STOP_STREAM.                                                     *)

DisableIrq(t) ==
  /\ RegisterStep(t, "dis_irq", "dis_core")
  /\ irq_on' = FALSE
  /\ UNCHANGED <<core, lanes, window>>

DisableNoCore(t) ==
  /\ RegisterStep(t, "dis_core", "dis_lanes")
  /\ UNCHANGED regVars

DisableCore(t) ==
  /\ RegisterStep(t, "dis_core", "dis_lanes")
  /\ core' = FALSE
  /\ UNCHANGED <<lanes, window, irq_on>>

DisableLanes(t) ==
  /\ lanes' = FALSE
  /\ \/ op[t] = "START" /\ Return(t, "dis_lanes")
     \/ op[t] = "STOP" /\ Goto(t, "dis_lanes", "clear_flag") /\ UNCHANGED op
  /\ UNCHANGED <<streaming, core, window, irq_on, sensor_on, reg, beyondIoctl>>

-----------------------------------------------------------------------------
(* unicam_ioctl, UNICAM_IOC_STOP_STREAM.                                   *)

StopCall(t) == streaming /\ Enter(t, "STOP", "stop_sensor")

(* imx219_stop_streaming may fail; its result is not looked at. *)
StopSensor(t) ==
  /\ SensorStep(t, "stop_sensor", "dis_irq")
  /\ sensor_on' \in {FALSE, sensor_on}
  /\ UNCHANGED reg

ClearFlag(t) ==
  /\ Return(t, "clear_flag")
  /\ streaming' = FALSE
  /\ UNCHANGED <<regVars, sensor_on, reg, beyondIoctl>>

Ioctl(t) ==
  \/ InitCoreOff(t) \/ InitLanes(t) \/ InitWindow(t) \/ InitIrq(t) \/ InitCoreOn(t)
  \/ ModelIdOk(t) \/ WriteReg(t) \/ SensorFails(t) \/ SetFlag(t) \/ ResetCount(t)
  \/ DisableIrq(t) \/ DisableCore(t) \/ DisableLanes(t)
  \/ StopSensor(t) \/ ClearFlag(t)

-----------------------------------------------------------------------------
(* unicam_read loads frame_count and then current_write_ptr, without the   *)
(* lock; a weakly ordered build may load them the other way round.  The    *)
(* count is represented by the frame it counted last.                      *)

besideRead == <<devVars, regVars, ista, sensor_on, isrVars, op, reg, raised, counted,
                counted_ptr, base>>

ReadCall(t) ==
  /\ Goto(t, "idle", "read")
  /\ todo' = [todo EXCEPT ![t] = Accesses]
  /\ overlapped' = IF isr_pc = "update" THEN overlapped \cup {t} ELSE overlapped
  /\ UNCHANGED <<besideRead, info>>

Loaded(t, access) ==
  /\ pc[t] = "read"
  /\ access \in todo[t]
  /\ todo' = [todo EXCEPT ![t] = @ \ {access}]
  /\ UNCHANGED <<besideRead, pc, overlapped>>

LoadCount(t) ==
  /\ Loaded(t, "count")
  /\ info' = [info EXCEPT ![t].frame = counted_ptr]

LoadPtr(t) ==
  /\ Loaded(t, "ptr")
  /\ WeakOrder \/ "count" \notin todo[t]
  /\ info' = [info EXCEPT ![t].ptr = write_ptr]

(* copy_to_user, whether it fails or not. *)
ReadReturn(t) ==
  /\ todo[t] = {}
  /\ Goto(t, "read", "idle")
  /\ info' = [info EXCEPT ![t] = NoInfo]
  /\ overlapped' = overlapped \ {t}
  /\ UNCHANGED <<besideRead, todo>>

(* unicam_poll joins the wait queue and answers POLLIN, always. *)
PollCall(t) == Goto(t, "idle", "poll") /\ UNCHANGED <<besideRead, readVars, overlapped>>

PollReturn(t) == Goto(t, "poll", "idle") /\ UNCHANGED <<besideRead, readVars, overlapped>>

-----------------------------------------------------------------------------
(* A thread inside a system call; the calls a thread may make; the system. *)

Inside(t) ==
  Ioctl(t) \/ LoadCount(t) \/ LoadPtr(t) \/ ReadReturn(t) \/ PollReturn(t)

Call(t) ==
  \/ t \in Readers /\ (ReadCall(t) \/ PollCall(t))
  \/ t \in Controllers /\ (StartCall(t) \/ StopCall(t))

Next ==
  \/ FrameStart \/ FrameEnd \/ Isr
  \/ \E t \in Threads : Inside(t) \/ Call(t)

Spec == Init /\ [][Next]_vars

(***************************************************************************)
(* Fairness.  A thread inside a system call is scheduled until it returns: *)
(* none of the handlers waits for anything but a bounded sleep or an I2C   *)
(* transfer that succeeds or fails.  The handler runs when its enabled     *)
(* interrupt is pending, and to its end once entered.  Nothing is assumed  *)
(* of user calls, of frames, or of interrupts on the shared line.          *)
(***************************************************************************)
Fairness ==
  /\ \A t \in Threads : WF_vars(Inside(t))
  /\ WF_vars(irq_on /\ IsrEnter)
  /\ WF_vars(IsrAck \/ IsrSample \/ IsrStorePtr \/ IsrCount)

FairSpec == Spec /\ Fairness

-----------------------------------------------------------------------------
(* Every variable stays in its range; the index of a thread writing the    *)
(* mode 7 table never leaves the table (line 184).                         *)
TypeOK ==
  /\ streaming \in BOOLEAN /\ frame_count \in Nat /\ write_ptr \in Nat
  /\ core \in BOOLEAN /\ lanes \in BOOLEAN /\ window \in BOOLEAN
  /\ irq_on \in BOOLEAN /\ ista \in SUBSET Bits /\ sensor_on \in BOOLEAN
  /\ isr_pc \in {"idle", "ack", "sample", "update"}
  /\ isr_bits \in SUBSET Bits /\ isr_ptr \in Nat /\ isr_todo \in SUBSET Accesses
  /\ pc \in [Threads -> Points]
  /\ op \in [Threads -> {"none", "START", "STOP"}]
  /\ reg \in [Threads -> 0 .. RegCount - 1]
  /\ todo \in [Threads -> SUBSET Accesses]
  /\ info \in [Threads -> [frame : Nat, ptr : Nat]]
  /\ raised \in Nat /\ counted \in Nat /\ counted_ptr \in Nat /\ base \in Nat
  /\ overlapped \subseteq Threads

(* A frame end the handler has taken over and not counted yet, and one the *)
(* status register holds that no running handler is about to acknowledge.  *)
InHand == \/ isr_pc \in {"ack", "sample"} /\ "FE" \in isr_bits
          \/ "count" \in isr_todo
Pending == "FE" \in ista /\ ~(isr_pc = "ack" /\ "FE" \in isr_bits)
Owed == (IF InHand THEN 1 ELSE 0) + (IF Pending THEN 1 ELSE 0)

(***************************************************************************)
(* No frame end is counted twice, however frame ends fall between the read *)
(* and the write-1-to-clear of the status register (lines 286 to 302):     *)
(* counts made and counts still owed never exceed the frames that ended.   *)
(* Frame ends may be merged into one count, never multiplied.              *)
(***************************************************************************)
NoPhantomFrames == counted + Owed <= raised

(***************************************************************************)
(* START_STREAM resets the counter only after the camera runs (lines 434   *)
(* and 435), so an interrupt taken before may be counted after the reset.  *)
(* The counter then runs ahead of the session by at most two frames: the   *)
(* one in the handler and the one in the status register.                  *)
(***************************************************************************)
CountDriftBounded == frame_count <= (raised - base) + 2

(***************************************************************************)
(* Whatever threads start and stop the stream at once, the core is never   *)
(* enabled before the DMA addresses are programmed (lines 234 to 254).     *)
(***************************************************************************)
WindowBeforeCore == core => window

(***************************************************************************)
(* A count other than zero is handed out with the pointer of the very      *)
(* frame it stands for (lines 299 to 302, 359 and 360), never with the one *)
(* an earlier session left behind, though START_STREAM resets the count    *)
(* alone and at any time (line 435).  Excepted are reads that overlap the  *)
(* two stores of the handler: those load without its lock and may get any  *)
(* pair, even in program order an older count with a newer pointer, and,   *)
(* on the weakly ordered processor this driver is for, the other way       *)
(* round.                                                                  *)
(***************************************************************************)
ReadFits ==
  \A t \in Threads \ overlapped :
     pc[t] = "read" /\ todo[t] = {} => info[t].frame \in {0, info[t].ptr}

-----------------------------------------------------------------------------
(* What the control ioctls leave behind once none of them is running.      *)

Outside(t) == pc[t] \in {"idle", "read", "poll"}
Settled == \A c \in Controllers : Outside(c)
AllOn == core /\ lanes /\ window /\ irq_on /\ sensor_on
AllOff == ~core /\ ~lanes /\ ~irq_on

(***************************************************************************)
(* With one controlling thread, between its calls dev->streaming says      *)
(* whether the whole chain runs, sensor, clock lane, DMA window, core and  *)
(* interrupt, or the receiver is off entirely, also after a START_STREAM   *)
(* that failed half way (lines 415 to 455).                                *)
(***************************************************************************)
FlagTellsHardware == Settled => IF streaming THEN AllOn ELSE AllOff

(* unicam_remove stops the hardware "if active" and takes dev->streaming   *)
(* for the answer (line 691): when no call runs and the flag is down, the  *)
(* core is off.                                                            *)
IdleFlagMeansIdleCore == Settled /\ ~streaming => ~core

-----------------------------------------------------------------------------
(***************************************************************************)
(* With one controlling thread the driver implements the capture ledger:   *)
(* no frame ends while the session is off, frames are reported at most     *)
(* once, and the counter restarts exactly when a session becomes on.       *)
(***************************************************************************)
Busy == {c \in Controllers : ~Outside(c)}
Session ==
  IF Busy = {} THEN IF streaming THEN "on" ELSE "off"
  ELSE IF \E c \in Busy : op[c] = "STOP" THEN "stopping" ELSE "starting"

Ledger == INSTANCE CaptureLedger
            WITH session <- Session, produced <- raised, reported <- counted,
                 count <- frame_count
LedgerSpec == Ledger!Spec

-----------------------------------------------------------------------------
(* A call that entered the driver returns, whichever transfers fail and    *)
(* whatever other threads do meanwhile (lines 349 to 468).                 *)
CallsReturn == \A t \in Threads : pc[t] # "idle" ~> pc[t] = "idle"

(* A frame end whose interrupt is enabled is acknowledged, unless a        *)
(* STOP_STREAM or a failing START_STREAM disables the interrupt first      *)
(* (lines 279 to 321).                                                     *)
PendingFrameEndServed == (irq_on /\ Pending) ~> (~irq_on \/ ~Pending)
=============================================================================
