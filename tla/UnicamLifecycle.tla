-------------------------- MODULE UnicamLifecycle --------------------------
(***************************************************************************)
(* How the manual-unicam driver comes and goes: unicam_probe with every    *)
(* call of it that may fail, the unwinding behind its labels,              *)
(* unicam_remove, and what the kernel releases by itself afterwards        *)
(* (devm calls).  Meanwhile the interrupt line is shared, so the handler   *)
(* may run at any time from request to release, and user threads open the  *)
(* device, start and stop the stream, and close it.                        *)
(*                                                                         *)
(* The repository has the driver twice.  src/src/manual-unicam-driver.c    *)
(* registers the character device once; src/manual-unicam-driver.c is the  *)
(* same driver except that its probe registers it a second time (Twice).   *)
(* How a start or a stop interleaves with another is the subject of        *)
(* UnicamStream; here each is two steps, the hardware and the flag.        *)
(***************************************************************************)
EXTENDS Naturals

CONSTANTS
  Users,      \* user threads
  Streamers,  \* those of them that start and stop the stream
  Twice,      \* the probe registers the character device twice
  MaxFaults,  \* bound on the calls of a probe that fail
  MaxProbes   \* bound on the probes of a behaviour

ASSUME LifecycleAssumption ==
  /\ Streamers \subseteq Users
  /\ Twice \in BOOLEAN
  /\ MaxFaults \in Nat /\ MaxProbes \in Nat

VARIABLES
  at,         \* what the driver core is doing to the device
  step,       \* the call it makes next
  nth,        \* which of its registrations the probe is at
  held,       \* the resources that are held
  field,      \* the registration dev->devt, dev->cdev and dev->class name
  device,     \* g_unicam_dev: 0 for NULL, else the number of the probe
  probes,     \* probes so far
  faults,     \* calls of the last probe that failed
  leaving,    \* the module is being removed, not only the device unbound
  streaming,  \* dev->streaming
  core,       \* UNICAM_CTRL has UNICAM_CPE
  isr,        \* the interrupt handler is running
  file,       \* where each user is with its file
  priv,       \* its filp->private_data
  mapped,     \* the DMA buffer is mapped through that file
  orphans,    \* history: users whose file outlived its character device
  exposed     \* history: a file was open while the device was not bound

driverVars == <<at, step, nth, held, field, device, probes, faults, leaving>>
streamVars == <<streaming, core>>
fileVars == <<file, priv, mapped>>
history == <<orphans, exposed>>
userVars == <<fileVars, history>>
vars == <<driverVars, streamVars, isr, userVars>>

(***************************************************************************)
(* A resource is a kind and a number.  The number tells the two            *)
(* registrations of a probe that registers the device twice apart, and     *)
(* what earlier probes have left behind from both.                         *)
(***************************************************************************)
Devm == {"mem", "regs", "irq"}
Platform == {"clk_lp", "clk_vpu", "dma", "i2c"}
Registration == {"region", "cdev", "class", "node"}
Kinds == Devm \cup Platform \cup Registration
Earlier == 3
Numbers == {1, 2, Earlier}
Resources == Kinds \X Numbers

(* The calls of unicam_probe, in order: what it acquires after what. *)
AfterCallIrqFirst(k) ==
  CASE k = "mem" -> "irq"        [] k = "irq" -> "regs"       [] k = "regs" -> "clk_lp"
    [] k = "clk_lp" -> "clk_vpu" [] k = "clk_vpu" -> "dma"    [] k = "dma" -> "i2c"
    [] k = "i2c" -> "region"     [] k = "region" -> "cdev"    [] k = "cdev" -> "class"
    [] k = "class" -> "node"     [] k = "node" -> "end"
AfterCall(k) ==
  CASE k = "mem" -> "regs"       [] k = "regs" -> "irq"       [] k = "irq" -> "clk_lp"
    [] k = "clk_lp" -> "clk_vpu" [] k = "clk_vpu" -> "dma"    [] k = "dma" -> "i2c"
    [] k = "i2c" -> "region"     [] k = "region" -> "cdev"    [] k = "cdev" -> "class"
    [] k = "class" -> "node"     [] k = "node" -> "end"

AgainAlways(k) == k = "node" /\ nth = 1
Again(k) == Twice /\ k = "node" /\ nth = 1

(* The releases behind the labels of unicam_probe, each falling through to *)
(* the next.  err_chrdev_region exists only in the driver that registers   *)
(* twice.                                                                  *)
LastLabel == IF Twice THEN "region_again" ELSE "end"

AfterUndoLeaky(k) ==
  CASE k = "class" -> "cdev"      [] k = "cdev" -> "region"    [] k = "region" -> "i2c"
    [] k = "i2c" -> "clk_vpu"     [] k = "dma" -> "clk_vpu"    [] k = "clk_vpu" -> "clk_lp"
    [] k = "clk_lp" -> LastLabel  [] k = "region_again" -> "end"
AfterUndo(k) ==
  CASE k = "class" -> "cdev"      [] k = "cdev" -> "region"    [] k = "region" -> "i2c"
    [] k = "i2c" -> "dma"         [] k = "dma" -> "clk_vpu"    [] k = "clk_vpu" -> "clk_lp"
    [] k = "clk_lp" -> LastLabel  [] k = "region_again" -> "end"

(* Where the probe goes when the call for a resource fails.  When the      *)
(* second clock fails it disables the first on the spot and returns.       *)
OnError(k, n) ==
  CASE k \in Devm \cup {"clk_lp", "clk_vpu"} -> "end"
    [] k = "dma" -> "clk_vpu"
    [] k = "i2c" -> "dma"
    [] k = "region" -> "i2c"
    [] k = "cdev" -> IF n = 1 THEN "region" ELSE "region_again"
    [] k = "class" -> "cdev"
    [] k = "node" -> "class"

(* unicam_remove, after it has stopped the stream; "device" stands for the *)
(* reset of g_unicam_dev.                                                  *)
AfterRemoveDmaEarly(k) ==
  CASE k = "node" -> "class"  [] k = "class" -> "dma"       [] k = "dma" -> "cdev"
    [] k = "cdev" -> "region" [] k = "region" -> "i2c"      [] k = "i2c" -> "clk_vpu"
    [] k = "clk_vpu" -> "clk_lp" [] k = "clk_lp" -> "device" [] k = "device" -> "end"
AfterRemove(k) ==
  CASE k = "node" -> "class"     [] k = "class" -> "cdev"     [] k = "cdev" -> "region"
    [] k = "region" -> "i2c"     [] k = "i2c" -> "dma"        [] k = "dma" -> "clk_vpu"
    [] k = "clk_vpu" -> "clk_lp" [] k = "clk_lp" -> "device"  [] k = "device" -> "end"

(* The driver core releases what devm calls acquired, last acquired first. *)
AfterDevm(k) == CASE k = "irq" -> "regs" [] k = "regs" -> "mem" [] k = "mem" -> "end"

Init ==
  /\ at = "absent" /\ step = "end" /\ nth = 1 /\ held = {}
  /\ field = [k \in Registration |-> 0]
  /\ device = 0 /\ probes = 0 /\ faults = 0 /\ leaving = FALSE
  /\ streaming = FALSE /\ core = FALSE
  /\ isr = FALSE
  /\ file = [u \in Users |-> "closed"]
  /\ priv = [u \in Users |-> 0]
  /\ mapped = [u \in Users |-> FALSE]
  /\ orphans = {} /\ exposed = FALSE

-----------------------------------------------------------------------------
(* unicam_probe.                                                           *)

(* The device structure is allocated with zeroes, so a new probe knows     *)
(* neither what an earlier one has left behind nor of a stream that was on *)
(* when the device was removed.                                            *)
Pinned == \E u \in Users : file[u] # "closed"

Probe ==
  /\ at = "absent"
  /\ probes < MaxProbes
  /\ at' = "probe"
  /\ step' = "mem" /\ nth' = 1
  /\ probes' = probes + 1
  /\ faults' = 0
  /\ leaving' = FALSE
  /\ held' = {<<r[1], Earlier>> : r \in held}
  /\ field' = [k \in Registration |-> 0]
  /\ streaming' = FALSE
  /\ exposed' = (exposed /\ (core \/ Pinned))
  /\ UNCHANGED <<device, core, isr, fileVars, orphans>>

Call == <<step, nth>>

(* The kernel does not let two classes have one name. *)
ClassTaken == \E n \in Numbers : <<"class", n>> \in held
Possible == step = "class" => ~ClassTaken

(* The field is written even by a call that fails, but for dev->devt. *)
Written(succeeded) ==
  IF step \in {"cdev", "class", "node"} \/ (step = "region" /\ succeeded)
  THEN [field EXCEPT ![step] = nth] ELSE field

GoOn ==
  IF Again(step) THEN step' = "region" /\ nth' = 2
                 ELSE step' = AfterCall(step) /\ nth' = nth

(* The structure is published in g_unicam_dev as soon as it is allocated. *)
Acquire ==
  /\ at = "probe"
  /\ step # "end"
  /\ Possible
  /\ held' = held \cup {Call}
  /\ GoOn
  /\ field' = Written(TRUE)
  /\ device' = IF step = "mem" THEN probes ELSE device
  /\ UNCHANGED <<at, probes, faults, leaving, streamVars, isr, userVars>>

(* device_create returns an error pointer when it fails.  The first        *)
(* registration tests its result for NULL and goes on; only the second,    *)
(* where there is one, uses IS_ERR.                                        *)
Noticed == Call # <<"node", 1>>

AcquireFails ==
  /\ at = "probe"
  /\ step # "end"
  /\ \/ ~Possible /\ faults' = faults
     \/ faults < MaxFaults /\ faults' = faults + 1
  /\ held' = IF step = "clk_vpu" THEN held \ {<<"clk_lp", 1>>} ELSE held
  /\ field' = Written(FALSE)
  /\ IF Noticed
     THEN at' = "undo" /\ step' = OnError(step, nth) /\ nth' = nth
     ELSE at' = at /\ GoOn
  /\ UNCHANGED <<device, probes, leaving, streamVars, isr, userVars>>

ProbeDone ==
  /\ at = "probe"
  /\ step = "end"
  /\ at' = "bound"
  /\ UNCHANGED <<step, nth, held, field, device, probes, faults, leaving, streamVars,
                 isr, userVars>>

-----------------------------------------------------------------------------
(* unicam_remove and the release of a probe that failed.                   *)

(* "Stop streaming if active": whether the sensor answers is not looked at. *)
RemoveRunning == core
RemovedCore == core /\ ~streaming

Remove(unloading) ==
  /\ at = "bound"
  /\ at' = "remove"
  /\ step' = "node"
  /\ core' = RemovedCore
  /\ leaving' = unloading
  /\ UNCHANGED <<nth, held, field, device, probes, faults, streaming, isr, fileVars, orphans>>

(* .owner = THIS_MODULE: an open file keeps the module from being removed, *)
(* and a mapping keeps its file open.                                      *)
RemovableAlways == TRUE
Removable == ~Pinned

Unload == Removable /\ Remove(TRUE) /\ UNCHANGED exposed

(* It does not keep the device from being unbound through sysfs. *)
UnbindDevice == Remove(FALSE) /\ exposed' = (exposed \/ Pinned)

(* A release of a registration is one of the registration the structure    *)
(* names now.                                                              *)
Named(k) ==
  CASE k = "region_again" -> <<"region", field["region"]>>
    [] k \in Registration -> <<k, field[k]>>
    [] OTHER -> <<k, 1>>

(* cdev_del does not revoke the files that are open.  (When the module is  *)
(* being removed there are none.)                                          *)
Orphaned == {u \in Users : step = "cdev" /\ ~leaving /\ file[u] # "closed"}

(* free_irq keeps the handler from being entered and then waits for it. *)
QuiescedFirst == step = "irq" => ~isr
Quiesced == step = "regs" => ~isr

Release ==
  /\ at \in {"undo", "remove", "devm"}
  /\ step # "end"
  /\ Quiesced
  /\ held' = held \ {Named(step)}
  /\ device' = IF step = "device" THEN 0 ELSE device
  /\ step' = CASE at = "undo" -> AfterUndo(step)
               [] at = "remove" -> AfterRemove(step)
               [] at = "devm" -> AfterDevm(step)
  /\ orphans' = orphans \cup Orphaned
  /\ UNCHANGED <<at, nth, field, probes, faults, leaving, streamVars, isr, fileVars, exposed>>

Released ==
  /\ step = "end"
  /\ \/ at \in {"undo", "remove"} /\ at' = "devm" /\ step' = "irq"
     \/ at = "devm" /\ at' = "absent" /\ step' = step
  /\ UNCHANGED <<nth, held, field, device, probes, faults, leaving, streamVars, isr, userVars>>

-----------------------------------------------------------------------------
(* unicam_isr, on a line shared with other devices (IRQF_SHARED).          *)

IsrEnter ==
  /\ <<"irq", 1>> \in held
  /\ ~isr
  /\ isr' = TRUE
  /\ UNCHANGED <<driverVars, streamVars, userVars>>

IsrReturn ==
  /\ isr
  /\ isr' = FALSE
  /\ UNCHANGED <<driverVars, streamVars, userVars>>

-----------------------------------------------------------------------------
(* User threads.                                                           *)

Move(u, from, to) ==
  /\ file[u] = from
  /\ file' = [file EXCEPT ![u] = to]

(* The last reference to a file is dropped, and its history with it. *)
Forget == orphans' = {u \in orphans : file'[u] # "closed"}

(* The device can be opened by its number from cdev_add to cdev_del, with  *)
(* the node of device_create or another.  The kernel pins the module,      *)
(* unless the module is being removed already.                             *)
Reachable == \E n \in Numbers : <<"cdev", n>> \in held

Open(u) ==
  /\ Reachable
  /\ ~(at = "remove" /\ leaving)
  /\ Move(u, "closed", "opening")
  /\ exposed' = (exposed \/ at # "bound")
  /\ UNCHANGED <<driverVars, streamVars, isr, priv, mapped, orphans>>

(* unicam_open fails when there is no device (any more). *)
OpenedUntested == "open"
Opened == IF device = 0 THEN "closed" ELSE "open"

OpenReturns(u) ==
  /\ Move(u, "opening", Opened)
  /\ priv' = [priv EXCEPT ![u] = device]
  /\ Forget
  /\ UNCHANGED <<driverVars, streamVars, isr, mapped, exposed>>

(* What a call does with a structure that has been freed is not defined;   *)
(* that it cannot happen is a property below.                              *)
Live(u) == priv[u] = probes /\ <<"mem", 1>> \in held

(* unicam_mmap.  A mapping that is too large is refused.                   *)
Map(u) ==
  /\ file[u] = "open" /\ Live(u)
  /\ ~mapped[u]
  /\ mapped' = [mapped EXCEPT ![u] = TRUE]
  /\ UNCHANGED <<driverVars, streamVars, isr, file, priv, history>>

(* The descriptor is closed.  A mapping keeps the file; unicam_release is  *)
(* called for the last reference.  It leaves the stream as it is.          *)
ClosedUnpinned(u) == "closed"
Closed(u) == IF mapped[u] THEN "mapping" ELSE "closed"

Close(u) ==
  /\ Move(u, "open", Closed(u))
  /\ priv' = [priv EXCEPT ![u] = 0]
  /\ Forget
  /\ UNCHANGED <<driverVars, streamVars, isr, mapped, exposed>>

Unmap(u) ==
  /\ mapped[u]
  /\ mapped' = [mapped EXCEPT ![u] = FALSE]
  /\ file' = [file EXCEPT ![u] = IF @ = "mapping" THEN "closed" ELSE @]
  /\ Forget
  /\ UNCHANGED <<driverVars, streamVars, isr, priv, exposed>>

StartHardware(u) ==
  /\ Live(u) /\ ~streaming
  /\ Move(u, "open", "starting")
  /\ core' = TRUE
  /\ UNCHANGED <<driverVars, streaming, isr, priv, mapped, history>>

(* The sensor has been configured, or it has not and the core is off again. *)
StartReturns(u) ==
  /\ Live(u)
  /\ Move(u, "starting", "open")
  /\ \/ streaming' = TRUE /\ core' = core
     \/ streaming' = streaming /\ core' = FALSE
  /\ UNCHANGED <<driverVars, isr, priv, mapped, history>>

StopHardware(u) ==
  /\ Live(u) /\ streaming
  /\ Move(u, "open", "stopping")
  /\ core' = FALSE
  /\ UNCHANGED <<driverVars, streaming, isr, priv, mapped, history>>

StopReturns(u) ==
  /\ Live(u)
  /\ Move(u, "stopping", "open")
  /\ streaming' = FALSE
  /\ UNCHANGED <<driverVars, core, isr, priv, mapped, history>>

-----------------------------------------------------------------------------
Driver == \/ Probe \/ Acquire \/ AcquireFails \/ ProbeDone
          \/ Unload \/ UnbindDevice \/ Release \/ Released

User(u) == \/ Open(u) \/ OpenReturns(u) \/ Close(u) \/ Map(u) \/ Unmap(u)
           \/ /\ u \in Streamers
              /\ StartHardware(u) \/ StartReturns(u) \/ StopHardware(u) \/ StopReturns(u)

Next == Driver \/ IsrEnter \/ IsrReturn \/ \E u \in Users : User(u)

Spec == Init /\ [][Next]_vars

(***************************************************************************)
(* Fairness.  A probe or a release that has begun goes on, a handler that  *)
(* was entered returns.  Nothing is assumed of users, of interrupts, or of *)
(* when the driver is bound and removed.                                   *)
(***************************************************************************)
Fairness ==
  /\ WF_vars(Acquire \/ AcquireFails \/ ProbeDone \/ Release \/ Released)
  /\ WF_vars(IsrReturn)

FairSpec == Spec /\ Fairness

-----------------------------------------------------------------------------
(* Every variable stays in its range, and a file that was opened has the   *)
(* structure of a probe for its private data, never the NULL that          *)
(* unicam_remove leaves in g_unicam_dev (lines 328 to 333 and 714).        *)
InCall == {"open", "starting", "stopping"}
TypeOK ==
  /\ at \in {"absent", "probe", "undo", "bound", "remove", "devm"}
  /\ step \in Kinds \cup {"device", "region_again", "end"} /\ nth \in {1, 2}
  /\ held \subseteq Resources
  /\ field \in [Registration -> {0, 1, 2}]
  /\ probes \in Nat /\ device \in 0 .. probes /\ faults \in Nat
  /\ leaving \in BOOLEAN /\ exposed \in BOOLEAN /\ orphans \subseteq Users
  /\ streaming \in BOOLEAN /\ core \in BOOLEAN /\ isr \in BOOLEAN
  /\ file \in [Users -> InCall \cup {"closed", "opening", "mapping"}]
  /\ priv \in [Users -> 0 .. probes] /\ mapped \in [Users -> BOOLEAN]
  /\ \A u \in Users : file[u] \in InCall => priv[u] # 0

(***************************************************************************)
(* Whichever calls of a probe fail, and after every removal, nothing the   *)
(* driver acquired stays behind (labels at lines 664 to 677, remove at 698 *)
(* to 712).                                                                *)
(***************************************************************************)
NothingLeaks == at = "absent" => held = {}

(***************************************************************************)
(* While user space can reach the character device, during a probe, an     *)
(* unwinding or a removal too, everything its file operations use is held: *)
(* registers, clocks, the DMA buffer, the I2C client.                      *)
(***************************************************************************)
Base == (Devm \cup Platform) \X {1}
CdevBacked == \A n \in Numbers : <<"cdev", n>> \in held => Base \subseteq held

(***************************************************************************)
(* The handler, which may be entered as soon as it is requested (line 537) *)
(* and until it is released after remove has returned, always finds the    *)
(* structure and the registers it uses.                                    *)
(***************************************************************************)
HandlerOnLiveDevice == isr => {<<"mem", 1>>, <<"regs", 1>>} \subseteq held

(***************************************************************************)
(* The core, which writes to memory by itself, is never on without the DMA *)
(* buffer and the clocks, although closing a file does not stop the stream *)
(* (lines 340 to 347) and the buffer is freed at removal (line 707).  It   *)
(* holds for one thread that controls the stream, and as long as no file   *)
(* is open while the device is not bound.  Otherwise it does not: a stream *)
(* that is started between cdev_add and a failing call of the probe        *)
(* (lines 634 to 655) is not stopped by the labels, nor by unicam_remove   *)
(* one that is started during it.  The exception ends with the first probe *)
(* that finds the core off and no file open.                               *)
(***************************************************************************)
CoreOnBuffer ==
  ~exposed /\ core => {<<"dma", 1>>, <<"clk_lp", 1>>, <<"clk_vpu", 1>>} \subseteq held

(***************************************************************************)
(* An open file refers to the structure of the present probe, with all its *)
(* file operations need, also while a probe, an unwinding or a removal is  *)
(* going on: unicam_open takes whatever g_unicam_dev holds (line 328),     *)
(* which a failed probe leaves behind, and only the order of the calls     *)
(* (lines 505, 634 and 702 to 714) and the pin on the module make it the   *)
(* right one.  Excepted are the files that were open when the unwinding of *)
(* a probe or an unbinding deleted the character device, until they are    *)
(* closed: of these it is not true.                                        *)
(***************************************************************************)
FilesOnLiveDevice ==
  \A u \in Users \ orphans : file[u] \in InCall => Live(u) /\ Base \subseteq held

(***************************************************************************)
(* No mapping of the DMA buffer outlives the buffer (lines 383, 673 and    *)
(* 707), but those of the same files, though nothing in the driver counts  *)
(* the mappings and a descriptor may be closed before its mapping.         *)
(***************************************************************************)
MappingOnBuffer == \A u \in Users \ orphans : mapped[u] => <<"dma", 1>> \in held

(* A probe none of whose calls fails by itself never unwinds and ends with *)
(* "Manual Unicam driver initialized successfully" and everything acquired *)
(* (line 658 of the one driver, 725 of the other).                         *)
FaultlessProbeBinds ==
  /\ at = "undo" => faults > 0
  /\ at = "bound" /\ faults = 0 => Kinds \X {1} \subseteq held

(* Unwinding and removal come to an end, though free_irq waits for a       *)
(* handler that other devices on the line may cause to run at any time.    *)
TeardownEnds == at \in {"undo", "remove", "devm"} ~> at = "absent"
=============================================================================
