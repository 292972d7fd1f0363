---------------------------- MODULE CameraProbe ----------------------------
(***************************************************************************)
(* How the V4L2 driver comes and goes: camera_init and camera_exit, which  *)
(* make the platform device and register the driver, camera_probe with     *)
(* the calls of it that may fail and the two labels behind them, and what  *)
(* is left when a driver without a remove function is unbound, by rmmod or *)
(* through sysfs.  Meanwhile user threads open the video devices that are  *)
(* registered, make calls on them and close them.                          *)
(*                                                                         *)
(* camera_main.c does not compile as it stands.  It is read here with the  *)
(* camera_init and camera_exit that are written out (not the second pair   *)
(* of module_platform_driver), with camera_pdev a static variable, and     *)
(* with &cam->queue for the missing member of line 205.  What the compiler *)
(* would only warn of is kept: vdev is used without having been assigned.  *)
(***************************************************************************)
EXTENDS Naturals

CONSTANTS
  Users,      \* user threads
  MaxFaults,  \* bound on the calls that fail between two probes
  MaxProbes   \* bound on the probes of a behaviour

ASSUME ProbeAssumption == MaxFaults \in Nat /\ MaxProbes \in Nat

VARIABLES
  module,     \* the module: "out", "loading", "in", "leaving"
  pdev,       \* the platform device exists
  own,        \* camera_pdev is that device, not an error pointer
  at,         \* the device: "unbound", "probe", "undo", "bound"
  step,       \* the call camera_probe makes next
  probes,     \* probes so far
  faults,     \* calls that failed since the last probe began
  held,       \* what the probes acquired and nobody released
  stale,      \* video devices whose module has left
  file,       \* the video device each user has open, 0 for none
  inside,     \* the user is in an ioctl and has taken cam->lock
  crashed,    \* why the kernel crashed
  bindings,   \* history: the probes that bound the device
  unbound     \* history: the device was once unbound through sysfs

moduleVars == <<module, pdev, own, stale>>
probeVars == <<at, step, probes, faults, held, bindings>>
userVars == <<file, inside>>
vars == <<moduleVars, probeVars, userVars, crashed, unbound>>

(* What a probe holds carries its number.  "cam" is the structure, "node"  *)
(* a registered video device, "queue" an initialised vb2 queue and         *)
(* "attach" a video device that knows its queue.                           *)
Kinds == {"cam", "i2c", "v4l2", "node", "queue", "attach"}
Has(kind, n) == <<kind, n>> \in held
Nodes == {n \in 1 .. probes : Has("node", n)}

Init ==
  /\ module = "out" /\ pdev = FALSE /\ own = FALSE /\ stale = {}
  /\ at = "unbound" /\ step = "end" /\ probes = 0 /\ faults = 0 /\ held = {}
  /\ file = [u \in Users |-> 0] /\ inside = [u \in Users |-> FALSE]
  /\ crashed = "no"
  /\ bindings = {} /\ unbound = FALSE

Running == crashed = "no"
Crash(why) == crashed' = why

Fails == faults < MaxFaults /\ faults' = faults + 1

-----------------------------------------------------------------------------
(* camera_init.  The result of platform_device_register_simple is not      *)
(* tested.  It is an error when the device of that name is there already,  *)
(* left behind by a load that failed.                                      *)
OwnAnyway == TRUE
OwnOnError == FALSE

RegisterDevice ==
  /\ Running /\ module = "out"
  /\ module' = "loading"
  /\ \/ ~pdev /\ pdev' = TRUE /\ own' = TRUE /\ faults' = 0
     \/ pdev /\ pdev' = pdev /\ own' = OwnOnError /\ faults' = 0
     \/ Fails /\ pdev' = pdev /\ own' = OwnOnError
  /\ UNCHANGED <<stale, at, step, probes, held, bindings, userVars, crashed, unbound>>

StartProbe ==
  /\ probes < MaxProbes
  /\ at' = "probe" /\ step' = "cam"
  /\ probes' = probes + 1

(* The driver core probes the device at once; that a probe fails is not a  *)
(* failure of the registration.                                            *)
RegisterDriver ==
  /\ Running /\ module = "loading"
  /\ \/ /\ module' = "in"
        /\ IF pdev THEN StartProbe ELSE UNCHANGED <<at, step, probes>>
        /\ UNCHANGED <<faults, stale>>
     \/ /\ Fails
        /\ module' = "out"
        /\ stale' = Nodes
        /\ UNCHANGED <<at, step, probes>>
  /\ UNCHANGED <<pdev, own, held, bindings, userVars, crashed, unbound>>

(* The device is bound by hand, as test/load_device.sh does.               *)
Bind ==
  /\ Running /\ module = "in" /\ at = "unbound" /\ pdev
  /\ StartProbe
  /\ faults' = 0
  /\ UNCHANGED <<moduleVars, held, bindings, userVars, crashed, unbound>>

-----------------------------------------------------------------------------
(* camera_probe.                                                           *)

AfterCall(k) ==
  CASE k = "cam" -> "i2c"   [] k = "i2c" -> "v4l2"    [] k = "v4l2" -> "vdev"
    [] k = "vdev" -> "node" [] k = "node" -> "queue"  [] k = "queue" -> "attach"
    [] k = "attach" -> "end"

(* err_unregister_v4l2 falls through to err_free_i2c. *)
OnErrorShort(k) ==
  CASE k \in {"cam", "i2c"} -> "end" [] k = "v4l2" -> "i2c" [] k \in {"node", "queue"} -> "i2c"
OnError(k) ==
  CASE k \in {"cam", "i2c"} -> "end" [] k = "v4l2" -> "i2c" [] k \in {"node", "queue"} -> "v4l2"
AfterUndo(k) == CASE k = "v4l2" -> "i2c" [] k = "i2c" -> "end"

(* An adapter has one client at an address. *)
Possible == step = "i2c" => \A n \in 1 .. probes : ~Has("i2c", n)

(* The last of the calls gives the video device its queue, by assignment.  *)
NotAttached == held
Kept == held \cup {<<step, probes>>}

Acquire ==
  /\ Running /\ at = "probe" /\ step \notin {"vdev", "attach", "end"}
  /\ Possible
  /\ held' = held \cup {<<step, probes>>}
  /\ step' = AfterCall(step)
  /\ UNCHANGED <<moduleVars, at, probes, faults, bindings, userVars, crashed, unbound>>

AcquireFails ==
  /\ Running /\ at = "probe" /\ step \notin {"vdev", "attach", "end"}
  /\ \/ ~Possible /\ faults' = faults
     \/ Fails
  /\ at' = "undo" /\ step' = OnError(step)
  /\ UNCHANGED <<moduleVars, probes, held, bindings, userVars, crashed, unbound>>

(* vdev points nowhere in particular: to write through it crashes the      *)
(* kernel or goes unnoticed.                                               *)
Describe ==
  /\ Running /\ at = "probe" /\ step = "vdev"
  /\ \/ Crash("vdev") /\ UNCHANGED step
     \/ step' = AfterCall(step) /\ UNCHANGED crashed
  /\ UNCHANGED <<moduleVars, at, probes, faults, held, bindings, userVars, unbound>>

Attach ==
  /\ Running /\ at = "probe" /\ step = "attach"
  /\ held' = Kept
  /\ at' = "bound" /\ step' = AfterCall(step)
  /\ bindings' = bindings \cup {probes}
  /\ UNCHANGED <<moduleVars, probes, faults, userVars, crashed, unbound>>

Undo ==
  /\ Running /\ at = "undo" /\ step # "end"
  /\ held' = held \ {<<step, probes>>}
  /\ step' = AfterUndo(step)
  /\ UNCHANGED <<moduleVars, at, probes, faults, bindings, userVars, crashed, unbound>>

-----------------------------------------------------------------------------
(* The device is let go.  The driver has no remove: only what devm calls   *)
(* acquired is released, the structure with the queue in it.               *)

DevmWithClient == {<<"cam", probes>>, <<"queue", probes>>, <<"i2c", probes>>}
Devm == {<<"cam", probes>>, <<"queue", probes>>}

LetGo ==
  /\ held' = held \ Devm
  /\ at' = "unbound"
  /\ UNCHANGED <<step, probes, faults, bindings>>

ProbeFails ==
  /\ Running /\ at = "undo" /\ step = "end"
  /\ LetGo
  /\ UNCHANGED <<moduleVars, userVars, crashed, unbound>>

Unbind ==
  /\ Running /\ module = "in" /\ at = "bound"
  /\ LetGo
  /\ unbound' = TRUE
  /\ UNCHANGED <<moduleVars, userVars, crashed>>

(* camera_exit.  camera_fops.owner keeps the module while a file is open.  *)
NotPinned == FALSE
Pinned == \E u \in Users : file[u] # 0

UnregisterDriver ==
  /\ Running /\ module = "in" /\ at \in {"unbound", "bound"}
  /\ ~Pinned
  /\ module' = "leaving"
  /\ IF at = "bound" THEN LetGo ELSE UNCHANGED probeVars
  /\ UNCHANGED <<pdev, own, stale, userVars, crashed, unbound>>

UnregisterDevice ==
  /\ Running /\ module = "leaving"
  /\ module' = "out"
  /\ pdev' = (pdev /\ ~own) /\ own' = FALSE
  /\ stale' = Nodes
  /\ UNCHANGED <<probeVars, userVars, crashed, unbound>>

-----------------------------------------------------------------------------
(* User threads.                                                           *)

(* v4l2_fh_open touches the video device only.  The file operations of a   *)
(* module that has left are gone.                                          *)
Open(u) ==
  /\ Running /\ file[u] = 0
  /\ \E n \in Nodes :
       IF n \in stale
       THEN Crash("module") /\ UNCHANGED file
       ELSE /\ module \in {"loading", "in"}
            /\ file' = [file EXCEPT ![u] = n]
            /\ UNCHANGED crashed
  /\ UNCHANGED <<moduleVars, probeVars, inside, unbound>>

(* Every ioctl takes vdev->lock, the mutex in the structure.  It was never *)
(* initialised: all zeroes, it can be taken and given back, but to wait    *)
(* for it is to follow the NULL of its list, unless it comes free before.  *)
Locked(n) == \E v \in Users : inside[v] /\ file[v] = n

Ioctl(u) ==
  /\ Running /\ file[u] # 0 /\ ~inside[u]
  /\ IF ~Has("cam", file[u]) THEN Crash("freed") /\ UNCHANGED inside
     ELSE IF Locked(file[u]) THEN Crash("mutex") /\ UNCHANGED inside
     ELSE inside' = [inside EXCEPT ![u] = TRUE] /\ UNCHANGED crashed
  /\ UNCHANGED <<moduleVars, probeVars, file, unbound>>

(* VIDIOC_S_FMT with the format of the camera copies it to the structure   *)
(* video_drvdata names, which nobody has set.  The other format calls      *)
(* answer constants.  The buffer and stream calls use the queue.           *)
Returns(u) == inside' = [inside EXCEPT ![u] = FALSE] /\ UNCHANGED crashed

IoctlWorks(u) ==
  /\ Running /\ inside[u]
  /\ IF ~Has("cam", file[u]) THEN Crash("freed") /\ UNCHANGED inside
     ELSE \/ Crash("drvdata") /\ UNCHANGED inside
          \/ Returns(u)
          \/ ~Has("attach", file[u]) /\ Crash("queue") /\ UNCHANGED inside
  /\ UNCHANGED <<moduleVars, probeVars, file, unbound>>

(* poll and mmap use the queue of the video device, and the close does     *)
(* (vb2_fop_release).                                                      *)
UsesQueue(u) ==
  IF ~Has("attach", file[u]) THEN Crash("queue")
  ELSE IF ~Has("cam", file[u]) THEN Crash("freed")
  ELSE UNCHANGED crashed

PollOrMap(u) ==
  /\ Running /\ file[u] # 0 /\ ~inside[u]
  /\ UsesQueue(u)
  /\ UNCHANGED <<moduleVars, probeVars, userVars, unbound>>

Close(u) ==
  /\ Running /\ file[u] # 0 /\ ~inside[u]
  /\ UsesQueue(u)
  /\ file' = [file EXCEPT ![u] = 0]
  /\ UNCHANGED <<moduleVars, probeVars, inside, unbound>>

-----------------------------------------------------------------------------
Driver == \/ RegisterDevice \/ RegisterDriver \/ Bind
          \/ Acquire \/ AcquireFails \/ Describe \/ Attach \/ Undo \/ ProbeFails
          \/ Unbind \/ UnregisterDriver \/ UnregisterDevice

User(u) == Open(u) \/ Ioctl(u) \/ IoctlWorks(u) \/ PollOrMap(u) \/ Close(u)

Next == Driver \/ \E u \in Users : User(u)

Spec == Init /\ [][Next]_vars

-----------------------------------------------------------------------------
(* Every variable stays in its range, and the device is only ever probed   *)
(* or bound while it exists and its driver is registered.                  *)
TypeOK ==
  /\ module \in {"out", "loading", "in", "leaving"}
  /\ pdev \in BOOLEAN /\ own \in BOOLEAN /\ unbound \in BOOLEAN
  /\ at \in {"unbound", "probe", "undo", "bound"}
  /\ step \in Kinds \cup {"vdev", "end"}
  /\ probes \in Nat /\ faults \in Nat
  /\ held \subseteq Kinds \X (1 .. probes)
  /\ stale \subseteq 1 .. probes /\ bindings \subseteq 1 .. probes
  /\ file \in [Users -> 0 .. probes] /\ inside \in [Users -> BOOLEAN]
  /\ crashed \in {"no", "vdev", "queue", "freed", "mutex", "drvdata", "module"}
  /\ at # "unbound" => module = "in" /\ pdev
  /\ own => pdev

(* Whatever fails in a probe, the client at the sensor's address, which    *)
(* every later probe needs, and the v4l2 device are given back (labels at  *)
(* camera_main.c:213 to 217): a device that is not bound leaves them only  *)
(* if it was bound.                                                        *)
FailedProbeReleases ==
  at = "unbound" =>
    \A n \in 1 .. probes : Has("i2c", n) \/ Has("v4l2", n) => n \in bindings

(* While the device is bound, no video device that an earlier binding left *)
(* behind is there beside the new one: there would be two queues for one   *)
(* sensor.  What prevents it is only that the old client keeps its address *)
(* (camera_main.c:177).                                                    *)
OneInstance == at = "bound" => {n \in 1 .. probes : Has("attach", n)} = {probes}

(* An open file of a video device with a queue refers to a structure that  *)
(* is there, as long as nobody unbinds the device through sysfs: the file  *)
(* keeps the module, and the module the device (camera_main.c:28).         *)
FilesOnLiveCam ==
  ~unbound => \A u \in Users : file[u] # 0 /\ Has("attach", file[u]) => Has("cam", file[u])

(* Once the device is bound, no call on its video device finds its queue   *)
(* missing, its structure freed or its code gone, also through a file that *)
(* was opened before the queue was initialised and attached                *)
(* (camera_main.c:197 to 205).  What can still crash the kernel is the     *)
(* mutex nobody initialised and VIDIOC_S_FMT.                              *)
UsableOnceBound ==
  [][\A u \in Users : User(u) /\ at = "bound" /\ file[u] = probes
       => crashed' \notin {"queue", "freed", "module"}]_vars

(* README.md:189: unloading releases the resources (camera_remove, which   *)
(* the driver does not have).                                              *)
UnloadReleases == module = "out" => held = {}
=============================================================================
