# TLA+ models of the Raspberry Pi camera drivers

The repository holds two Linux kernel drivers that do not share code: a
character device that drives the Unicam CSI receiver and an IMX219 sensor by
hand (`manual-unicam-driver.c`, in two variants), and a V4L2 driver on
videobuf2 (`camera_*.c`) with a test client. This directory models them, checks
the models with TLC on small instances, and proves the safety properties with
TLAPS for instances of any size.

Paths below are relative to the root of the repository. Line numbers in the
comments of the Unicam modules are those of `src/manual-unicam-driver.c`, the
variant the Makefile sits beside; the variant in the top directory is the same
file but for a second registration in its probe (its lines 656 to 722), one
label (745) and the order of log lines. `PROJECT.json` maps every definition
to the lines it stands for (there the root of the repository is `src/`).

## 1. Inventory

| component | state it keeps | operations | talks to |
|---|---|---|---|
| Unicam driver, runtime (`src/manual-unicam-driver.c` 90-478) | `streaming`, `frame_count`, `current_write_ptr`; receiver registers CTRL, CLK, IBSA0/IBEA0, ICTL, ISTA, IBWP; sensor mode | `unicam_isr`; ioctls START_STREAM, STOP_STREAM, GET_BUFFER; read, poll, mmap | user threads by system calls, hardware by registers and interrupt, sensor by I2C |
| Unicam driver, lifecycle (483-717; top variant 483-799) | which resources are held, `g_unicam_dev`, `devt`/`cdev`/`class`, `private_data` of files, mappings of the buffer | probe with its labels, remove, open, release, mmap; devm release by the driver core | driver core, interrupt core, chrdev and class code |
| V4L2 driver, buffers and interrupt (`camera_vb2.c`, `camera_irq.c`) | `queued_list`, `streaming`, `frame_count`, per buffer `list` and `sequence`; in the core `queued_list`, `done_list`, buffer states, `lock` | `queue_setup`, `buf_queue`, `start_streaming`, `stop_streaming`, `camera_irq_handler`; REQBUFS, QBUF, DQBUF, STREAMON, STREAMOFF in the core | videobuf2 by callbacks, both ways |
| V4L2 driver, probe and module (`camera_main.c`) | the platform device, the I2C client, the v4l2 and video devices, the queue; open files | `camera_init`, `camera_exit`, `camera_probe` with its labels; bind and unbind; file operations | v4l2, i2c and platform core |
| V4L2 driver, ioctl table (`camera_v4l2.c`) | `current_fmt`, written and never read | query and format ioctls | v4l2 core |
| Test client (`test/simple_capture.c`) | the buffer in hand, frames captured | ask for buffers, queue all, stream on, dequeue and requeue, stream off | V4L2 driver |
| Scripts, Makefile, device trees | none | build, load, describe | |

Hard behaviours, and what makes a component correct in spite of them (each
hazard with its line is in `PROJECT.json`):

* *Runtime.* The ioctls take no lock and sleep; the interrupt handler has a
  lock to itself; `read` takes none. Correct means: frames are not invented,
  the counter stays close to the session, a read pairs a count with its own
  frame unless the handler is at work meanwhile, the flag tells whether the
  hardware runs, the core never runs without a DMA window.
* *Lifecycle.* A dozen calls may fail and are unwound by labels; the shared
  interrupt is live before the probe is over and until devm frees it; files and
  mappings may be open while the device goes. Correct means: nothing leaks,
  nothing reachable lacks what it uses, teardown ends. Of files that outlive the
  character device, nothing is correct: the driver has no defence against them.
* *Buffers.* A buffer is on up to three lists that three parties change.
  Correct means: order kept, numbers rising, all buffers back at the stop,
  no freed buffer listed, waiters woken, nobody waiting on himself.
* *Probe and module.* The node is registered before its queue exists, a failure
  may follow that, and there is no remove. Correct means: a failed probe gives
  back what the next one needs, one instance at a time, a bound device usable.
* *Client.* Its format call does not return on the driver as it is. On one in
  which that call works it holds one buffer at a time over a driver whose own list is
  corrupt after the first requeue. Correct means: buffers in turn, no call
  refused, a buffer whenever it waits for one.

## 2. Modules

| module | what it is |
|---|---|
| `UnicamStream` | the running Unicam driver: any number of threads in ioctl, read and poll, the handler, receiver and sensor |
| `CaptureLedger` | the abstract promise to a controlling program: a session off, starting, on, stopping; frames produced and reported; a counter that restarts with the session |
| `UnicamStreamProofs`, `UnicamLedgerProofs` | proofs of the invariants of `UnicamStream`; for a single controlling thread, that it implements `CaptureLedger` |
| `UnicamLifecycle` | probe, unwinding, remove and devm release of both variants, with interrupts, user threads and mappings |
| `UnicamLifecycleProofs` | proofs for both variants: types, the handler, the descent of a teardown; for the one that registers once, the other invariants; for the top variant, what becomes of its probes |
| `KernelList` | `struct list_head` by its pointers |
| `CameraBuffers` | the vb2 callbacks and the interrupt handler of the V4L2 driver with the videobuf2 core around them |
| `CaptureQueue` | the abstract promise of a capture queue: buffers go user, driver, ready, user, oldest first |
| `CameraBuffersProofs`, `CameraStopProofs`, `CameraQueueProofs` | proofs about the order of delivery; the stop and the types; the sequence numbers, the refinement of `CaptureQueue` and who may change a buffer. Each extends the one before |
| `SimpleCapture`, `SimpleCaptureProofs` | the test client composed with `CameraBuffers`, and its proofs |
| `CameraProbe`, `CameraProbeProofs` | module and probe of the V4L2 driver with open files, and its proofs |
| `MC...` | instances for TLC: symmetry sets and sequences of buffers |

### UnicamStream

*State.* The three shared fields keep their names. A register is a Boolean
that says whether the bits the driver cares about are set (`core` is CPE of
UNICAM_CTRL, `window` the programmed IBSA0 and IBEA0); `ista` is the set of
status bits. The analog, format and pipe registers, which nothing tests, are
part of the neighbouring steps. A write pointer is the number of the last frame
it points behind, so "newer" is "greater".

*Grain.* Every access to a register or shared field that another actor could
observe is one action, in program order: `unicam_hw_init` is five actions,
`unicam_hw_disable` three, the handler five, `read` a load each and a return.
I2C is a step per register; each transfer may fail (`SensorFails`,
`StopSensor`). An ioctl whose test fails returns at once and changes nothing,
so it is no action. Under `WeakOrder` the handler's two stores and the reader's
two loads may go either way round, which is what the missing barriers permit on
the processor the driver is for. Then a read that overlaps the two stores may
hand out any pair; even in program order it may pair an older count with a newer
pointer. `overlapped` remembers the reads that do, and `ReadFits` says of all
others that a count is paired with the pointer of its own frame.

*External.* Frames (`FrameStart`, `FrameEnd`) come only while core, clock lane
and sensor are on, which is what the driver's start and stop sequences rely on.
The mode 7 table is in a header the repository lacks; its last entry is taken to
start the sensor because nothing else in the driver does.

### UnicamLifecycle

`at` says what the driver core is doing to the device (probe, undo, bound,
remove, devm, absent) and `step` the call it makes next. The order of the calls
is in one operator for each list of the source: `AfterCall` for the probe,
`OnError` for the label a failing call jumps to, `AfterUndo` for the labels
falling through, `AfterRemove`, `AfterDevm`. A resource is a kind and the number
of its registration: in the variant that registers twice (`Twice`) the probe
goes back from the node to the region with `nth = 2`, and `field` is the
registration the structure names now, the only one a release can reach.
`<<"irq", 1>>` in `held` is all it takes for the handler to be entered; free_irq
(the first release of devm) waits for it.

Users open the device, map the buffer, close and unmap in any order; a mapping
keeps its file. The device can be opened by its number while a character device
is registered, from `cdev_add` to `cdev_del`, whether or not the probe has got as
far as the node (`Reachable`). A file keeps the module (`Removable`) and not the
device (`UnbindDevice`, through sysfs).

So a file may outlive the structure it refers to in two ways: a call of the probe
after `cdev_add` fails, or the device is unbound. The driver has nothing against
either, and the properties of files and mappings do not hold of such a file.
`orphans` are the users whose file was open when an unwinding or an unbinding
deleted the character device, until they close it; `FilesOnLiveDevice` and
`MappingOnBuffer` hold of all others. The core may be left running without any
such file: a stream started before the probe is over is not stopped by the
labels, and one started while `unicam_remove` runs not by that. `exposed`
remembers that a file was open while the device was not bound, until a probe finds
the core off and no file open; `CoreOnBuffer` excepts that time. What an orphan
then does with a freed structure is undefined and is left out (`Live` guards the
calls that would).

What earlier probes have left behind keeps its kind and gets the number `Earlier`,
so that a release reaches only what its own probe acquired. When the second clock
fails, the first is disabled on the spot and the probe returns without a label
(`AcquireFails`, `OnError`). Start and stop of the stream are two steps each here
(hardware, then flag); their fine interleaving is `UnicamStream`'s subject. A
`device_create` that fails goes unnoticed in the first registration (`Noticed`)
and the probe goes on without a node.

### CameraBuffers

The vb2 core is modelled from how it calls this driver: QBUF appends to its
queued list, hands the buffer over (`Activate`) and calls `buf_queue`; DQBUF
takes from the done list, then from the queued list, and fails while another
thread waits in it; STREAMOFF calls `stop_streaming`, then takes everything
back; REQBUFS frees all buffers and allocates new ones, which find the places
of the old. All under `q->lock`. The driver has no `wait_prepare`, so it depends
on the core whether a waiting DQBUF releases the lock: a newer core does
(`Unlocks`), an older one leaves it to the driver. Both are checked:
`buffers_up` has a core that releases it, because only there a DQBUF ever sleeps
while others queue; on the other core `LockGivenBack` is violated
(`buffers_lock`). The theorems hold of both.
The driver's own list is kept with its pointers, without CONFIG_DEBUG_LIST,
because entries are added to it twice. The handler is one step: on a
uniprocessor nothing runs beside it and it does not run inside the core's
`done_lock` sections, which are single steps. With `Smp` it stops at the lock it
holds. The copy of the sequence number to the user is part of taking the buffer.
The model supposes that the handler was requested, as the repository's README
has it, and that `q->lock` works; `CameraProbe` is about what the probe does not
set up.

*Refinement.* `CaptureSpec` maps the state onto `CaptureQueue`. A buffer waits
from QBUF until its frame is there, whether the core still has it or the driver;
it is ready while it is on the done list, and the user's as soon as DQBUF has
taken it off. The waiting line is the queued list without its head if that is
done (`HeadDone`): the handler completes no other buffer than the head, and the
head stays on the queued list until DQBUF has finished with it. A buffer that
`stop_streaming` gives back without a frame is ready with an error and keeps its
place in the line until the core takes everything back. The mode is read off the
driver's flag and the core's. The corrupted list of the driver does not disturb
the mapping.

### SimpleCapture

The client's places are its functions: `init_device` before and after the format
call, `start_capturing`, `capture_frame` before and after its DQBUF,
`stop_capturing`. An action of the client conjoins a call of `CameraBuffers` with
its place; `Kernel` is a call in progress. The buffer in hand is what `Take` gave
it. QUERYCAP, the mapping and the files it writes change nothing of the buffers and
are left out; `bytesused`, which the driver never sets, is part of that.

VIDIOC_S_FMT (`simple_capture.c:70`) is not: `camera_v4l2.c:127` copies the format
through `video_drvdata`, which nobody sets. On the driver as it is (`DrvdataSet`
false) the kernel kills the client in that call, and it never asks for a buffer;
`FormatKills` proves it. All that is checked of the rest of the program is
therefore checked with `DrvdataSet` true, of the same client on a driver in which
this one call works. Nothing else is changed, and the defect `client_stop` shows
is one of `camera_vb2.c`, for any client.

### CameraProbe

`camera_main.c` does not compile as it stands. It is read so:

* `camera_init` and `camera_exit` as they are written out, not the second pair
  that `module_platform_driver` makes; `camera_pdev` is a static variable;
* `&cam->queue` for the missing member in the call of `camera_queue_init`;
* what the compiler would only warn of is kept: `vdev` is used without having
  been assigned, so writing through it crashes the kernel or goes unnoticed;
* `cam->lock` is never initialised and drvdata never set. A mutex of zeroes works
  without contention; to wait for it is a crash. VIDIOC_S_FMT follows the NULL.

`crashed` says why the kernel stopped, so that the properties can tell what the
order of the probe prevents from what it does not. A probe's resources carry its
number, because without a remove they survive it: only what devm calls acquired
(the structure and the queue in it) is released. Video devices stay
registered and may be opened; those whose module has left are `stale`.

## 3. Runs

Bounds are constants and appear in guards; nothing else limits the state space.

| run | cfg | instance | shows |
|---|---|---|---|
| stream_concurrent | UnicamConcurrent | 2 controllers, weak order, table of 2, 3 frames | `TypeOK`, `NoPhantomFrames`, `CountDriftBounded`, `WindowBeforeCore` survive the missing lock |
| stream_serial | UnicamSerial | 1 controller, 1 reader, weak order, table of 2, 2 frames, fairness | `FlagTellsHardware`, `ReadFits`, refinement of `CaptureLedger`, `CallsReturn`, `PendingFrameEndServed` |
| stream_stop_race | UnicamStopRace | 2 controllers | *violated*: the flag is down and the core on |
| lifecycle | Lifecycle | 2 users, one of whom streams, 3 probes, 2 faults each, fairness | `TypeOK`, `NothingLeaks`, `CdevBacked`, `HandlerOnLiveDevice`, `CoreOnBuffer`, `FilesOnLiveDevice`, `MappingOnBuffer`, `FaultlessProbeBinds`, `TeardownEnds` |
| lifecycle_twice | LifecycleTwice | the top variant, no faults | *violated*: the probe unwinds by itself |
| buffers_up | BuffersUp | 2 buffers, 2 threads, 3 frames, a core that releases the lock, fairness | `TypeOK`, `DeliveredInOrder`, `CleanStop`, `FreedUnlisted`, `SequenceRises`, `DequeueServed`, refinement of `CaptureQueue` |
| buffers_lock | BuffersLock | 1 buffer, 2 threads, a core that leaves the lock to the driver, fairness | *violated*: a DQBUF waits with the lock that QBUF needs |
| buffers_smp | BuffersSmp | multiprocessor | *violated*: the handler spins on its own lock |
| client | Client | 3 buffers, 5 frames, a format call that works, fairness | `ClientTypeOK`, `BuffersRotate`, `InHandIsFree`, `FrameServed` |
| client_stop | ClientStop | the same | *violated*: the stop of the client's own loop crashes or leaves buffers behind |
| camera_module | CameraModule | 2 users, 4 probes, 2 faults between two of them | `TypeOK`, `FailedProbeReleases`, `OneInstance`, `FilesOnLiveCam`, `UsableOnceBound` |
| camera_reload | CameraReload | 1 user, 2 probes, no faults | *violated*: unloading leaves the client, the v4l2 device and the node |

*Why the bounds suffice.* Two controllers give every pairwise interleaving of
two ioctls, and the theorems cover any number. Two frames are what the
acknowledgement race needs (one in the handler, one in the register), and the
drift bound of two is attained with them; a third lets a counter that a restart
failed to reset run past that bound. A table of two entries has a middle and an
end. Three probes let a clean one follow a failed one and a removed one; two
faults per probe include a fault during a probe that goes on after an unnoticed
one; two users let one hold a file or a mapping while the other streams and
closes, and let one file be opened before a failing call and one after it. The lifecycle has one streaming thread, because `stream_stop_race` shows
what two of them do to `CoreOnBuffer`. With two buffers the list's head and tail
differ, and one may be ready or requeued while the other is with the driver;
three frames give a delivery after the two that the session's start may
disturb, and the frame bound restarts with each session. The client's three
buffers and five frames make it go round and use every buffer but one twice;
the bound of nine frames is above what it can consume. Four probes of the V4L2
driver allow a binding, an unbinding, a failed probe and another; two
users are what contention for `cam->lock` takes.

`CHECK_DEADLOCK FALSE` is used where the modelled system really stops: after
`MaxProbes` probes, after a crash, in a deadlock of the queue's lock, after the
client's end. All models of the
stream are checked for deadlock.

*Violations* are disagreements between what a comment, a log line or the
repository's README says and what the code does; `PROJECT.json` quotes the line
for each. Three more faults are in the models without a run of their own: a
STOP_STREAM whose I2C write fails clears the flag while the sensor streams on
(`StopSensor`), a probe binds without the node it announces when
`device_create` fails (`Noticed`), and the reasons for a crash that
`UsableOnceBound` excepts.

### Fairness

* `UnicamStream`: a thread inside a system call is scheduled until it returns
  (no handler waits for anything but bounded sleeps and transfers that
  succeed or fail), a pending enabled interrupt is delivered, and a handler that
  was entered finishes. Nothing is assumed of frames or of user calls.
* `UnicamLifecycle`: a probe or a teardown that has begun goes on, a handler
  returns. Nothing is assumed of users or of the shared line.
* `CameraBuffers`: a call goes on; the mutex is handed to a waiter at last
  (strong fairness on `Wake`: kernel mutexes hand over to the first waiter);
  frames keep coming while the stream is on. The bound on frames is an
  exception in the property, not a constraint of the model.
* `SimpleCapture`: the program goes on while it is in user space, its calls go
  on in the kernel, frames keep coming. A client that the bound on frames keeps
  waiting (`Starved`) is excepted, and what is said of a client that waits holds of the loop, with the
  format call supposed to work.

## 4. Proofs

All are checked by TLAPS for every value of the constants: any set of threads
or users, any number of buffers, frames, probes and faults, any table length,
one processor or several, both memory orders, unless stated.

| theorem | states | argument |
|---|---|---|
| `TypeCorrect` | `[]TypeOK` of `UnicamStream` | one step per action; the ioctl steps share the frame lemma `IoctlFrame` |
| `NoPhantoms`, `DriftBounded` | `[]NoPhantomFrames`, `[]CountDriftBounded` | `CountInv`: the counts made and owed are at most the frames ended, with the shape of the handler (`IsrShape`: what it holds at each of its points). The drift is inductive only together with what is still owed (`DriftWithOwed`): when the counter is reset, at most two frames are owed |
| `ReadsFit` | `[]ReadFits`, in either memory order | `PairInv`: outside its critical section the handler has published a count and the pointer that belongs to it, or the count has been reset since (`HandlerPair`); a reader it has not overlapped has loaded from one such pair (`ReaderPair`) |
| `WindowProgrammed` | `[]WindowBeforeCore` | `WindowInv`: a thread past the window step of `unicam_hw_init` has set it, and nothing ever takes it back |
| `FlagIsRight`, `FlagDownCoreOff` | one controller: `[]FlagTellsHardware`, `[]IdleFlagMeansIdleCore` | `SerialInv`: at each point of an ioctl, which registers are written so far (`ChainAt`); inductive because no other thread writes them. With two controllers the second fails (`stream_stop_race`): the theorem says on what it depends |
| `ImplementsLedger` | one controller: `Spec => LedgerSpec` | the session is read off the controller's `op` and the flag; lemma by lemma each action is a ledger step or a stutter |
| `LifecycleTypes`, `HandlerIsSafe` | both variants: `[]TypeOK`, `[]HandlerOnLiveDevice` | `Position`, which calls and labels the driver can be at, and `DevmInv`: the interrupt is never held without the registers and the structure, which devm releases after it |
| `TeardownDescent` | both variants: a step of a teardown leaves its place alone or goes on to one nearer the end | `ToGo`, a natural number that each label, each call of remove and each devm release lowers. It is the safety part of `TeardownEnds`, which adds the fairness |
| `NoLeaks`, `CdevIsBacked`, `FilesAreLive`, `MappingsAreBacked`, `FaultlessBinds` | the other invariants of `UnicamLifecycle`, for the variant that registers once | `HeldInv`: resources have ranks in the order of their acquisition, and the position in probe, label, remove or devm determines up to which rank they are held (`Extent`, `DepthAt`). A file or mapping pins the position at or above the ranks it needs, unless its user is in `orphans`; whoever has a file when the character device is deleted becomes one |
| `TwiceNeverBinds`, `TwiceKeepsClass` | the top variant: it never binds a device, and a class once created is never destroyed | `TwiceInv`: the probe gets no further than the class of its second registration, because the first one holds the name; the label that would destroy a class is never reached |
| `TwiceStrands` | the top variant: after a first probe without a fault of its own the device is absent and its node can be opened, with `g_unicam_dev` naming the freed structure | `FirstProbe`: the second registration overwrites the fields by which the labels would find the first |
| `CoreIsBacked` | one streaming thread: `[]CoreOnBuffer` | with the same invariant; as long as no file has been open on a device that is not bound, the flag and the core agree between calls, because only one thread makes them |
| `Fifo` | `[]DeliveredInOrder` of `CameraBuffers` | `IInv`: who holds the lock (`Locks`), the queued list without repetition (`Lists`), and that while no stop is going on the done list has the head of the queued list or nothing: the handler looks at no other buffer. The driver's list plays no part |
| `StopIsClean`, `FreedOffList` | `[]CleanStop`, `FreedUnlisted` | `IsChain` says that a memory of pointers is a proper list of a sequence; adding at the tail and deleting the first keep it. Until a buffer is queued again the list is one of the buffers the driver owns (`Proper`), so each turn of the walk takes off the first of them |
| `BufferTypes` | `[]TypeOK` of `CameraBuffers`, after requeueing too | `Sound`: whatever is added twice or deleted, pointers lead to buffers, the head or the poison, and the head's own never to the poison. `AtEntry`: the walk holds the buffer it is at and, read ahead, what that buffer points at, so it stops at a poisoned entry before it would follow it |
| `LockIsTheCallers` | the lock of the queue is held by a thread exactly while that is in a call and not asleep in DQBUF | with the same invariant |
| `NumbersRise` | `SequenceRises` | `Between`: what the user was given is less than the counter, and the number of a finished buffer lies between the two |
| `ImplementsQueue` | `Spec => CaptureSpec` | `QueueInv`: the invariants above, that the flag is up exactly while the stream is started and nobody stops it (`FlagFollows`), and that a buffer which is not the user's is on the queued list and one on the done list is done or in error (`Accounted`). Action by action a step is one of `CaptureQueue` or a stutter (`Seen...`); `Walk` on a corrupt list is one too, because vb2_buffer_done refuses a buffer twice |
| `UsersBuffersLeftAlone` | no step but QBUF and REQBUFS changes the state or the number of a buffer the user has, nor puts it on a list of the core | `QueueInv`: the handler numbers the head of the queued list, which has no buffer of the user's |
| `InTurn`, `HandIsFree`, `ClientTypes` | the invariants of `SimpleCapture` | the invariant of `Fifo`, and that the queued list is the buffers in the order of their indices begun at the one whose turn it is (`Turn`, `Place`), at each place of the program (`Starting`, `Capturing`, `Ending`) |
| `ClientSeesQueue` | `ClientSpec => CaptureSpec`, `SequenceRises` | every step of the client's program is a step of `CameraBuffers` (`ClientRuns`), so its theorems are the client's |
| `FormatKills` | with drvdata not set the client asks for no buffer, queues none and captures no frame | the format call comes before the one for buffers, and it does not return |
| `CrashAtStop` | the client is killed only where drvdata is not set; the kernel crashes under it otherwise only while it is in `stop_capturing` | until then nothing follows a pointer of a list entry: REQBUFS finds an empty list, and adding uses the head's pointers only |
| `ProbeTypes`, `ProbeReleases`, `OneAtATime`, `OpenFilesLive`, `BoundIsUsable` | the properties of `CameraProbe` | `Position`: what the current probe holds at each call; `Leftover`: what earlier ones may have left (one client at the address, and a node with a queue has its client); `Pinning`: without an unbind, a structure goes only with the module |

The assumptions are those the modules name (`StreamAssumption`,
`LifecycleAssumption`, `BufferAssumption`, `NamesAreApart`, `ClientAssumption`,
`ProbeAssumption`: bounds are numbers, roles are subsets, names differ) and,
where stated, one of the two variants (`~Twice`, `Twice`), a single controlling
thread, or a driver without drvdata (`~DrvdataSet`). TLC evaluates the named ones in every run. The hypotheses are
needed: `stream_stop_race` and `lifecycle_twice` are violations without them.

Model-checked only is liveness (`CallsReturn`, `PendingFrameEndServed`,
`TeardownEnds`, `DequeueServed`, `FrameServed`): fairness and
ENABLED are out of the prover's reach. `TeardownDescent` is the part of
one of them that it can reach, `LockIsTheCallers` the part of `LockGivenBack` that
holds on every core. Every invariant, every action
property and every refinement of a passing run is a theorem. Of the top variant
of the lifecycle the invariants on resources (`NothingLeaks`, `CdevBacked`,
`FilesOnLiveDevice`) are not theorems, because they do not hold: `TwiceStrands`
says so.

## 5. Plan

Built in this order: `UnicamStream` with `CaptureLedger`, `UnicamLifecycle`,
`CameraBuffers` with `CaptureQueue`, `CameraProbe`, `SimpleCapture`, each with its
proofs. What is left:

1. `UnicamStream` with removal: the fine-grained ioctls against `unicam_remove`.
2. `DmaWindow`: the 32 bit arithmetic of IBSA0 and IBEA0, checked over small
   widths and proved for all.

## 6. Not modelled

* GET_BUFFER: it copies constants out and changes nothing the driver keeps.
* CRC errors: the handler logs them and counts the frame all the same.
* The DMA window's arithmetic (line 236): planned as above.
* Clocks that are off while the handler reads registers: `UnicamLifecycle`
  reaches such states, the repository says nothing of their effect.
* What the format ioctls answer: constants. `current_fmt` is written and never
  read; that writing it follows a NULL is in `CameraProbe` and `SimpleCapture`.
* `camera_irq_setup`, `camera_irq_cleanup` and `camera_queue_release`: called
  from nowhere. Without the first no interrupt would ever come and every DQBUF
  wait for ever; the models take the handler for requested.
* The sensor functions of `camera_main.c` and its own vb2 operations: a table
  nobody uses. `q->dev`, which is never set, so that contiguous DMA buffers have no
  device to be allocated for.
* A `q->lock` that was not initialised, in `CameraBuffers`: it is the subject of
  `CameraProbe`, whose crash it is.
* The scripts, but for the binding by hand of `test/load_device.sh` (`Bind`), and
  the Makefile: they keep no state. The device tree overlays are static data.
