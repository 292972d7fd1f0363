------------------------- MODULE CameraProbeProofs -------------------------
(***************************************************************************)
(* Proofs about CameraProbe, for any number of users, of probes and of     *)
(* failing calls.  The inductive invariant has three parts.                *)
(*                                                                         *)
(*   Position: what the probe that is going on, unwinding or bound holds,  *)
(*             by the call it makes next.                                  *)
(*   Leftover: what any probe, also an earlier one, may have left behind.  *)
(*             At most one holds the client at the sensor's address, and a *)
(*             video device with a queue has its client: that is why there *)
(*             is never a second one beside the bound one.                 *)
(*   Pinning:  without an unbind through sysfs, a structure goes only when *)
(*             the module does, and no file is open then.                  *)
(***************************************************************************)
EXTENDS CameraProbe, TLAPS

Order(k) ==
  CASE k = "cam" -> 1  [] k = "i2c" -> 2   [] k = "v4l2" -> 3   [] k = "vdev" -> 4
    [] k = "node" -> 5 [] k = "queue" -> 6 [] k = "attach" -> 7 [] k = "end" -> 8

Position ==
  /\ at = "probe" => /\ step # "end"
                     /\ \A k \in Kinds : Has(k, probes) <=> Order(k) < Order(step)
  /\ at = "undo" => /\ step \in {"v4l2", "i2c", "end"}
                    /\ ~Has("attach", probes)
                    /\ Has("v4l2", probes) => step = "v4l2"
                    /\ Has("i2c", probes) => step \in {"v4l2", "i2c"}
  /\ at = "bound" => \A k \in Kinds : Has(k, probes)
  /\ at \in {"probe", "undo"} => probes \notin bindings
  /\ at # "unbound" => probes >= 1

Leftover ==
  /\ \A n \in 1 .. probes :
       /\ Has("attach", n) => Has("i2c", n) /\ Has("node", n)
       /\ Has("i2c", n) \/ Has("v4l2", n) =>
            n \in bindings \/ (n = probes /\ at \in {"probe", "undo"})
  /\ \A m, n \in 1 .. probes : Has("i2c", m) /\ Has("i2c", n) => m = n

Pinning ==
  ~unbound =>
    /\ \A n \in 1 .. probes :
         Has("attach", n) /\ ~Has("cam", n) => n \in stale \/ module = "leaving"
    /\ \A u \in Users : file[u] # 0 /\ Has("attach", file[u]) => Has("cam", file[u])

IInv == TypeOK /\ Position /\ Leftover /\ Pinning

-----------------------------------------------------------------------------
LEMMA OrderValues ==
  /\ Order("cam") = 1 /\ Order("i2c") = 2 /\ Order("v4l2") = 3 /\ Order("vdev") = 4
  /\ Order("node") = 5 /\ Order("queue") = 6 /\ Order("attach") = 7 /\ Order("end") = 8
BY DEF Order

LEMMA CallValues ==
  /\ AfterCall("cam") = "i2c" /\ AfterCall("i2c") = "v4l2" /\ AfterCall("v4l2") = "vdev"
  /\ AfterCall("vdev") = "node" /\ AfterCall("node") = "queue"
  /\ AfterCall("queue") = "attach" /\ AfterCall("attach") = "end"
BY DEF AfterCall

LEMMA UndoValues ==
  /\ OnError("cam") = "end" /\ OnError("i2c") = "end" /\ OnError("v4l2") = "i2c"
  /\ OnError("node") = "v4l2" /\ OnError("queue") = "v4l2"
  /\ AfterUndo("v4l2") = "i2c" /\ AfterUndo("i2c") = "end"
BY DEF OnError, AfterUndo

(* Each call of the probe moves the position up by one.                    *)
LEMMA CallMovesUp ==
  ASSUME NEW k \in (Kinds \cup {"vdev"})
  PROVE  /\ AfterCall(k) \in Kinds \cup {"vdev", "end"}
         /\ Order(AfterCall(k)) = Order(k) + 1
         /\ Order(k) \in 1 .. 7
         /\ \A j \in Kinds : Order(j) = Order(k) => j = k
         /\ k # "attach" => AfterCall(k) # "end"
BY OrderValues, CallValues DEF Kinds

-----------------------------------------------------------------------------
(* The user threads leave the driver alone.                                *)
LEMMA UserStep ==
  ASSUME TypeOK, NEW u \in Users, User(u)
  PROVE  /\ UNCHANGED <<moduleVars, probeVars, unbound>>
         /\ crashed' \in {"no", "vdev", "queue", "freed", "mutex", "drvdata", "module"}
         /\ inside' \in [Users -> BOOLEAN]
         /\ file' \in [Users -> 0 .. probes]
         /\ \A v \in Users :
              \/ file'[v] \in {file[v], 0}
              \/ file'[v] \in Nodes \ stale /\ module \in {"loading", "in"}
<1>1. CASE Open(u)
  <2>1. UNCHANGED <<moduleVars, probeVars, unbound, inside>>
    BY <1>1 DEF Open
  <2>2. PICK n \in Nodes :
          IF n \in stale
          THEN Crash("module") /\ UNCHANGED file
          ELSE /\ module \in {"loading", "in"}
               /\ file' = [file EXCEPT ![u] = n]
               /\ UNCHANGED crashed
    BY <1>1 DEF Open
  <2>3. n \in 0 .. probes
    BY DEF Nodes, TypeOK
  <2> QED BY <2>1, <2>2, <2>3 DEF TypeOK, Crash
<1>2. CASE Ioctl(u)
  BY <1>2 DEF Ioctl, Crash, TypeOK
<1>3. CASE IoctlWorks(u)
  BY <1>3 DEF IoctlWorks, Returns, Crash, TypeOK
<1>4. CASE PollOrMap(u)
  BY <1>4 DEF PollOrMap, UsesQueue, Crash, TypeOK, userVars
<1>5. CASE Close(u)
  <2>1. UNCHANGED <<moduleVars, probeVars, unbound, inside>> /\ file' = [file EXCEPT ![u] = 0]
    BY <1>5 DEF Close
  <2>2. crashed' \in {"queue", "freed", crashed}
    BY <1>5 DEF Close, UsesQueue, Crash
  <2> QED BY <2>1, <2>2 DEF TypeOK
<1> QED BY <1>1, <1>2, <1>3, <1>4, <1>5 DEF User

(* So they keep the invariant: a file is opened on a device that is not    *)
(* stale, by a module that is not leaving.                                 *)
LEMMA UserKeeps ==
  ASSUME IInv, NEW u \in Users, User(u)
  PROVE  IInv'
<1>1. UNCHANGED <<module, pdev, own, stale, at, step, probes, faults, held, bindings, unbound>>
  BY UserStep DEF IInv, moduleVars, probeVars
<1>2. TypeOK'
  BY <1>1, UserStep DEF IInv, TypeOK
<1>3. Position' /\ Leftover'
  BY <1>1 DEF IInv, Position, Leftover, Has
<1>4. Pinning'
  <2> SUFFICES ASSUME ~unbound, NEW v \in Users, file'[v] # 0, Has("attach", file'[v])
               PROVE  Has("cam", file'[v])
    BY <1>1 DEF IInv, Pinning, Has
  <2>1. CASE file'[v] = file[v]
    BY <2>1 DEF IInv, Pinning
  <2>2. CASE file'[v] \in Nodes \ stale /\ module \in {"loading", "in"}
    BY <2>2 DEF IInv, Pinning, Nodes
  <2> QED BY <2>1, <2>2, UserStep DEF IInv
<1> QED BY <1>2, <1>3, <1>4 DEF IInv

-----------------------------------------------------------------------------
(* The module is loaded: nothing that a probe holds changes.               *)
LEMMA StartKeeps ==
  ASSUME IInv, StartProbe, module' = "in", pdev' = TRUE, faults' \in Nat,
         own' \in BOOLEAN, at = "unbound",
         UNCHANGED <<stale, held, bindings, userVars, crashed, unbound>>,
         module # "leaving"
  PROVE  IInv'
<1>1. probes \in Nat /\ probes' = probes + 1 /\ at' = "probe" /\ step' = "cam"
  BY DEF IInv, TypeOK, StartProbe
<1>2. \A k \in Kinds : ~Has(k, probes + 1)
  BY <1>1 DEF IInv, TypeOK, Has
<1>3. TypeOK'
  <2>1. 1 .. probes \subseteq 1 .. probes' /\ 0 .. probes \subseteq 0 .. probes'
    BY <1>1
  <2>2. held' \subseteq Kinds \X (1 .. probes')
    BY <2>1 DEF IInv, TypeOK
  <2>3. file' \in [Users -> 0 .. probes']
    BY <2>1 DEF IInv, TypeOK, userVars
  <2>4. own' => pdev'
    OBVIOUS
  <2> QED BY <1>1, <2>1, <2>2, <2>3, <2>4 DEF IInv, TypeOK, Kinds, userVars
<1>4. Position'
  <2>1. \A k \in Kinds : ~Has(k, probes)' /\ ~(Order(k) < Order("cam"))
    BY <1>1, <1>2, OrderValues DEF Has, Kinds
  <2>2. probes + 1 \notin bindings
    BY <1>1 DEF IInv, TypeOK
  <2> QED BY <1>1, <2>1, <2>2 DEF Position
<1>5. Leftover'
  <2>1. \A n \in 1 .. probes' : n = probes + 1 \/ n \in 1 .. probes
    BY <1>1
  <2>2. \A k \in Kinds : \A n \in 1 .. probes' : Has(k, n)' => Has(k, n) /\ n \in 1 .. probes
    BY <1>2, <2>1 DEF Has
  <2> QED BY <2>2 DEF IInv, Leftover, Kinds, Has
<1>6. Pinning'
  <2>1. \A n \in 1 .. probes' : n = probes + 1 \/ n \in 1 .. probes
    BY <1>1
  <2> QED BY <1>2, <2>1 DEF IInv, Pinning, Has, Kinds, userVars
<1> QED BY <1>3, <1>4, <1>5, <1>6 DEF IInv

LEMMA LoadKeeps ==
  ASSUME IInv, RegisterDevice \/ RegisterDriver \/ Bind
  PROVE  IInv'
<1>1. CASE RegisterDevice
  <2>1. /\ module = "out" /\ module' = "loading" /\ at = "unbound"
        /\ UNCHANGED <<stale, at, step, probes, held, bindings, userVars, crashed, unbound>>
        /\ pdev' \in BOOLEAN /\ own' \in BOOLEAN /\ (own' => pdev') /\ faults' \in Nat
    <3>1. /\ module = "out" /\ module' = "loading"
          /\ UNCHANGED <<stale, at, step, probes, held, bindings, userVars, crashed, unbound>>
      BY <1>1 DEF RegisterDevice
    <3>2. at = "unbound" /\ pdev \in BOOLEAN /\ faults \in Nat
      BY <3>1 DEF IInv, TypeOK
    <3>3. faults' \in Nat
      BY <1>1, <3>2 DEF RegisterDevice, Fails
    <3>4. (pdev' = TRUE /\ own' = TRUE) \/ (pdev' = pdev /\ own' = FALSE)
      BY <1>1, SMT DEF RegisterDevice, OwnOnError
    <3> QED BY <3>1, <3>2, <3>3, <3>4
  <2>2. TypeOK'
    BY <2>1 DEF IInv, TypeOK, userVars
  <2> QED BY <2>1, <2>2 DEF IInv, Position, Leftover, Pinning, Has, userVars
<1>2. CASE RegisterDriver /\ module' = "in" /\ pdev
  BY <1>2, StartKeeps DEF RegisterDriver, IInv, TypeOK
<1>3. CASE RegisterDriver /\ ~(module' = "in" /\ pdev)
  <2>1. /\ module = "loading" /\ module' \in {"in", "out"} /\ at = "unbound"
        /\ UNCHANGED <<pdev, own, at, step, probes, held, bindings, userVars, crashed, unbound>>
        /\ stale' \in {stale, Nodes} /\ faults' \in Nat
    BY <1>3 DEF RegisterDriver, Fails, IInv, TypeOK
  <2>2. TypeOK'
    BY <2>1 DEF IInv, TypeOK, userVars, Nodes
  <2>3. Position' /\ Leftover'
    BY <2>1 DEF IInv, Position, Leftover, Has
  <2>4. Pinning'
    BY <2>1 DEF IInv, Pinning, Leftover, Has, Nodes, userVars
  <2> QED BY <2>2, <2>3, <2>4 DEF IInv
<1>4. CASE Bind
  BY <1>4, StartKeeps DEF Bind, IInv, TypeOK, moduleVars
<1> QED BY <1>1, <1>2, <1>3, <1>4

-----------------------------------------------------------------------------
(* A call of the probe succeeds.                                           *)
LEMMA AcquireKeeps ==
  ASSUME IInv, Acquire \/ Attach
  PROVE  IInv'
<1>1. /\ at = "probe" /\ step \in Kinds /\ step' = AfterCall(step)
      /\ held' = held \cup {<<step, probes>>}
      /\ UNCHANGED <<moduleVars, probes, faults, userVars, crashed, unbound>>
      /\ \/ Acquire /\ step # "attach" /\ at' = "probe" /\ bindings' = bindings
         \/ Attach /\ step = "attach" /\ at' = "bound" /\ bindings' = bindings \cup {probes}
  BY DEF Acquire, Attach, Kept, IInv, TypeOK, Kinds
<1>2. probes \in Nat /\ probes >= 1
  BY <1>1 DEF IInv, Position, TypeOK
<1>3. \A k \in Kinds, n \in 1 .. probes :
        Has(k, n)' <=> Has(k, n) \/ (k = step /\ n = probes)
  BY <1>1 DEF Has
<1>4. /\ AfterCall(step) \in Kinds \cup {"vdev", "end"}
      /\ Order(step') = Order(step) + 1 /\ Order(step) \in 1 .. 7
      /\ \A j \in Kinds : Order(j) = Order(step) => j = step
      /\ step # "attach" => step' # "end"
  BY <1>1, CallMovesUp
<1>5. \A k \in Kinds : Order(k) \in 1 .. 7
  BY CallMovesUp
<1>6. TypeOK'
  <2>1. probes \in 1 .. probes
    BY <1>2
  <2>2. held' \subseteq Kinds \X (1 .. probes') /\ bindings' \subseteq 1 .. probes'
    <3>1. held \subseteq Kinds \X (1 .. probes) /\ bindings \subseteq 1 .. probes
      BY DEF IInv, TypeOK
    <3>2. <<step, probes>> \in Kinds \X (1 .. probes)
      BY <1>1, <2>1
    <3>3. probes' = probes
      BY <1>1
    <3>4. held' \subseteq Kinds \X (1 .. probes)
      BY <1>1, <3>1, <3>2
    <3>5. bindings' \subseteq 1 .. probes
      BY <1>1, <2>1, <3>1
    <3> QED BY <3>3, <3>4, <3>5
  <2>3. at' \in {"probe", "bound"} /\ (module' = "in" /\ pdev')
    BY <1>1 DEF IInv, TypeOK, moduleVars
  <2> QED BY <1>1, <1>4, <2>2, <2>3 DEF IInv, TypeOK, moduleVars, userVars
<1>7. Position'
  <2>1. \A k \in Kinds : Has(k, probes)' <=> Order(k) < Order(step')
    BY <1>1, <1>2, <1>3, <1>4, <1>5 DEF IInv, Position
  <2>2. step = "attach" => \A k \in Kinds : Has(k, probes)'
    BY <1>1, <1>5, <2>1, CallValues, OrderValues
  <2> QED BY <1>1, <1>4, <2>1, <2>2 DEF IInv, Position, Has
<1>8. Leftover'
  <2>1. step = "attach" => Has("i2c", probes) /\ Has("node", probes)
    BY <1>1, OrderValues DEF IInv, Position, Kinds
  <2>2. step = "i2c" => \A n \in 1 .. probes : ~Has("i2c", n)
    BY <1>1 DEF Acquire, Possible
  <2> QED BY <1>1, <1>3, <2>1, <2>2 DEF IInv, Leftover, Kinds
<1>9. Pinning'
  <2>1. step = "attach" => Has("cam", probes)
    BY <1>1, OrderValues DEF IInv, Position, Kinds
  <2>2. \A u \in Users : file[u] # 0 => file[u] \in 1 .. probes
    BY DEF IInv, TypeOK
  <2>3. "attach" \in Kinds /\ "cam" \in Kinds
    BY DEF Kinds
  <2> QED BY <1>1, <1>3, <2>1, <2>2, <2>3 DEF IInv, Pinning, moduleVars, userVars
<1> QED BY <1>6, <1>7, <1>8, <1>9 DEF IInv

(* A call of the probe fails, or writes through vdev.                      *)
LEMMA FailKeeps ==
  ASSUME IInv, AcquireFails \/ Describe
  PROVE  IInv'
<1>1. CASE AcquireFails
  <2>1. /\ at = "probe" /\ at' = "undo" /\ step \in {"cam", "i2c", "v4l2", "node", "queue"}
        /\ step' = OnError(step) /\ faults' \in Nat
        /\ UNCHANGED <<moduleVars, probes, held, bindings, userVars, crashed, unbound>>
    BY <1>1 DEF AcquireFails, Fails, IInv, TypeOK, Kinds
  <2>2. /\ step' \in {"v4l2", "i2c", "end"}
        /\ step \in {"cam", "i2c"} => step' = "end"
        /\ step = "v4l2" => step' = "i2c"
        /\ step \in {"node", "queue"} => step' = "v4l2"
    BY <2>1, UndoValues
  <2>3. /\ ~Has("attach", probes)
        /\ Has("v4l2", probes) => step \in {"node", "queue"}
        /\ Has("i2c", probes) => step \in {"v4l2", "node", "queue"}
    BY <2>1, OrderValues DEF IInv, Position, Kinds
  <2>4. TypeOK'
    BY <2>1, <2>2 DEF IInv, TypeOK, Kinds, moduleVars, userVars
  <2>5. Position'
    BY <2>1, <2>2, <2>3 DEF IInv, Position, Has
  <2> QED BY <2>1, <2>4, <2>5 DEF IInv, Leftover, Pinning, Has, moduleVars, userVars
<1>2. CASE Describe
  <2>1. /\ at = "probe" /\ step = "vdev" /\ step' \in {"vdev", "node"} /\ crashed' \in {"vdev", crashed}
        /\ UNCHANGED <<moduleVars, at, probes, faults, held, bindings, userVars, unbound>>
    BY <1>2, CallValues DEF Describe, Crash
  <2>2. \A k \in Kinds : Order(k) < Order("vdev") <=> Order(k) < Order("node")
    BY OrderValues DEF Kinds
  <2>3. TypeOK'
    BY <2>1 DEF IInv, TypeOK, Kinds, moduleVars, userVars
  <2>4. Position'
    BY <2>1, <2>2 DEF IInv, Position, Has
  <2> QED BY <2>1, <2>3, <2>4 DEF IInv, Leftover, Pinning, Has, moduleVars, userVars
<1> QED BY <1>1, <1>2

(* A label of the probe releases what it is for.                           *)
LEMMA UndoKeeps ==
  ASSUME IInv, Undo
  PROVE  IInv'
<1>1. /\ at = "undo" /\ at' = "undo" /\ step \in {"v4l2", "i2c"}
      /\ held' = held \ {<<step, probes>>}
      /\ UNCHANGED <<moduleVars, probes, faults, bindings, userVars, crashed, unbound>>
      /\ step' = IF step = "v4l2" THEN "i2c" ELSE "end"
  BY UndoValues DEF Undo, IInv, Position
<1>2. \A k \in Kinds, n \in Nat : Has(k, n)' <=> Has(k, n) /\ ~(k = step /\ n = probes)
  BY <1>1 DEF Has
<1>3. TypeOK'
  BY <1>1 DEF IInv, TypeOK, Kinds, moduleVars, userVars
<1>4. Position'
  BY <1>1, <1>2 DEF IInv, Position, Kinds, TypeOK
<1>5. Leftover'
  BY <1>1, <1>2 DEF IInv, Position, Leftover, Kinds, TypeOK
<1>6. Pinning'
  <2>1. \A u \in Users : file[u] \in Nat
    BY DEF IInv, TypeOK
  <2> QED BY <1>1, <1>2, <2>1 DEF IInv, Pinning, Kinds, moduleVars, userVars
<1> QED BY <1>3, <1>4, <1>5, <1>6 DEF IInv

-----------------------------------------------------------------------------
(* The device is let go: by a probe that failed, through sysfs, or with    *)
(* the module, and no file is open then.                                   *)
LEMMA LetGoKeeps ==
  ASSUME IInv, LetGo, UNCHANGED <<pdev, own, stale, userVars, crashed>>,
         at \in {"undo", "bound"}, at = "undo" => step = "end",
         \/ module' = module /\ unbound' = unbound /\ at = "undo"
         \/ module' = module /\ unbound' = TRUE
         \/ module' = "leaving" /\ unbound' = unbound /\ ~Pinned
  PROVE  IInv'
<1>1. /\ at' = "unbound" /\ held' = held \ Devm
      /\ UNCHANGED <<step, probes, faults, bindings>>
  BY DEF LetGo
<1>2. \A k \in Kinds, n \in Nat :
        Has(k, n)' <=> Has(k, n) /\ ~(k \in {"cam", "queue"} /\ n = probes)
  BY <1>1 DEF Has, Devm
<1>3. TypeOK'
  BY <1>1 DEF IInv, TypeOK, userVars
<1>4. Position'
  BY <1>1 DEF Position
<1>5. Leftover'
  <2>1. \A n \in 1 .. probes : Has("i2c", n) \/ Has("v4l2", n) => n \in bindings
    BY DEF IInv, Leftover, Position, TypeOK
  <2> QED BY <1>1, <1>2, <2>1 DEF IInv, Leftover, Kinds, TypeOK
<1>6. Pinning'
  <2>1. \A u \in Users : file[u] \in Nat
    BY DEF IInv, TypeOK
  <2>2. CASE module' = module /\ at = "undo"
    BY <1>1, <1>2, <2>1, <2>2 DEF IInv, Pinning, Position, Kinds, TypeOK, userVars
  <2>3. CASE module' = "leaving" /\ ~Pinned
    BY <2>3 DEF Pinning, Pinned, userVars
  <2>4. CASE unbound'
    BY <2>4 DEF Pinning
  <2> QED BY <2>2, <2>3, <2>4
<1> QED BY <1>3, <1>4, <1>5, <1>6 DEF IInv

LEMMA LeaveKeeps ==
  ASSUME IInv, ProbeFails \/ Unbind \/ UnregisterDriver \/ UnregisterDevice
  PROVE  IInv'
<1>1. CASE ProbeFails
  BY <1>1, LetGoKeeps DEF ProbeFails, moduleVars
<1>2. CASE Unbind
  BY <1>2, LetGoKeeps DEF Unbind, moduleVars
<1>3. CASE UnregisterDriver /\ at = "bound"
  BY <1>3, LetGoKeeps DEF UnregisterDriver
<1>4. CASE UnregisterDriver /\ at # "bound"
  <2>1. /\ module' = "leaving" /\ at = "unbound"
        /\ UNCHANGED <<probeVars, pdev, own, stale, userVars, crashed, unbound>>
    BY <1>4 DEF UnregisterDriver
  <2> QED BY <2>1 DEF IInv, TypeOK, Position, Leftover, Pinning, Has, probeVars, userVars
<1>5. CASE UnregisterDevice
  <2>1. /\ module' = "out" /\ pdev' \in BOOLEAN /\ own' = FALSE /\ stale' = Nodes
        /\ UNCHANGED <<probeVars, userVars, crashed, unbound>> /\ at = "unbound"
    BY <1>5 DEF UnregisterDevice, IInv, TypeOK
  <2>2. TypeOK'
    BY <2>1 DEF IInv, TypeOK, Nodes, probeVars, userVars
  <2>3. Position' /\ Leftover'
    BY <2>1 DEF IInv, Position, Leftover, Has, probeVars
  <2>4. Pinning'
    BY <2>1 DEF IInv, Pinning, Leftover, Has, Nodes, probeVars, userVars
  <2> QED BY <2>2, <2>3, <2>4 DEF IInv
<1> QED BY <1>1, <1>2, <1>3, <1>4, <1>5

-----------------------------------------------------------------------------
LEMMA InvariantKept ==
  ASSUME IInv, [Next]_vars
  PROVE  IInv'
<1>1. CASE Driver
  BY <1>1, LoadKeeps, AcquireKeeps, FailKeeps, UndoKeeps, LeaveKeeps DEF Driver
<1>2. CASE \E u \in Users : User(u)
  BY <1>2, UserKeeps
<1>3. CASE UNCHANGED vars
  BY <1>3 DEF vars, moduleVars, probeVars, userVars, IInv, TypeOK, Position, Leftover,
              Pinning, Has
<1> QED BY <1>1, <1>2, <1>3 DEF Next

LEMMA InvariantHolds == Spec => []IInv
<1>1. Init => IInv
  <2> SUFFICES ASSUME Init PROVE IInv
    OBVIOUS
  <2>1. TypeOK
    <3>1. file \in [Users -> 0 .. probes] /\ inside \in [Users -> BOOLEAN]
      BY DEF Init
    <3>2. held \subseteq Kinds \X (1 .. probes) /\ stale \subseteq 1 .. probes
      BY DEF Init
    <3>3. bindings \subseteq 1 .. probes /\ probes \in Nat /\ faults \in Nat
      BY DEF Init
    <3> QED BY <3>1, <3>2, <3>3 DEF Init, TypeOK
  <2>2. Position /\ Leftover
    BY DEF Init, Position, Leftover
  <2>3. Pinning
    BY DEF Init, Pinning, Has
  <2> QED BY <2>1, <2>2, <2>3 DEF IInv
<1>2. IInv /\ [Next]_vars => IInv'
  BY InvariantKept
<1> QED BY <1>1, <1>2, PTL DEF Spec

(* The types, with the position of the device in the life of the module.   *)
THEOREM ProbeTypes == Spec => []TypeOK
<1>1. IInv => TypeOK
  BY DEF IInv
<1> QED BY <1>1, InvariantHolds, PTL

(* Whatever fails in a probe, the labels at camera_main.c:213 to 217 give  *)
(* back the client at the sensor's address and the v4l2 device.            *)
THEOREM ProbeReleases == Spec => []FailedProbeReleases
<1>1. IInv => FailedProbeReleases
  BY DEF IInv, Leftover, FailedProbeReleases
<1> QED BY <1>1, InvariantHolds, PTL

(* However often the driver is bound and let go without a remove function, *)
(* there is one video device with a queue while it is bound.               *)
THEOREM OneAtATime == Spec => []OneInstance
<1>1. ASSUME IInv, at = "bound"
      PROVE  {n \in 1 .. probes : Has("attach", n)} = {probes}
  <2>1. Has("attach", probes) /\ Has("i2c", probes)
    BY <1>1 DEF IInv, Position, Kinds
  <2>2. probes \in 1 .. probes
    BY <1>1, <2>1 DEF IInv, TypeOK, Has
  <2>3. \A n \in 1 .. probes : Has("attach", n) => n = probes
    BY <1>1, <2>1, <2>2 DEF IInv, Leftover
  <2> QED BY <2>1, <2>2, <2>3
<1>2. IInv => OneInstance
  BY <1>1 DEF OneInstance
<1> QED BY <1>2, InvariantHolds, PTL

(* .owner of the file operations (camera_main.c:28) is enough to keep the  *)
(* structure of every open file, until somebody unbinds through sysfs.     *)
THEOREM OpenFilesLive == Spec => []FilesOnLiveCam
<1>1. IInv => FilesOnLiveCam
  BY DEF IInv, Pinning, FilesOnLiveCam
<1> QED BY <1>1, InvariantHolds, PTL

(* A video device whose probe has bound has its queue and its structure,   *)
(* however early its file was opened.                                      *)
THEOREM BoundIsUsable == Spec => UsableOnceBound
<1>1. ASSUME IInv, NEW u \in Users, User(u), at = "bound", file[u] = probes
      PROVE  crashed' \notin {"queue", "freed", "module"}
  <2>1. Has("cam", file[u]) /\ Has("attach", file[u]) /\ file[u] # 0
    BY <1>1 DEF IInv, Position, Kinds, TypeOK
  <2>2. CASE Open(u)
    BY <2>1, <2>2 DEF Open
  <2>3. CASE Ioctl(u)
    BY <2>1, <2>3 DEF Ioctl, Crash, Running
  <2>4. CASE IoctlWorks(u)
    BY <2>1, <2>4 DEF IoctlWorks, Returns, Crash, Running
  <2>5. CASE PollOrMap(u)
    BY <2>1, <2>5 DEF PollOrMap, UsesQueue, Crash, Running
  <2>6. CASE Close(u)
    BY <2>1, <2>6 DEF Close, UsesQueue, Crash, Running
  <2> QED BY <1>1, <2>2, <2>3, <2>4, <2>5, <2>6 DEF User
<1>2. IInv /\ [Next]_vars =>
        [\A u \in Users : User(u) /\ at = "bound" /\ file[u] = probes
           => crashed' \notin {"queue", "freed", "module"}]_vars
  BY <1>1
<1> QED BY <1>2, InvariantHolds, PTL DEF Spec, UsableOnceBound
=============================================================================
