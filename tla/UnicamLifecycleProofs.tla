----------------------- MODULE UnicamLifecycleProofs -----------------------
(***************************************************************************)
(* Proofs about UnicamLifecycle, for any number of users, faults and       *)
(* probes.                                                                 *)
(*                                                                         *)
(* Of the driver that registers its character device once                  *)
(* (src/src/manual-unicam-driver.c) none of the properties is inductive.   *)
(* What is, is that the position in unicam_probe, a label, unicam_remove   *)
(* or the devm release determines what is held: always the resources up to *)
(* some rank in the order of acquisition (Extent).  Everything else        *)
(* follows from the rank.                                                  *)
(*                                                                         *)
(* Of both drivers hold Position and DevmInv, from which types, the safety *)
(* of the handler and the descent of a teardown follow.  The last part     *)
(* proves of the driver that registers twice what becomes of its probes.   *)
(***************************************************************************)
EXTENDS UnicamLifecycle, TLAPS

Rank(k) ==
  CASE k = "mem" -> 1      [] k = "regs" -> 2     [] k = "irq" -> 3
    [] k = "clk_lp" -> 4   [] k = "clk_vpu" -> 5  [] k = "dma" -> 6
    [] k = "i2c" -> 7      [] k = "region" -> 8   [] k = "cdev" -> 9
    [] k = "class" -> 10   [] k = "node" -> 11    [] k = "end" -> 12
    [] k = "device" -> 3

Holding(k) == <<k, 1>> \in held

(* Exactly the resources of rank up to n are held, but the node, whose     *)
(* creation may fail unnoticed, need not be.                               *)
Extent(n) ==
  \A k \in Kinds : /\ Holding(k) => Rank(k) <= n
                   /\ Rank(k) <= n /\ k # "node" => Holding(k)

(* How far a position lets the held resources reach.                       *)
DepthAt(n) ==
  /\ at = "absent" => n = 0
  /\ at = "probe" => n = Rank(step) - 1
  /\ at = "bound" => n = 11
  /\ at = "remove" => n = IF step = "end" THEN 3 ELSE Rank(step)
  /\ at = "undo" => IF step = "end" THEN n <= 3 ELSE n = Rank(step)
  /\ at = "devm" => IF step = "end" THEN n = 0 ELSE n <= Rank(step)

StepAt ==
  /\ at \in {"absent", "bound"} => step = "end"
  /\ at = "probe" => step \in Kinds \cup {"end"}
  /\ at = "undo" => step \in Platform \cup {"region", "cdev", "end"}
  /\ at = "remove" => step \in Platform \cup Registration \cup {"device", "end"}
  /\ at = "devm" => step \in Devm \cup {"end"}

HeldInv ==
  /\ StepAt
  /\ nth = 1
  /\ held \subseteq Kinds \X {1}
  /\ \A k \in Registration : Holding(k) => field[k] = 1
  /\ \E n \in 0 .. 11 : Extent(n) /\ DepthAt(n)

(* A probe announces success with a node unless a call of it has failed,   *)
(* and unwinds only after one.                                             *)
FaultInv ==
  /\ at = "undo" => faults > 0
  /\ (at = "bound" \/ (at = "probe" /\ step = "end")) /\ faults = 0 => Holding("node")

Usable == at = "bound" \/ (at = "probe" /\ step = "end")

(* As long as there is a character device, the structure of the running    *)
(* probe is the one that is published.                                     *)
DeviceInv == (at = "probe" /\ step # "mem") \/ Holding("cdev") => device = probes

FileInv ==
  /\ leaving => at \in {"remove", "devm", "absent"}
  /\ leaving /\ at = "remove" => ~Pinned
  /\ \A u \in Users \ orphans : file[u] # "closed" => Holding("cdev")
  /\ \A u \in Users \ orphans : file[u] \in InCall => priv[u] = probes
  /\ \A u \in Users : mapped[u] => file[u] \in InCall \cup {"mapping"}

(* With one thread in control of the stream, the core is on while the      *)
(* stream is, but for a start that is going on.                            *)
Alone == \A u, v \in Streamers : u = v

CoreInv ==
  /\ \A u \in Users : file[u] \in {"starting", "stopping"} => u \in Streamers
  /\ \A u \in Users : ~exposed /\ file[u] # "closed" => at = "bound"
  /\ \A u \in Users : ~exposed /\ file[u] = "stopping" => ~core
  /\ ~exposed /\ core => at = "bound"
  /\ ~exposed /\ core => streaming \/ \E u \in Streamers : file[u] = "starting"

-----------------------------------------------------------------------------
(* The order of acquisition.                                               *)

LEMMA RankValues ==
  /\ Rank("mem") = 1 /\ Rank("regs") = 2 /\ Rank("irq") = 3
  /\ Rank("clk_lp") = 4 /\ Rank("clk_vpu") = 5 /\ Rank("dma") = 6 /\ Rank("i2c") = 7
  /\ Rank("region") = 8 /\ Rank("cdev") = 9 /\ Rank("class") = 10 /\ Rank("node") = 11
  /\ Rank("end") = 12 /\ Rank("device") = 3
<1>1. /\ Rank("mem") = 1 /\ Rank("regs") = 2 /\ Rank("irq") = 3
      /\ Rank("clk_lp") = 4 /\ Rank("clk_vpu") = 5 /\ Rank("dma") = 6
  BY DEF Rank
<1>2. /\ Rank("i2c") = 7 /\ Rank("region") = 8 /\ Rank("cdev") = 9
      /\ Rank("class") = 10 /\ Rank("node") = 11 /\ Rank("end") = 12 /\ Rank("device") = 3
  BY DEF Rank
<1> QED BY <1>1, <1>2

LEMMA RankFacts ==
  /\ \A k \in Kinds : Rank(k) \in 1 .. 11
  /\ \A j, k \in Kinds : Rank(j) = Rank(k) => j = k
  /\ \A k \in Devm : Rank(k) <= 3
  /\ \A k \in Kinds \ Devm : Rank(k) > 3
  /\ \A k \in Kinds \ {"node"} : Rank(k) < 11
BY RankValues DEF Kinds, Devm, Platform, Registration

(* Each walk goes up or down by one rank.                                  *)
LEMMA CallValues ==
  /\ AfterCall("mem") = "regs" /\ AfterCall("regs") = "irq" /\ AfterCall("irq") = "clk_lp"
  /\ AfterCall("clk_lp") = "clk_vpu" /\ AfterCall("clk_vpu") = "dma"
  /\ AfterCall("dma") = "i2c" /\ AfterCall("i2c") = "region"
  /\ AfterCall("region") = "cdev" /\ AfterCall("cdev") = "class"
  /\ AfterCall("class") = "node" /\ AfterCall("node") = "end"
BY DEF AfterCall

LEMMA CallOrder ==
  ASSUME NEW k \in Kinds
  PROVE  AfterCall(k) \in Kinds \cup {"end"} /\ Rank(AfterCall(k)) = Rank(k) + 1
BY CallValues, RankValues DEF Kinds, Devm, Platform, Registration

LEMMA ErrorOrder ==
  ASSUME NEW k \in Kinds \ {"node"}
  PROVE  \/ OnError(k, 1) = "end" /\ Rank(k) <= 5
         \/ /\ OnError(k, 1) \in Platform \cup {"region", "cdev"}
            /\ Rank(OnError(k, 1)) = Rank(k) - 1
<1>1. /\ OnError("mem", 1) = "end" /\ OnError("regs", 1) = "end"
      /\ OnError("irq", 1) = "end" /\ OnError("clk_lp", 1) = "end"
      /\ OnError("clk_vpu", 1) = "end" /\ OnError("dma", 1) = "clk_vpu"
      /\ OnError("i2c", 1) = "dma" /\ OnError("region", 1) = "i2c"
      /\ OnError("cdev", 1) = "region" /\ OnError("class", 1) = "cdev"
  BY DEF OnError, Devm
<1> QED BY <1>1, RankValues DEF Kinds, Devm, Platform, Registration

LEMMA UndoOrder ==
  ASSUME ~Twice, NEW k \in Platform \cup {"region", "cdev"}
  PROVE  \/ AfterUndo(k) = "end" /\ k = "clk_lp"
         \/ /\ AfterUndo(k) \in Platform \cup {"region", "cdev"}
            /\ Rank(AfterUndo(k)) = Rank(k) - 1
<1>1. /\ AfterUndo("cdev") = "region" /\ AfterUndo("region") = "i2c"
      /\ AfterUndo("i2c") = "dma" /\ AfterUndo("dma") = "clk_vpu"
      /\ AfterUndo("clk_vpu") = "clk_lp" /\ AfterUndo("clk_lp") = "end"
  BY DEF AfterUndo, LastLabel
<1> QED BY <1>1, RankValues DEF Platform

LEMMA RemoveOrder ==
  ASSUME NEW k \in Platform \cup Registration
  PROVE  /\ AfterRemove(k) \in Platform \cup Registration \cup {"device"}
         /\ Rank(AfterRemove(k)) = Rank(k) - 1
<1>1. /\ AfterRemove("node") = "class" /\ AfterRemove("class") = "cdev"
      /\ AfterRemove("cdev") = "region" /\ AfterRemove("region") = "i2c"
      /\ AfterRemove("i2c") = "dma" /\ AfterRemove("dma") = "clk_vpu"
      /\ AfterRemove("clk_vpu") = "clk_lp" /\ AfterRemove("clk_lp") = "device"
  BY DEF AfterRemove
<1> QED BY <1>1, RankValues DEF Platform, Registration

LEMMA DevmValues ==
  AfterDevm("irq") = "regs" /\ AfterDevm("regs") = "mem" /\ AfterDevm("mem") = "end"
BY DEF AfterDevm

LEMMA DevmOrder ==
  ASSUME NEW k \in Devm
  PROVE  \/ AfterDevm(k) = "end" /\ k = "mem"
         \/ AfterDevm(k) \in Devm /\ Rank(AfterDevm(k)) = Rank(k) - 1
BY DevmValues, RankValues DEF Devm

-----------------------------------------------------------------------------
(* Acquiring the next resource raises the extent by one, releasing the     *)
(* last lowers it.                                                         *)

LEMMA ExtentRaised ==
  ASSUME NEW n \in 0 .. 10, Extent(n), NEW k \in Kinds, Rank(k) = n + 1,
         held' = held \cup {<<k, 1>>}
  PROVE  Extent(n + 1)'
<1> SUFFICES ASSUME NEW j \in Kinds
             PROVE  /\ Holding(j)' => Rank(j) <= n + 1
                    /\ Rank(j) <= n + 1 /\ j # "node" => Holding(j)'
  BY DEF Extent
<1>1. Holding(j)' <=> Holding(j) \/ j = k
  BY DEF Holding
<1>2. Rank(j) <= n + 1 <=> Rank(j) <= n \/ j = k
  BY RankFacts
<1>3. (Holding(j) => Rank(j) <= n) /\ (Rank(j) <= n /\ j # "node" => Holding(j))
  BY DEF Extent
<1> QED BY <1>1, <1>2, <1>3

LEMMA ExtentLowered ==
  ASSUME NEW n \in 0 .. 11, Extent(n), NEW k \in Kinds, Rank(k) = n,
         held' = held \ {<<k, 1>>}
  PROVE  Extent(n - 1)'
<1> SUFFICES ASSUME NEW j \in Kinds
             PROVE  /\ Holding(j)' => Rank(j) <= n - 1
                    /\ Rank(j) <= n - 1 /\ j # "node" => Holding(j)'
  BY DEF Extent
<1>1. Holding(j)' <=> Holding(j) /\ j # k
  BY DEF Holding
<1>2. Rank(j) <= n - 1 <=> Rank(j) <= n /\ j # k
  BY RankFacts
<1>3. (Holding(j) => Rank(j) <= n) /\ (Rank(j) <= n /\ j # "node" => Holding(j))
  BY DEF Extent
<1> QED BY <1>1, <1>2, <1>3

(* A release of what is not held changes nothing.                          *)
LEMMA ExtentKept ==
  ASSUME NEW n \in 0 .. 11, Extent(n), NEW k \in Kinds, Rank(k) > n,
         held' = held \ {<<k, 1>>}
  PROVE  Extent(n)'
<1>1. \A j \in Kinds : Holding(j)' <=> Holding(j) /\ j # k
  BY DEF Holding
<1>2. ~Holding(k)
  BY RankFacts DEF Extent
<1> QED BY <1>1, <1>2 DEF Extent

-----------------------------------------------------------------------------
(* Interrupts and users leave the driver's position alone.                 *)

LEMMA BesideDriver ==
  ASSUME IsrEnter \/ IsrReturn \/ \E u \in Users : User(u)
  PROVE  UNCHANGED driverVars
<1>1. CASE IsrEnter \/ IsrReturn
  BY <1>1 DEF IsrEnter, IsrReturn
<1>2. ASSUME NEW u \in Users, User(u) PROVE UNCHANGED driverVars
  BY <1>2 DEF User, Open, OpenReturns, Close, Map, Unmap, StartHardware, StartReturns,
              StopHardware, StopReturns
<1> QED BY <1>1, <1>2

LEMMA HeldInit == Init => HeldInv
<1> SUFFICES ASSUME Init PROVE HeldInv
  OBVIOUS
<1>1. Extent(0)
  BY RankFacts DEF Extent, Holding, Init
<1>2. DepthAt(0) /\ StepAt
  BY DEF DepthAt, StepAt, Init
<1> QED BY <1>1, <1>2 DEF HeldInv, Init, Holding

(* What a registration writes to the structure is its number, 1.           *)
LEMMA FieldKept ==
  ASSUME HeldInv, TypeOK, NEW succeeded \in BOOLEAN, NEW k \in Registration, field[k] = 1
  PROVE  Written(succeeded)[k] = 1
BY DEF HeldInv, TypeOK, Written

LEMMA HeldProbe ==
  ASSUME HeldInv, Probe
  PROVE  HeldInv'
<1>1. PICK n \in 0 .. 11 : Extent(n) /\ DepthAt(n)
  BY DEF HeldInv
<1>2. n = 0
  BY <1>1 DEF DepthAt, Probe
<1>3. \A k \in Kinds : ~Holding(k)
  BY <1>1, <1>2, RankFacts DEF Extent
<1>4. held = {}
  BY <1>3 DEF HeldInv, Holding
<1>5. held' = {}
  BY <1>4 DEF Probe
<1>6. at' = "probe" /\ step' = "mem" /\ nth' = 1
  BY DEF Probe
<1>7. Extent(0)'
  BY <1>5, RankFacts DEF Extent, Holding
<1>8. DepthAt(0)' /\ StepAt'
  BY <1>6, RankValues DEF DepthAt, StepAt, Kinds, Devm
<1> QED BY <1>5, <1>6, <1>7, <1>8 DEF HeldInv, Holding

LEMMA HeldAcquire ==
  ASSUME ~Twice, TypeOK, HeldInv, Acquire
  PROVE  HeldInv'
<1>1. PICK n \in 0 .. 11 : Extent(n) /\ DepthAt(n)
  BY DEF HeldInv
<1>2. step \in Kinds /\ nth = 1
  BY DEF HeldInv, StepAt, Acquire
<1>3. n = Rank(step) - 1 /\ n \in 0 .. 10
  BY <1>1, <1>2, RankFacts DEF DepthAt, Acquire
<1>4. /\ held' = held \cup {<<step, 1>>}
      /\ at' = "probe" /\ step' = AfterCall(step) /\ nth' = 1
  BY <1>2 DEF Acquire, Call, GoOn, Again
<1>5. Extent(n + 1)'
  BY <1>1, <1>2, <1>3, <1>4, ExtentRaised
<1>6. StepAt' /\ DepthAt(n + 1)'
  BY <1>2, <1>3, <1>4, CallOrder DEF StepAt, DepthAt
<1>7. ASSUME NEW k \in Registration, Holding(k)' PROVE field'[k] = 1
  <2>1. field' = Written(TRUE)
    BY DEF Acquire
  <2>2. CASE k = step
    BY <1>2, <2>1, <2>2 DEF Written, TypeOK, Registration
  <2>3. CASE k # step
    <3>1. Holding(k)
      BY <1>4, <1>7, <2>3 DEF Holding
    <3> QED BY <2>1, <3>1, FieldKept DEF HeldInv
  <2> QED BY <2>2, <2>3
<1>8. held' \subseteq Kinds \X {1}
  BY <1>2, <1>4 DEF HeldInv
<1> QED BY <1>3, <1>4, <1>5, <1>6, <1>7, <1>8 DEF HeldInv

LEMMA HeldAcquireFails ==
  ASSUME ~Twice, TypeOK, HeldInv, AcquireFails
  PROVE  HeldInv'
<1>1. PICK n \in 0 .. 11 : Extent(n) /\ DepthAt(n)
  BY DEF HeldInv
<1>2. step \in Kinds /\ nth = 1 /\ held' \subseteq held
  BY DEF HeldInv, StepAt, AcquireFails
<1>3. n = Rank(step) - 1
  BY <1>1, <1>2 DEF DepthAt, AcquireFails
<1>4. ASSUME step # "clk_vpu", NEW m, Extent(m) PROVE Extent(m)'
  BY <1>4 DEF AcquireFails, Extent, Holding
<1>5. /\ held' \subseteq Kinds \X {1}
      /\ \A k \in Registration : Holding(k)' => field'[k] = 1
  <2>1. field' = Written(FALSE)
    BY DEF AcquireFails
  <2> QED BY <1>2, <2>1, FieldKept DEF HeldInv, Holding
<1>6. CASE step # "node"
  <2>1. at' = "undo" /\ step' = OnError(step, 1) /\ nth' = 1
    BY <1>2, <1>6 DEF AcquireFails, Noticed, Call
  <2>2. CASE step = "clk_vpu"
    <3>1. held' = held \ {<<"clk_lp", 1>>} /\ n = 4 /\ step' = "end"
      BY <1>2, <1>3, <2>1, <2>2, RankValues DEF AcquireFails, OnError, Devm
    <3>2. Extent(n - 1)'
      BY <1>1, <3>1, ExtentLowered, RankValues DEF Kinds, Platform
    <3>3. StepAt' /\ DepthAt(3)'
      BY <2>1, <3>1 DEF StepAt, DepthAt
    <3> QED BY <1>5, <2>1, <3>1, <3>2, <3>3 DEF HeldInv
  <2>3. CASE step # "clk_vpu"
    <3>1. \/ step' = "end" /\ n <= 3
          \/ step' \in Platform \cup {"region", "cdev"} /\ n = Rank(step')
      <4>1. Rank(step) <= 5 => n <= 3
        BY <1>2, <1>3, <2>3, RankFacts, RankValues DEF Kinds, Platform
      <4> QED BY <1>2, <1>3, <1>6, <2>1, <4>1, ErrorOrder
    <3>2. StepAt' /\ DepthAt(n)'
      BY <2>1, <3>1 DEF StepAt, DepthAt, Platform
    <3> QED BY <1>1, <1>2, <1>4, <1>5, <2>1, <2>3, <3>2 DEF HeldInv
  <2> QED BY <2>2, <2>3
<1>7. CASE step = "node"
  <2>1. at' = "probe" /\ step' = AfterCall(step) /\ nth' = 1
    BY <1>2, <1>7 DEF AcquireFails, Noticed, Call, GoOn, Again
  <2>2. step' = "end" /\ n = 10
    BY <1>3, <1>7, <2>1, RankValues DEF AfterCall
  <2>3. Extent(11)
    BY <1>1, <2>2, RankFacts DEF Extent
  <2>4. StepAt' /\ DepthAt(11)'
    BY <2>1, <2>2, RankValues DEF StepAt, DepthAt
  <2> QED BY <1>4, <1>5, <1>7, <2>1, <2>3, <2>4 DEF HeldInv
<1> QED BY <1>6, <1>7

(* Releasing while an error is unwound, or the device removed.             *)
LEMMA HeldRelease ==
  ASSUME ~Twice, TypeOK, HeldInv, Release
  PROVE  HeldInv'
<1>1. PICK n \in 0 .. 11 : Extent(n) /\ DepthAt(n)
  BY DEF HeldInv
<1>2. /\ nth' = 1 /\ field' = field /\ at' = at
      /\ step # "end" /\ at \in {"undo", "remove", "devm"}
      /\ held' = held \ {Named(step)}
  BY DEF HeldInv, Release
<1>3. step \in Kinds \cup {"device"}
  BY <1>2 DEF HeldInv, StepAt, Kinds, Registration
<1>4. held' = held \ {<<step, 1>>}
  <2>1. step # "region_again"
    BY <1>3 DEF Kinds, Devm, Platform, Registration
  <2>2. CASE step \in Registration
    <3>1. Named(step) = <<step, field[step]>>
      BY <2>1, <2>2 DEF Named
    <3>2. CASE field[step] = 1
      BY <1>2, <3>1, <3>2
    <3>3. CASE field[step] # 1
      <4>1. <<step, field[step]>> \notin held /\ <<step, 1>> \notin held
        BY <2>2, <3>3 DEF HeldInv, Holding
      <4> QED BY <1>2, <3>1, <4>1
    <3> QED BY <3>2, <3>3
  <2>3. CASE step \notin Registration
    BY <1>2, <2>1, <2>3 DEF Named
  <2> QED BY <2>2, <2>3
<1>5. held' \subseteq Kinds \X {1} /\ \A k \in Registration : Holding(k)' => field'[k] = 1
  BY <1>2 DEF HeldInv, Holding
<1> SUFFICES StepAt' /\ \E m \in 0 .. 11 : Extent(m)' /\ DepthAt(m)'
  BY <1>2, <1>5 DEF HeldInv
<1>6. CASE at = "undo"
  <2>1. step \in Platform \cup {"region", "cdev"} /\ step' = AfterUndo(step)
    BY <1>2, <1>6 DEF HeldInv, StepAt, Release
  <2>2. step \in Kinds /\ n = Rank(step)
    BY <1>1, <1>2, <1>6, <2>1 DEF DepthAt, Kinds, Registration
  <2>3. Extent(n - 1)'
    BY <1>1, <1>2, <1>4, <2>2, ExtentLowered
  <2>4. StepAt' /\ DepthAt(n - 1)' /\ n - 1 \in 0 .. 11
    BY <1>2, <1>6, <2>1, <2>2, UndoOrder, RankFacts, RankValues DEF StepAt, DepthAt, Platform
  <2> QED BY <2>3, <2>4
<1>7. CASE at = "remove" /\ step # "device"
  <2>1. step \in Platform \cup Registration /\ step' = AfterRemove(step)
    BY <1>2, <1>7 DEF HeldInv, StepAt, Release
  <2>2. step \in Kinds /\ n = Rank(step)
    BY <1>1, <1>2, <1>7, <2>1 DEF DepthAt, Kinds
  <2>3. Extent(n - 1)'
    BY <1>1, <1>2, <1>4, <2>2, ExtentLowered
  <2>4. step' \in Platform \cup Registration \cup {"device"} /\ Rank(step') = n - 1
    BY <2>1, <2>2, RemoveOrder
  <2>5. StepAt' /\ DepthAt(n - 1)' /\ n - 1 \in 0 .. 11
    BY <1>2, <1>7, <2>2, <2>4, RankFacts DEF StepAt, DepthAt, Platform, Registration
  <2> QED BY <2>3, <2>5
<1>8. CASE at = "remove" /\ step = "device"
  <2>1. step' = "end" /\ n = 3
    BY <1>1, <1>8, RankValues DEF Release, AfterRemove, DepthAt
  <2>2. held' = held
    BY <1>2, <1>4, <1>8 DEF HeldInv, Kinds, Devm, Platform, Registration
  <2>3. Extent(n)' /\ DepthAt(n)' /\ StepAt'
    BY <1>1, <1>2, <1>8, <2>1, <2>2 DEF Extent, Holding, DepthAt, StepAt
  <2> QED BY <2>3
<1>9. CASE at = "devm"
  <2>1. step \in Devm /\ step' = AfterDevm(step)
    BY <1>2, <1>9 DEF HeldInv, StepAt, Release
  <2>2. step \in Kinds /\ n <= Rank(step) /\ Rank(step) \in 1 .. 3
    BY <1>1, <1>2, <1>9, <2>1, RankFacts DEF DepthAt, Kinds
  <2>3. \E m \in 0 .. 11 : Extent(m)' /\ m <= Rank(step) - 1
    <3>1. CASE n = Rank(step)
      BY <1>1, <1>2, <1>4, <2>2, <3>1, ExtentLowered
    <3>2. CASE n < Rank(step)
      BY <1>1, <1>2, <1>4, <2>2, <3>2, ExtentKept
    <3> QED BY <2>2, <3>1, <3>2
  <2>4. PICK m \in 0 .. 11 : Extent(m)' /\ m <= Rank(step) - 1
    BY <2>3
  <2>5. StepAt' /\ DepthAt(m)'
    BY <1>2, <1>9, <2>1, <2>2, <2>4, DevmOrder, RankValues DEF StepAt, DepthAt, Devm
  <2> QED BY <2>4, <2>5
<1> QED BY <1>2, <1>6, <1>7, <1>8, <1>9

LEMMA HeldStep ==
  ASSUME ~Twice, TypeOK, HeldInv, [Next]_vars
  PROVE  HeldInv'
<1>1. PICK n \in 0 .. 11 : Extent(n) /\ DepthAt(n)
  BY DEF HeldInv
<1>2. ASSUME held' = held PROVE Extent(n)'
  BY <1>1, <1>2 DEF Extent, Holding
<1>3. CASE ProbeDone
  <2>1. n = 11
    BY <1>1, <1>3, RankValues DEF ProbeDone, DepthAt
  <2> QED BY <1>2, <1>3, <2>1 DEF ProbeDone, HeldInv, StepAt, DepthAt, Holding
<1>4. CASE Unload \/ UnbindDevice
  <2>1. Remove(TRUE) \/ Remove(FALSE)
    BY <1>4 DEF Unload, UnbindDevice
  <2>2. /\ at = "bound" /\ at' = "remove" /\ step' = "node"
        /\ UNCHANGED <<nth, held, field>>
    BY <2>1 DEF Remove
  <2>3. DepthAt(n)' /\ StepAt'
    BY <1>1, <2>2, RankValues DEF DepthAt, StepAt, Registration
  <2> QED BY <1>1, <1>2, <2>2, <2>3 DEF HeldInv, Holding
<1>5. CASE Released
  <2>1. UNCHANGED <<nth, held, field>> /\ step = "end"
    BY <1>5 DEF Released
  <2>2. CASE at \in {"undo", "remove"} /\ at' = "devm" /\ step' = "irq"
    <3>1. DepthAt(n)' /\ StepAt'
      BY <1>1, <2>1, <2>2, RankValues DEF DepthAt, StepAt, Devm
    <3> QED BY <1>1, <1>2, <2>1, <3>1 DEF HeldInv, Holding
  <2>3. CASE at = "devm" /\ at' = "absent" /\ step' = step
    <3>1. DepthAt(n)' /\ StepAt'
      BY <1>1, <2>1, <2>3 DEF DepthAt, StepAt
    <3> QED BY <1>1, <1>2, <2>1, <3>1 DEF HeldInv, Holding
  <2> QED BY <1>5, <2>2, <2>3 DEF Released
<1>6. CASE UNCHANGED driverVars
  BY <1>1, <1>2, <1>6 DEF driverVars, HeldInv, StepAt, DepthAt, Holding
<1>7. CASE UNCHANGED vars
  BY <1>6, <1>7 DEF vars
<1> QED
  BY <1>3, <1>4, <1>5, <1>6, <1>7, HeldProbe, HeldAcquire, HeldAcquireFails, HeldRelease,
     BesideDriver DEF Next, Driver

-----------------------------------------------------------------------------
(* What follows from the extent alone.                                     *)

(* A resource that is held has all of a lower rank beside it.              *)
LEMMA Below ==
  ASSUME HeldInv, NEW j \in Kinds, NEW k \in Kinds, Holding(k),
         Rank(j) <= Rank(k), j # "node"
  PROVE  Holding(j)
<1>1. PICK n \in 0 .. 11 : Extent(n)
  BY DEF HeldInv
<1>2. Rank(k) <= n
  BY <1>1 DEF Extent
<1>3. Rank(j) <= n
  BY <1>2, RankFacts
<1> QED BY <1>1, <1>3 DEF Extent

(* The probe that has come to its end and the bound device have all but    *)
(* perhaps the node.                                                       *)
LEMMA UsableHolds ==
  ASSUME HeldInv, Usable, NEW k \in Kinds \ {"node"}
  PROVE  Holding(k)
<1>1. PICK n \in 0 .. 11 : Extent(n) /\ DepthAt(n)
  BY DEF HeldInv
<1>2. n = 11
  BY <1>1, RankValues DEF DepthAt, Usable
<1> QED BY <1>1, <1>2, RankFacts DEF Extent

-----------------------------------------------------------------------------
(* Both drivers, the one that registers its character device twice too.    *)
(* Where the driver is, and what it holds of the devm resources: the       *)
(* interrupt line never without the registers, these never without the     *)
(* structure, and nothing when the release has come to its end.            *)

Position ==
  /\ at \in {"absent", "bound"} => step = "end"
  /\ at = "probe" => step \in Kinds \cup {"end"}
  /\ at = "probe" /\ nth = 2 => step \in Registration \cup {"end"}
  /\ at = "undo" => step \in Platform \cup {"region", "cdev", "class", "region_again", "end"}
  /\ at = "remove" => step \in Platform \cup Registration \cup {"device", "end"}
  /\ at = "devm" => step \in Devm \cup {"end"}
  /\ nth \in {1, 2} /\ field \in [Registration -> {0, 1, 2}] /\ held \subseteq Resources

DevmInv ==
  /\ Holding("irq") => Holding("regs") /\ Holding("mem")
  /\ at = "probe" /\ step = "regs" => Holding("mem")
  /\ at = "probe" /\ step = "irq" => Holding("regs") /\ Holding("mem")
  /\ at = "devm" /\ step = "regs" => ~Holding("irq")
  /\ at = "devm" /\ step = "mem" => ~Holding("irq") /\ ~Holding("regs")
  /\ at = "absent" \/ (at = "devm" /\ step = "end") => \A k \in Devm : ~Holding(k)

LEMMA ErrorTo ==
  ASSUME NEW k \in Kinds, NEW n \in {1, 2}
  PROVE  OnError(k, n) \in Platform \cup {"region", "cdev", "class", "region_again", "end"}
<1>1. \A m \in {1, 2} :
        /\ \A j \in Devm \cup {"clk_lp"} : OnError(j, m) = "end"
        /\ OnError("clk_vpu", m) = "end" /\ OnError("dma", m) = "clk_vpu"
        /\ OnError("i2c", m) = "dma" /\ OnError("region", m) = "i2c"
        /\ OnError("cdev", m) \in {"region", "region_again"} /\ OnError("class", m) = "cdev"
        /\ OnError("node", m) = "class"
  BY DEF OnError, Devm
<1> QED BY <1>1 DEF Kinds, Platform, Registration

LEMMA UndoTo ==
  ASSUME NEW k \in Platform \cup {"region", "cdev", "class", "region_again"}
  PROVE  AfterUndo(k) \in Platform \cup {"region", "cdev", "region_again", "end"}
<1>1. /\ AfterUndo("class") = "cdev" /\ AfterUndo("cdev") = "region"
      /\ AfterUndo("region") = "i2c" /\ AfterUndo("i2c") = "dma"
      /\ AfterUndo("dma") = "clk_vpu" /\ AfterUndo("clk_vpu") = "clk_lp"
      /\ AfterUndo("clk_lp") \in {"region_again", "end"} /\ AfterUndo("region_again") = "end"
  BY DEF AfterUndo, LastLabel
<1> QED BY <1>1 DEF Platform

(* What a release takes away.                                              *)
LEMMA NamedIs ==
  ASSUME Position
  PROVE  /\ \A k \in Devm \cup Platform : Named(k) = <<k, 1>>
         /\ \A k \in Registration : Named(k) = <<k, field[k]>>
         /\ Named("region_again") = <<"region", field["region"]>>
         /\ Named("device") = <<"device", 1>>
<1>1. Registration \cap (Devm \cup Platform \cup {"device", "region_again"}) = {}
  BY DEF Devm, Platform, Registration
<1>2. "region_again" \notin Devm \cup Platform
  BY DEF Devm, Platform
<1> QED BY <1>1, <1>2 DEF Named

LEMMA PositionStep ==
  ASSUME Position, [Next]_vars
  PROVE  Position'
<1>1. CASE Probe
  <2>1. \A r \in Resources : <<r[1], Earlier>> \in Resources
    BY DEF Resources, Numbers, Earlier
  <2>2. held' \subseteq Resources
    BY <1>1, <2>1 DEF Probe, Position
  <2> QED BY <1>1, <2>2 DEF Probe, Position, Kinds, Devm, Registration
<1>2. ASSUME step \in Kinds, at = "probe", GoOn
      PROVE  /\ step' \in Kinds \cup {"end"} /\ nth' \in {1, 2}
             /\ nth' = 2 => step' \in Registration \cup {"end"}
  <2>1. CASE Again(step)
    BY <1>2, <2>1 DEF GoOn, Kinds, Registration
  <2>2. CASE ~Again(step)
    <3>1. step' = AfterCall(step) /\ nth' = nth
      BY <1>2, <2>2 DEF GoOn
    <3>2. nth = 2 => AfterCall(step) \in Registration \cup {"end"}
      <4>1. nth = 2 => step \in Registration
        BY <1>2 DEF Position, Kinds, Devm, Platform, Registration
      <4> QED BY <4>1, CallValues DEF Registration
    <3> QED BY <1>2, <3>1, <3>2, CallOrder DEF Position
  <2> QED BY <2>1, <2>2
<1>3. \A s \in BOOLEAN : Written(s) \in [Registration -> {0, 1, 2}]
  BY DEF Written, Position
<1>4. CASE Acquire
  <2>1. step \in Kinds /\ at' = "probe" /\ held' = held \cup {<<step, nth>>}
    BY <1>4 DEF Acquire, Call, Position
  <2>2. held' \subseteq Resources
    <3>1. <<step, nth>> \in Resources /\ held \subseteq Resources
      BY <2>1 DEF Position, Resources, Numbers
    <3> QED BY <2>1, <3>1
  <2>3. field' \in [Registration -> {0, 1, 2}]
    BY <1>3, <1>4 DEF Acquire
  <2> QED BY <1>2, <1>4, <2>1, <2>2, <2>3 DEF Acquire, Position
<1>5. CASE AcquireFails
  <2>1. /\ step \in Kinds /\ held' \subseteq held /\ field' \in [Registration -> {0, 1, 2}]
        /\ \/ at' = "undo" /\ step' = OnError(step, nth) /\ nth' = nth
           \/ at' = "probe" /\ at = "probe" /\ GoOn
    BY <1>3, <1>5 DEF AcquireFails, Position
  <2>2. CASE at' = "undo" /\ step' = OnError(step, nth) /\ nth' = nth
    BY <2>1, <2>2, ErrorTo DEF Position
  <2>3. CASE at' = "probe" /\ at = "probe" /\ GoOn
    BY <1>2, <2>1, <2>3 DEF Position
  <2> QED BY <2>1, <2>2, <2>3
<1>6. CASE Release
  <2>1. /\ UNCHANGED <<at, nth, field>> /\ held' \subseteq held /\ step # "end"
        /\ \/ at = "undo" /\ step' = AfterUndo(step)
           \/ at = "remove" /\ step' = AfterRemove(step)
           \/ at = "devm" /\ step' = AfterDevm(step)
    BY <1>6 DEF Release
  <2>2. CASE at = "undo" /\ step' = AfterUndo(step)
    BY <2>1, <2>2, UndoTo DEF Position
  <2>3. CASE at = "remove" /\ step' = AfterRemove(step)
    <3>1. AfterRemove("device") = "end"
      BY DEF AfterRemove
    <3> QED BY <2>1, <2>3, <3>1, RemoveOrder DEF Position
  <2>4. CASE at = "devm" /\ step' = AfterDevm(step)
    BY <2>1, <2>4, DevmOrder DEF Position
  <2> QED BY <2>1, <2>2, <2>3, <2>4
<1>7. CASE ProbeDone \/ Unload \/ UnbindDevice \/ Released
  BY <1>7 DEF ProbeDone, Unload, UnbindDevice, Remove, Released, Position, Devm, Registration
<1>8. CASE UNCHANGED driverVars
  BY <1>8 DEF driverVars, Position
<1> QED BY <1>1, <1>4, <1>5, <1>6, <1>7, <1>8, BesideDriver DEF Next, Driver, vars

(* What a new probe finds it does not count as its own.                    *)
LEMMA NoneAfterProbe ==
  ASSUME Probe, NEW k \in Kinds
  PROVE  ~Holding(k)'
BY DEF Probe, Holding, Earlier

LEMMA DevmStep ==
  ASSUME Position, DevmInv, [Next]_vars
  PROVE  DevmInv'
<1>1. CASE Acquire
  <2>1. /\ step \in Kinds /\ at = "probe" /\ at' = "probe"
        /\ held' = held \cup {<<step, nth>>} /\ step' \in {"region", AfterCall(step)}
    BY <1>1 DEF Acquire, Call, GoOn, Position
  <2>2. step' = "regs" => step = "mem"
    BY <2>1, CallValues DEF Kinds, Devm, Platform, Registration
  <2>3. step' = "irq" => step = "regs"
    BY <2>1, CallValues DEF Kinds, Devm, Platform, Registration
  <2>4. step \in {"mem", "regs"} => nth = 1
    BY <2>1 DEF Position, Registration
  <2> QED BY <2>1, <2>2, <2>3, <2>4 DEF DevmInv, Holding
<1>2. CASE AcquireFails
  <2>1. at' = "undo" \/ (at' = "probe" /\ step' \in {"region", "end"})
    BY <1>2, CallValues DEF AcquireFails, Noticed, Call, GoOn
  <2>2. \A k \in Devm : Holding(k)' <=> Holding(k)
    BY <1>2 DEF AcquireFails, Holding, Devm
  <2> QED BY <2>1, <2>2 DEF DevmInv, Devm
<1>3. CASE Release
  <2>1. UNCHANGED at /\ held' = held \ {Named(step)} /\ step # "end"
    BY <1>3 DEF Release
  <2>2. CASE at = "devm"
    <3>1. step \in Devm /\ Named(step) = <<step, 1>> /\ step' = AfterDevm(step)
      BY <1>3, <2>1, <2>2, NamedIs DEF Release, Position
    <3> QED BY <2>1, <2>2, <3>1, DevmValues DEF DevmInv, Holding, Devm
  <2>3. CASE at \in {"undo", "remove"}
    <3>1. \A k \in Devm : Named(step) # <<k, 1>>
      BY <2>1, <2>3, NamedIs DEF Position, Devm, Platform, Registration
    <3>2. \A k \in Devm : Holding(k)' <=> Holding(k)
      BY <2>1, <3>1 DEF Holding
    <3> QED BY <2>1, <2>3, <3>2 DEF DevmInv, Devm
  <2> QED BY <1>3, <2>2, <2>3 DEF Release
<1>4. CASE ProbeDone \/ Unload \/ UnbindDevice
  BY <1>4 DEF ProbeDone, Unload, UnbindDevice, Remove, DevmInv, Holding
<1>7. CASE Probe
  <2>1. \A k \in Devm : ~Holding(k)'
    BY <1>7, NoneAfterProbe DEF Kinds
  <2> QED BY <1>7, <2>1 DEF Probe, DevmInv, Devm
<1>5. CASE Released
  BY <1>5 DEF Released, DevmInv, Holding
<1>6. CASE UNCHANGED driverVars
  BY <1>6 DEF driverVars, DevmInv, Holding
<1> QED BY <1>1, <1>2, <1>3, <1>4, <1>5, <1>6, <1>7, BesideDriver DEF Next, Driver, vars

LEMMA DevmAlways == Spec => [](Position /\ DevmInv)
<1>1. Init => Position /\ DevmInv
  <2> SUFFICES ASSUME Init PROVE Position /\ DevmInv
    OBVIOUS
  <2>1. Position
    BY DEF Init, Position
  <2> QED BY <2>1 DEF Init, DevmInv, Holding
<1>2. Position /\ DevmInv /\ [Next]_vars => Position' /\ DevmInv'
  BY PositionStep, DevmStep
<1> QED BY <1>1, <1>2, PTL DEF Spec

-----------------------------------------------------------------------------
(* How much of a teardown is left: a number that every release lowers.     *)
Teardown == at \in {"undo", "remove", "devm"}

CallsLeft == CASE step = "end" -> 0 [] step = "region_again" -> 1 [] OTHER -> Rank(step)
ToGo ==
  CASE at = "devm" -> 1 + CallsLeft [] at \in {"undo", "remove"} -> 5 + CallsLeft [] OTHER -> 0

(* A teardown, once begun, ends nowhere but with the driver gone: it is    *)
(* never turned back into a probe or a binding, calls no release twice and *)
(* skips to none that is further up, whatever users and interrupts do      *)
(* meanwhile (labels and unicam_remove of both drivers, lines 664 to 714   *)
(* of the one).  With the fairness of a teardown it therefore ends.        *)
TeardownDescends ==
  [][Teardown => \/ UNCHANGED <<at, step>>
                 \/ (Teardown \/ at = "absent")' /\ ToGo' \in Nat /\ ToGo' < ToGo]_vars

LEMMA LeftValues ==
  ASSUME Position, Teardown
  PROVE  /\ step = "end" => CallsLeft = 0
         /\ step = "region_again" => CallsLeft = 1
         /\ step \in Kinds \cup {"device"} => CallsLeft = Rank(step)
BY DEF CallsLeft, Kinds, Devm, Platform, Registration

LEMMA ReleaseDescends ==
  ASSUME Position, Release
  PROVE  Teardown' /\ ToGo' \in Nat /\ ToGo' < ToGo
<1>1. Teardown /\ UNCHANGED at /\ step # "end" /\ Teardown'
  BY DEF Release, Teardown
<1>2. Position'
  BY PositionStep DEF Next, Driver
<1>3. CallsLeft \in Nat /\ CallsLeft' \in Nat /\ CallsLeft' < CallsLeft
  <2>1. CASE at = "undo"
    <3>1. step' = AfterUndo(step) /\ step \in Platform \cup {"region", "cdev", "class", "region_again"}
      BY <1>1, <2>1 DEF Release, Position
    <3>2. /\ AfterUndo("class") = "cdev" /\ AfterUndo("cdev") = "region"
          /\ AfterUndo("region") = "i2c" /\ AfterUndo("i2c") = "dma"
          /\ AfterUndo("dma") = "clk_vpu" /\ AfterUndo("clk_vpu") = "clk_lp"
          /\ AfterUndo("clk_lp") \in {"region_again", "end"} /\ AfterUndo("region_again") = "end"
      BY DEF AfterUndo, LastLabel
    <3> QED BY <1>1, <3>1, <3>2, RankValues DEF CallsLeft, Platform
  <2>2. CASE at = "remove"
    <3>1. step' = AfterRemove(step) /\ step \in Platform \cup Registration \cup {"device"}
      BY <1>1, <2>2 DEF Release, Position
    <3>2. CASE step = "device"
      BY <3>1, <3>2, RankValues DEF CallsLeft, AfterRemove
    <3>3. CASE step \in Platform \cup Registration
      <4>1. /\ step \in Kinds /\ step' \in Kinds \cup {"device"}
            /\ Rank(step') = Rank(step) - 1
        BY <3>1, <3>3, RemoveOrder DEF Kinds
      <4>2. CallsLeft = Rank(step) /\ CallsLeft' = Rank(step')
        <5>1. step \notin {"end", "region_again"} /\ step' \notin {"end", "region_again"}
          BY <4>1 DEF Kinds, Devm, Platform, Registration
        <5> QED BY <5>1 DEF CallsLeft
      <4>3. Rank(step) \in 1 .. 11 /\ Rank(step') \in 1 .. 11
        BY <4>1, RankFacts, RankValues
      <4> QED BY <4>1, <4>2, <4>3
    <3> QED BY <3>1, <3>2, <3>3
  <2>3. CASE at = "devm"
    <3>1. step' = AfterDevm(step) /\ step \in Devm
      BY <1>1, <2>3 DEF Release, Position
    <3> QED BY <3>1, DevmValues, RankValues DEF CallsLeft, Devm
  <2> QED BY <1>1, <2>1, <2>2, <2>3 DEF Teardown
<1> QED BY <1>1, <1>3 DEF ToGo, Teardown

(* Each label, each call of unicam_remove and each devm release of either  *)
(* driver goes on to one that is nearer the end.                           *)
THEOREM TeardownDescent == Spec => TeardownDescends
<1>1. ASSUME Position, [Next]_vars, Teardown
      PROVE  \/ UNCHANGED <<at, step>>
             \/ (Teardown \/ at = "absent")' /\ ToGo' \in Nat /\ ToGo' < ToGo
  <2>1. CASE Release
    BY <1>1, <2>1, ReleaseDescends
  <2>2. CASE Released
    <3>1. /\ step = "end"
          /\ \/ at \in {"undo", "remove"} /\ at' = "devm" /\ step' = "irq"
             \/ at = "devm" /\ at' = "absent"
      BY <2>2 DEF Released
    <3>2. CallsLeft = 0
      BY <3>1 DEF CallsLeft
    <3>3. CASE at \in {"undo", "remove"} /\ at' = "devm" /\ step' = "irq"
      <4>1. CallsLeft' = 3
        BY <3>3, RankValues DEF CallsLeft
      <4> QED BY <3>2, <3>3, <4>1 DEF ToGo, Teardown
    <3>4. CASE at = "devm" /\ at' = "absent"
      BY <3>2, <3>4 DEF ToGo
    <3> QED BY <3>1, <3>3, <3>4
  <2>3. ~(Probe \/ Acquire \/ AcquireFails \/ ProbeDone \/ Unload \/ UnbindDevice)
    BY <1>1 DEF Teardown, Probe, Acquire, AcquireFails, ProbeDone, Unload, UnbindDevice, Remove
  <2>4. CASE UNCHANGED driverVars
    BY <2>4 DEF driverVars
  <2> QED BY <1>1, <2>1, <2>2, <2>3, <2>4, BesideDriver DEF Next, Driver, vars
<1> QED BY <1>1, DevmAlways, PTL DEF Spec, TeardownDescends

-----------------------------------------------------------------------------
(* Types.                                                                  *)

OtherTypes ==
  /\ at \in {"absent", "probe", "undo", "bound", "remove", "devm"}
  /\ probes \in Nat /\ device \in 0 .. probes /\ faults \in Nat
  /\ leaving \in BOOLEAN /\ exposed \in BOOLEAN /\ orphans \subseteq Users
  /\ streaming \in BOOLEAN /\ core \in BOOLEAN /\ isr \in BOOLEAN
  /\ file \in [Users -> InCall \cup {"closed", "opening", "mapping"}]
  /\ priv \in [Users -> 0 .. probes] /\ mapped \in [Users -> BOOLEAN]
  /\ \A u \in Users : file[u] \in InCall => priv[u] # 0

LEMMA OtherTypesStep ==
  ASSUME OtherTypes, [Next]_vars
  PROVE  OtherTypes'
<1> USE DEF OtherTypes, InCall, userVars, fileVars, history
<1>1. CASE Probe
  <2>1. probes' \in Nat /\ device' \in 0 .. probes' /\ 0 .. probes \subseteq 0 .. probes'
    BY <1>1 DEF Probe
  <2>2. priv' \in [Users -> 0 .. probes']
    BY <1>1, <2>1 DEF Probe
  <2>3. exposed' \in BOOLEAN
    BY <1>1 DEF Probe, Pinned
  <2> QED BY <1>1, <2>1, <2>2, <2>3 DEF Probe
<1>2. CASE Acquire \/ ProbeDone \/ Release \/ Released
  <2>1. at' \in {"absent", "probe", "undo", "bound", "remove", "devm"}
    BY <1>2 DEF Acquire, ProbeDone, Release, Released
  <2>2. device' \in {0, device, probes}
    BY <1>2 DEF Acquire, ProbeDone, Release, Released
  <2>3. /\ UNCHANGED <<probes, faults, leaving, streaming, core, isr, file, priv, mapped, exposed>>
        /\ orphans' \subseteq Users
    BY <1>2 DEF Acquire, ProbeDone, Release, Released, streamVars, Orphaned
  <2> QED BY <2>1, <2>2, <2>3
<1>3. CASE AcquireFails
  BY <1>3 DEF AcquireFails, streamVars
<1>4. CASE Unload \/ UnbindDevice
  BY <1>4 DEF Unload, UnbindDevice, Remove, RemovedCore, Pinned
<1>5. CASE IsrEnter \/ IsrReturn
  BY <1>5 DEF IsrEnter, IsrReturn, driverVars, streamVars
<1>6. ASSUME NEW u \in Users, User(u) PROVE OtherTypes'
  <2> USE DEF Move, driverVars, streamVars, Forget
  <2>1. CASE Open(u) \/ Close(u)
    <3>1. UNCHANGED <<at, probes, device, faults, leaving, streaming, core, isr, mapped>>
      BY <2>1 DEF Open, Close
    <3>2. exposed' \in BOOLEAN /\ orphans' \subseteq Users
      BY <2>1 DEF Open, Close
    <3> QED BY <2>1, <3>1, <3>2 DEF Open, Close, Closed
  <2>2. CASE OpenReturns(u)
    BY <2>2 DEF OpenReturns, Opened
  <2>3. CASE Map(u) \/ Unmap(u)
    BY <2>3 DEF Map, Unmap
  <2>4. CASE StartHardware(u) \/ StartReturns(u)
    BY <2>4 DEF StartHardware, StartReturns
  <2>5. CASE StopHardware(u) \/ StopReturns(u)
    BY <2>5 DEF StopHardware, StopReturns
  <2> QED BY <1>6, <2>1, <2>2, <2>3, <2>4, <2>5 DEF User
<1>7. CASE UNCHANGED vars
  BY <1>7 DEF vars, driverVars, streamVars
<1> QED BY <1>1, <1>2, <1>3, <1>4, <1>5, <1>6, <1>7 DEF Next, Driver

(* Type correctness of both drivers, and that an open file never has a     *)
(* NULL structure.                                                         *)
THEOREM LifecycleTypes == Spec => []TypeOK
<1>1. Init => OtherTypes
  <2> SUFFICES ASSUME Init PROVE OtherTypes
    OBVIOUS
  <2>1. priv \in [Users -> 0 .. probes] /\ device \in 0 .. probes /\ probes \in Nat
    BY DEF Init
  <2> QED BY <2>1 DEF Init, OtherTypes, InCall
<1>2. OtherTypes /\ [Next]_vars => OtherTypes'
  BY OtherTypesStep
<1>3. Position /\ OtherTypes => TypeOK
  BY DEF Position, OtherTypes, TypeOK, Kinds, Registration
<1> QED BY <1>1, <1>2, <1>3, DevmAlways, PTL DEF Spec

(* The handler runs from request to release only, and free_irq waits for   *)
(* it before the registers go.                                             *)
IsrInv == isr => Holding("mem") /\ Holding("regs")

LEMMA IsrStep ==
  ASSUME Position, DevmInv, IsrInv, [Next]_vars
  PROVE  IsrInv'
<1>1. CASE IsrEnter
  <2>1. Holding("irq")
    BY <1>1 DEF IsrEnter, Holding
  <2>2. Holding("mem") /\ Holding("regs")
    BY <2>1 DEF DevmInv
  <2> QED BY <1>1, <2>2 DEF IsrEnter, IsrInv, Holding, driverVars
<1>2. CASE Release
  <2> SUFFICES ASSUME isr' PROVE Holding("mem")' /\ Holding("regs")'
    BY DEF IsrInv
  <2>1. isr /\ Holding("mem") /\ Holding("regs") /\ step # "regs"
    BY <1>2 DEF Release, Quiesced, IsrInv
  <2>2. step # "mem"
    <3>1. step = "mem" => at = "devm"
      BY <1>2 DEF Release, Position, Platform, Registration
    <3> QED BY <2>1, <3>1 DEF DevmInv
  <2>3. Named(step) \notin {<<"mem", 1>>, <<"regs", 1>>}
    BY <2>1, <2>2 DEF Named, Registration
  <2> QED BY <1>2, <2>1, <2>3 DEF Release, Holding
<1>3. CASE held \subseteq held' \cup {<<"clk_lp", 1>>} /\ isr' = isr
  BY <1>3 DEF IsrInv, Holding
<1>4. CASE ~isr'
  BY <1>4 DEF IsrInv
<1>5. CASE Driver /\ ~Release /\ ~Probe
  BY <1>3, <1>5 DEF Driver, Acquire, AcquireFails, ProbeDone, Unload, UnbindDevice,
                   Remove, Released
<1>9. CASE Probe
  BY <1>9 DEF Probe, DevmInv, Devm, IsrInv
<1>6. CASE IsrReturn
  BY <1>4, <1>6 DEF IsrReturn
<1>7. ASSUME NEW u \in Users, User(u) PROVE IsrInv'
  <2>1. UNCHANGED held
    BY <1>7, BesideDriver DEF driverVars
  <2>2. UNCHANGED isr
    BY <1>7 DEF User, Open, OpenReturns, Close, Map, Unmap, StartHardware, StartReturns,
                StopHardware, StopReturns
  <2> QED BY <1>3, <2>1, <2>2
<1>8. CASE UNCHANGED vars
  BY <1>3, <1>8 DEF vars, driverVars
<1> QED BY <1>1, <1>2, <1>5, <1>6, <1>7, <1>8, <1>9 DEF Next

(* The handler of either driver always finds the structure and the         *)
(* registers, however its probe fails (manual-unicam-driver.c:537).        *)
THEOREM HandlerIsSafe == Spec => []HandlerOnLiveDevice
<1>1. Init => IsrInv
  BY DEF Init, IsrInv
<1>2. Position /\ DevmInv /\ IsrInv /\ [Next]_vars => IsrInv'
  BY IsrStep
<1>3. IsrInv => HandlerOnLiveDevice
  BY DEF IsrInv, HandlerOnLiveDevice, Holding
<1> QED BY <1>1, <1>2, <1>3, DevmAlways, PTL DEF Spec

LEMMA HeldAlways ==
  ASSUME ~Twice
  PROVE  Spec => []HeldInv
<1>1. TypeOK /\ HeldInv /\ [Next]_vars => HeldInv'
  BY HeldStep
<1> QED BY HeldInit, <1>1, LifecycleTypes, PTL DEF Spec

-----------------------------------------------------------------------------
(* Resources.                                                              *)

(* However a probe fails and however often the driver is removed, nothing  *)
(* stays behind: at rank 0 nothing is held.                                *)
THEOREM NoLeaks ==
  ASSUME ~Twice
  PROVE  Spec => []NothingLeaks
<1>1. ASSUME HeldInv, at = "absent" PROVE held = {}
  <2>1. Extent(0)
    BY <1>1 DEF HeldInv, DepthAt
  <2>2. \A k \in Kinds : ~Holding(k)
    BY <2>1, RankFacts DEF Extent
  <2> QED BY <1>1, <2>2 DEF HeldInv, Holding
<1>2. HeldInv => NothingLeaks
  BY <1>1 DEF NothingLeaks
<1> QED BY <1>2, HeldAlways, PTL

(* The character device is of a higher rank than all its file operations   *)
(* use.                                                                    *)
THEOREM CdevIsBacked ==
  ASSUME ~Twice
  PROVE  Spec => []CdevBacked
<1>1. ASSUME HeldInv, NEW n \in Numbers, <<"cdev", n>> \in held PROVE Base \subseteq held
  <2>1. Holding("cdev")
    BY <1>1 DEF HeldInv, Holding
  <2>2. \A j \in Devm \cup Platform : j \in Kinds /\ Rank(j) <= Rank("cdev") /\ j # "node"
    BY RankValues DEF Kinds, Devm, Platform, Registration
  <2>3. "cdev" \in Kinds
    BY DEF Kinds, Registration
  <2>4. \A j \in Devm \cup Platform : Holding(j)
    BY <1>1, <2>1, <2>2, <2>3, Below
  <2> QED BY <2>4 DEF Base, Holding
<1>2. HeldInv => CdevBacked
  BY <1>1 DEF CdevBacked
<1> QED BY <1>2, HeldAlways, PTL

-----------------------------------------------------------------------------
(* Files and mappings.                                                     *)

(* While there is a character device, the device is in a probe that has    *)
(* published its structure, bound, or on its way to the deletion.          *)
LEMMA CdevWhen ==
  ASSUME HeldInv, TypeOK, Holding("cdev")
  PROVE  /\ at \in {"probe", "undo", "bound", "remove"} /\ step # "device"
         /\ \A k \in Devm \cup Platform : Holding(k)
<1>1. PICK n \in 0 .. 11 : Extent(n) /\ DepthAt(n)
  BY DEF HeldInv
<1>2. "cdev" \in Kinds /\ Rank("cdev") = 9
  BY RankValues DEF Kinds, Registration
<1>3. n >= 9
  BY <1>1, <1>2 DEF Extent
<1>4. at # "absent"
  BY <1>1, <1>3 DEF DepthAt
<1>5. at # "devm"
  <2>1. at = "devm" => step \in Devm \cup {"end"}
    BY DEF HeldInv, StepAt
  <2>2. at = "devm" => n <= 3
    <3>1. \A k \in Devm : Rank(k) <= 3
      BY RankFacts
    <3>2. at = "devm" /\ step = "end" => n = 0
      BY <1>1 DEF DepthAt
    <3>3. at = "devm" /\ step # "end" => n <= Rank(step) /\ Rank(step) <= 3 /\ Rank(step) \in Nat
      BY <1>1, <2>1, <3>1, RankValues DEF DepthAt, Devm
    <3> QED BY <3>2, <3>3
  <2> QED BY <1>3, <2>2
<1>6. step # "device"
  <2>1. step = "device" => at = "remove"
    BY <1>4, <1>5 DEF HeldInv, StepAt, TypeOK, Kinds, Devm, Platform, Registration
  <2> QED BY <1>1, <1>3, <2>1, RankValues DEF DepthAt
<1>7. ASSUME NEW k \in Devm \cup Platform PROVE Holding(k)
  <2>1. k \in Kinds /\ k # "node" /\ Rank(k) <= 9
    BY RankValues DEF Kinds, Devm, Platform, Registration
  <2> QED BY <1>2, <2>1, Below
<1> QED BY <1>4, <1>5, <1>6, <1>7 DEF TypeOK

(* Only the call for it makes a character device, only cdev_del ends it.   *)
LEMMA CdevChanges ==
  ASSUME ~Twice, TypeOK, HeldInv, [Next]_vars
  PROVE  /\ Holding("cdev")' /\ ~Holding("cdev") => Acquire /\ step = "cdev"
         /\ Holding("cdev") /\ ~Holding("cdev")' => Release /\ step = "cdev"
<1>1. CASE Acquire
  BY <1>1 DEF Acquire, Call, Holding
<1>2. CASE AcquireFails
  BY <1>2 DEF AcquireFails, Holding
<1>3. CASE Release
  <2>1. step # "cdev" => Named(step) # <<"cdev", 1>>
    BY DEF Named
  <2> QED BY <1>3, <2>1 DEF Release, Holding
<1>4. CASE Probe
  <2>1. ~Holding("cdev")
    BY <1>4, CdevWhen DEF Probe
  <2>2. ~Holding("cdev")'
    BY <1>4, NoneAfterProbe DEF Kinds, Registration
  <2> QED BY <2>1, <2>2
<1>5. CASE ProbeDone \/ Unload \/ UnbindDevice \/ Released
  BY <1>5 DEF ProbeDone, Unload, UnbindDevice, Remove, Released, Holding
<1>6. CASE UNCHANGED driverVars
  BY <1>6 DEF driverVars, Holding
<1> QED BY <1>1, <1>2, <1>3, <1>4, <1>5, <1>6, BesideDriver DEF Next, Driver, vars

LEMMA DeviceStep ==
  ASSUME ~Twice, TypeOK, HeldInv, DeviceInv, [Next]_vars
  PROVE  DeviceInv'
<1>1. CASE Acquire
  <2>1. step # "mem" => device = probes
    BY <1>1 DEF Acquire, DeviceInv
  <2> QED BY <1>1, <2>1 DEF Acquire, DeviceInv
<1>2. CASE AcquireFails
  <2>1. at' = "probe" => step = "node" /\ at = "probe"
    BY <1>2 DEF AcquireFails, Noticed, Call
  <2>2. UNCHANGED <<device, probes>> /\ (Holding("cdev")' => Holding("cdev"))
    BY <1>2 DEF AcquireFails, Holding
  <2> QED BY <2>1, <2>2 DEF DeviceInv
<1>3. CASE Probe
  <2>1. ~Holding("cdev")'
    BY <1>3, NoneAfterProbe DEF Kinds, Registration
  <2> QED BY <1>3, <2>1 DEF Probe, DeviceInv
<1>4. CASE Unload \/ UnbindDevice \/ Released \/ ProbeDone
  BY <1>4 DEF Unload, UnbindDevice, Remove, Released, ProbeDone, DeviceInv, Holding
<1>5. CASE Release
  <2>1. Holding("cdev")' => Holding("cdev")
    BY <1>5 DEF Release, Holding
  <2>2. Holding("cdev") => device' = device /\ probes' = probes
    BY <1>5, CdevWhen DEF Release
  <2> QED BY <1>5, <2>1, <2>2 DEF Release, DeviceInv
<1>6. CASE UNCHANGED driverVars
  BY <1>6 DEF driverVars, DeviceInv, Holding
<1> QED BY <1>1, <1>2, <1>3, <1>4, <1>5, <1>6, BesideDriver DEF Next, Driver, vars

(* A step of the driver.  When it deletes the character device, all files  *)
(* that are open become orphans, unless it does so with the module, when   *)
(* there are none.                                                         *)
LEMMA FileDriver ==
  ASSUME ~Twice, HeldInv, TypeOK, FileInv, Driver
  PROVE  FileInv'
<1>1. [Next]_vars
  BY DEF Next
<1>2. UNCHANGED <<file, priv, mapped>>
  BY DEF Driver, Probe, Acquire, AcquireFails, ProbeDone, Unload, UnbindDevice, Remove, Release,
         Released, userVars, fileVars
<1>3. leaving' => at' \in {"remove", "devm", "absent"}
  BY DEF FileInv, Driver, Probe, Acquire, AcquireFails, ProbeDone, Unload, UnbindDevice, Remove,
         Release, Released
<1>4. leaving' /\ at' = "remove" => ~Pinned'
  <2>1. leaving' /\ at' = "remove" => ~Pinned
    BY DEF FileInv, Driver, Probe, Acquire, AcquireFails, ProbeDone, Unload, Removable,
           UnbindDevice, Remove, Release, Released
  <2> QED BY <1>2, <2>1 DEF Pinned
<1>5. orphans \subseteq orphans'
  BY DEF Driver, Probe, Acquire, AcquireFails, ProbeDone, Unload, UnbindDevice, Remove, Release,
         Released, userVars, history
<1>6. ASSUME NEW u \in Users \ orphans', file'[u] # "closed"
      PROVE  Holding("cdev") /\ Holding("cdev")'
  <2>1. Holding("cdev")
    BY <1>2, <1>5, <1>6 DEF FileInv
  <2>2. SUFFICES ASSUME ~Holding("cdev")' PROVE FALSE
    BY <2>1
  <2>3. Release /\ step = "cdev"
    BY <1>1, <2>1, <2>2, CdevChanges
  <2>4. leaving
    BY <1>2, <1>6, <2>3 DEF Release, Orphaned
  <2>5. at = "remove"
    BY <2>1, <2>4, CdevWhen DEF FileInv
  <2> QED BY <1>2, <1>6, <2>4, <2>5 DEF FileInv, Pinned
<1>7. ASSUME NEW u \in Users \ orphans', file'[u] \in InCall
      PROVE  priv'[u] = probes'
  <2>1. Holding("cdev")
    BY <1>6, <1>7 DEF InCall
  <2>2. ~Probe
    BY <2>1, CdevWhen DEF Probe
  <2>3. probes' = probes
    BY <2>2 DEF Driver, Acquire, AcquireFails, ProbeDone, Unload, UnbindDevice, Remove, Release,
                Released
  <2> QED BY <1>2, <1>5, <1>7, <2>3 DEF FileInv
<1> QED BY <1>2, <1>3, <1>4, <1>6, <1>7 DEF FileInv

(* A call of a user.                                                       *)
LEMMA FileUser ==
  ASSUME ~Twice, HeldInv, TypeOK, DeviceInv, FileInv, NEW u \in Users, User(u)
  PROVE  FileInv'
<1> USE DEF Move
<1>1. /\ UNCHANGED <<at, step, probes, leaving, device, held>>
      /\ Holding("cdev")' <=> Holding("cdev")
  BY BesideDriver DEF driverVars, Holding
<1>2. /\ file \in [Users -> InCall \cup {"closed", "opening", "mapping"}]
      /\ priv \in [Users -> 0 .. probes] /\ mapped \in [Users -> BOOLEAN]
  BY DEF TypeOK
<1>3. ASSUME NEW v \in Users \ orphans', file'[v] # "closed"
      PROVE  v \notin orphans
  <2>1. orphans' = orphans \/ Forget
    BY DEF User, Open, OpenReturns, Close, Map, Unmap, StartHardware, StartReturns, StopHardware,
           StopReturns, history
  <2> QED BY <1>3, <2>1 DEF Forget
<1>4. leaving /\ at = "remove" => ~Pinned'
  <2>1. \A v \in Users : file[v] = "closed" => file'[v] = "closed" \/ Open(u)
    BY <1>2 DEF User, OpenReturns, Opened, Close, Closed, Map, Unmap, StartHardware,
                StartReturns, StopHardware, StopReturns, InCall
  <2>2. Open(u) => ~(at = "remove" /\ leaving)
    BY DEF Open
  <2> QED BY <2>1, <2>2 DEF Pinned, FileInv
<1>5. \A v \in Users \ orphans' : file'[v] # "closed" => Holding("cdev")
  <2>1. Open(u) => Holding("cdev")
    BY DEF Open, Reachable, HeldInv, Holding
  <2>2. \A v \in Users : file'[v] # "closed" => file[v] # "closed" \/ Open(u)
    BY <1>2 DEF User, OpenReturns, Opened, Close, Closed, Map, Unmap, StartHardware,
                StartReturns, StopHardware, StopReturns, InCall
  <2> QED BY <1>3, <2>1, <2>2 DEF FileInv
<1>6. \A v \in Users \ orphans' : file'[v] \in InCall => priv'[v] = probes
  <2> SUFFICES ASSUME NEW v \in Users \ orphans', file'[v] \in InCall
               PROVE  priv'[v] = probes
    OBVIOUS
  <2>1. v \notin orphans
    BY <1>3 DEF InCall
  <2>2. CASE OpenReturns(u) /\ v = u
    <3>1. Holding("cdev")
      BY <2>1, <2>2 DEF OpenReturns, FileInv
    <3> QED BY <1>2, <2>2, <3>1 DEF OpenReturns, DeviceInv
  <2>3. CASE ~(OpenReturns(u) /\ v = u)
    <3>1. file[v] \in InCall /\ priv'[v] = priv[v]
      BY <1>2, <2>3 DEF User, Open, OpenReturns, Close, Closed, Map, Unmap, StartHardware,
                        StartReturns, StopHardware, StopReturns, InCall
    <3> QED BY <2>1, <3>1 DEF FileInv
  <2> QED BY <2>2, <2>3
<1>7. \A v \in Users : mapped'[v] => file'[v] \in InCall \cup {"mapping"}
  BY <1>2 DEF FileInv, User, Open, OpenReturns, Opened, Close, Closed, Map, Unmap, StartHardware,
              StartReturns, StopHardware, StopReturns, InCall
<1> QED BY <1>1, <1>4, <1>5, <1>6, <1>7 DEF FileInv

LEMMA FileStep ==
  ASSUME ~Twice, HeldInv, TypeOK, DeviceInv, FileInv, [Next]_vars
  PROVE  FileInv'
<1>1. CASE IsrEnter \/ IsrReturn \/ UNCHANGED vars
  <2>1. UNCHANGED <<at, step, leaving, probes, held, file, priv, mapped, orphans>>
    BY <1>1 DEF IsrEnter, IsrReturn, vars, driverVars, userVars, fileVars, history
  <2> QED BY <2>1 DEF FileInv, Holding, Pinned
<1> QED BY <1>1, FileDriver, FileUser DEF Next

LEMMA FilesAlways ==
  ASSUME ~Twice
  PROVE  Spec => [](DeviceInv /\ FileInv)
<1>1. Init => DeviceInv /\ FileInv
  BY DEF Init, DeviceInv, FileInv, InCall, Holding
<1>2. HeldInv /\ TypeOK /\ DeviceInv /\ FileInv /\ [Next]_vars => DeviceInv' /\ FileInv'
  BY DeviceStep, FileStep
<1> QED BY <1>1, <1>2, HeldAlways, LifecycleTypes, PTL DEF Spec

(* An open file refers to the structure of the present probe and to all    *)
(* its file operations need, whatever the driver is doing, unless its      *)
(* character device was deleted under it by an unwinding or an unbinding.  *)
THEOREM FilesAreLive ==
  ASSUME ~Twice
  PROVE  Spec => []FilesOnLiveDevice
<1>1. ASSUME HeldInv, TypeOK, FileInv, NEW u \in Users \ orphans, file[u] \in InCall
      PROVE  Live(u) /\ Base \subseteq held
  <2>1. Holding("cdev") /\ priv[u] = probes
    BY <1>1 DEF FileInv, InCall
  <2>2. \A k \in Devm \cup Platform : Holding(k)
    BY <1>1, <2>1, CdevWhen
  <2>3. Live(u)
    BY <2>1, <2>2 DEF Live, Holding, Devm
  <2>4. Base \subseteq held
    BY <2>2 DEF Base, Holding
  <2> QED BY <2>3, <2>4
<1>2. HeldInv /\ TypeOK /\ FileInv => FilesOnLiveDevice
  BY <1>1 DEF FilesOnLiveDevice
<1> QED BY <1>2, HeldAlways, LifecycleTypes, FilesAlways, PTL

(* ... and no mapping through such a file outlives the buffer.             *)
THEOREM MappingsAreBacked ==
  ASSUME ~Twice
  PROVE  Spec => []MappingOnBuffer
<1>1. ASSUME HeldInv, TypeOK, FileInv, NEW u \in Users \ orphans, mapped[u]
      PROVE  Holding("dma")
  <2>1. Holding("cdev")
    BY <1>1 DEF FileInv, InCall
  <2> QED BY <1>1, <2>1, CdevWhen DEF Platform
<1>2. HeldInv /\ TypeOK /\ FileInv => MappingOnBuffer
  BY <1>1 DEF MappingOnBuffer, Holding
<1> QED BY <1>2, HeldAlways, LifecycleTypes, FilesAlways, PTL

-----------------------------------------------------------------------------
(* The core, with one thread in control of the stream.                     *)

LEMMA CoreDriver ==
  ASSUME TypeOK, HeldInv, CoreInv, Driver
  PROVE  CoreInv'
<1>1. CASE Probe
  <2>1. exposed' = (exposed /\ (core \/ Pinned)) /\ UNCHANGED <<file, core>> /\ at = "absent"
    BY <1>1 DEF Probe, fileVars
  <2>2. ~exposed' => ~core /\ ~Pinned
    BY <2>1 DEF CoreInv, Pinned
  <2> QED BY <2>1, <2>2 DEF CoreInv, Pinned
<1>2. CASE Unload
  <2>1. ~Pinned /\ UNCHANGED <<file, streaming, exposed>>
    BY <1>2 DEF Unload, Removable, Remove, fileVars
  <2>2. ~exposed /\ core => streaming
    BY <2>1, LifecycleAssumption DEF CoreInv, LifecycleAssumption, Pinned
  <2>3. ~exposed => ~core'
    BY <1>2, <2>2 DEF Unload, Remove, RemovedCore, TypeOK
  <2> QED BY <2>1, <2>3 DEF CoreInv, Pinned
<1>3. CASE UnbindDevice
  <2>1. exposed' = (exposed \/ Pinned) /\ UNCHANGED <<file, streaming>>
    BY <1>3 DEF UnbindDevice, Remove, fileVars
  <2>2. ~exposed' => ~Pinned /\ ~exposed
    BY <2>1
  <2>3. ~exposed' /\ core => streaming
    BY <2>2, LifecycleAssumption DEF CoreInv, LifecycleAssumption, Pinned
  <2>4. ~exposed' => ~core'
    BY <1>3, <2>3 DEF UnbindDevice, Remove, RemovedCore, TypeOK
  <2> QED BY <2>1, <2>2, <2>4 DEF CoreInv, Pinned
<1>4. CASE Acquire \/ AcquireFails \/ ProbeDone \/ Release \/ Released
  <2>1. UNCHANGED <<file, exposed, core, streaming>> /\ (at = "bound" => at' = "bound")
    BY <1>4 DEF Acquire, AcquireFails, ProbeDone, Release, Released, userVars, fileVars, history,
                streamVars, HeldInv, StepAt
  <2> QED BY <2>1 DEF CoreInv
<1> QED BY <1>1, <1>2, <1>3, <1>4 DEF Driver

LEMMA CoreUser ==
  ASSUME Alone, TypeOK, CoreInv, NEW u \in Users, User(u)
  PROVE  CoreInv'
<1> USE DEF Move, CoreInv
<1>1. UNCHANGED at
  BY BesideDriver DEF driverVars
<1>2. file \in [Users -> InCall \cup {"closed", "opening", "mapping"}]
  BY DEF TypeOK
<1>3. CASE Open(u)
  <2>1. exposed' = (exposed \/ at # "bound") /\ UNCHANGED <<streaming, core>>
    BY <1>3 DEF Open, streamVars
  <2>2. file' = [file EXCEPT ![u] = "opening"] /\ file[u] = "closed"
    BY <1>3 DEF Open
  <2> QED BY <1>1, <1>2, <2>1, <2>2, LifecycleAssumption DEF LifecycleAssumption
<1>4. CASE OpenReturns(u) \/ Close(u) \/ Map(u) \/ Unmap(u)
  <2>1. UNCHANGED <<streaming, core, exposed>>
    BY <1>4 DEF OpenReturns, Close, Map, Unmap, streamVars, history
  <2>2. \A v \in Users :
          /\ file'[v] \in {"starting", "stopping"} => file'[v] = file[v]
          /\ file[v] = "starting" => file'[v] = "starting"
          /\ file'[v] # "closed" => file[v] # "closed"
    BY <1>2, <1>4 DEF OpenReturns, Opened, Close, Closed, Map, Unmap
  <2> QED BY <1>1, <2>1, <2>2, LifecycleAssumption DEF LifecycleAssumption
<1>5. CASE u \in Streamers /\ StartHardware(u)
  <2>1. \A v \in Users : file[v] = "stopping" => v = u
    BY <1>5 DEF Alone
  <2>2. file' = [file EXCEPT ![u] = "starting"] /\ file[u] = "open" /\ exposed' = exposed
    BY <1>5 DEF StartHardware, history
  <2>3. file'[u] = "starting" /\ \A v \in Users : v # u => file'[v] = file[v]
    BY <1>2, <2>2
  <2> QED BY <1>1, <1>5, <2>1, <2>2, <2>3
<1>6. CASE u \in Streamers /\ StartReturns(u)
  <2>1. file' = [file EXCEPT ![u] = "open"] /\ file[u] = "starting" /\ exposed' = exposed
    BY <1>6 DEF StartReturns, history
  <2>2. file'[u] = "open" /\ \A v \in Users : v # u => file'[v] = file[v]
    BY <1>2, <2>1
  <2>3. \A v \in Users : file'[v] # "stopping"
    BY <1>6, <2>1, <2>2 DEF Alone
  <2>4. (streaming' /\ core' = core) \/ ~core'
    BY <1>6 DEF StartReturns
  <2> QED BY <1>1, <2>1, <2>2, <2>3, <2>4
<1>7. CASE u \in Streamers /\ StopHardware(u)
  <2>1. file' = [file EXCEPT ![u] = "stopping"] /\ file[u] = "open" /\ ~core' /\ exposed' = exposed
    BY <1>7 DEF StopHardware, history
  <2>2. \A v \in Users : v # u => file'[v] = file[v]
    BY <1>2, <2>1
  <2> QED BY <1>1, <1>7, <2>1, <2>2
<1>8. CASE u \in Streamers /\ StopReturns(u)
  <2>1. /\ file' = [file EXCEPT ![u] = "open"] /\ file[u] = "stopping" /\ core' = core
        /\ exposed' = exposed
    BY <1>8 DEF StopReturns, history
  <2>2. file'[u] = "open" /\ \A v \in Users : v # u => file'[v] = file[v]
    BY <1>2, <2>1
  <2>3. ~exposed => ~core'
    BY <2>1
  <2> QED BY <1>1, <2>1, <2>2, <2>3
<1> QED BY <1>3, <1>4, <1>5, <1>6, <1>7, <1>8 DEF User

LEMMA CoreStep ==
  ASSUME Alone, TypeOK, HeldInv, CoreInv, [Next]_vars
  PROVE  CoreInv'
<1>1. CASE IsrEnter \/ IsrReturn \/ UNCHANGED vars
  <2>1. UNCHANGED <<at, exposed, file, core, streaming>>
    BY <1>1 DEF IsrEnter, IsrReturn, vars, driverVars, userVars, fileVars, history, streamVars
  <2> QED BY <2>1 DEF CoreInv
<1> QED BY <1>1, CoreDriver, CoreUser DEF Next

(* With one controlling thread, the core is never on without its buffer    *)
(* and its clocks, as long as no file has been open while the device was   *)
(* not bound.                                                              *)
THEOREM CoreIsBacked ==
  ASSUME ~Twice, Alone
  PROVE  Spec => []CoreOnBuffer
<1>1. Init => CoreInv
  BY DEF Init, CoreInv
<1>2. HeldInv /\ TypeOK /\ CoreInv /\ [Next]_vars => CoreInv'
  BY CoreStep
<1>3. ASSUME HeldInv, CoreInv, ~exposed, core
      PROVE  Holding("dma") /\ Holding("clk_lp") /\ Holding("clk_vpu")
  BY <1>3, UsableHolds DEF CoreInv, Usable, Kinds, Platform
<1>4. HeldInv /\ CoreInv => CoreOnBuffer
  BY <1>3 DEF CoreOnBuffer, Holding
<1> QED BY <1>1, <1>2, <1>4, HeldAlways, LifecycleTypes, PTL DEF Spec

-----------------------------------------------------------------------------
(* Probes without a fault.                                                 *)

LEMMA FaultStep ==
  ASSUME ~Twice, HeldInv, TypeOK, FaultInv, [Next]_vars
  PROVE  FaultInv'
<1>1. CASE Acquire
  <2>1. at' = "probe" /\ faults' = faults
    BY <1>1 DEF Acquire
  <2>2. step' = "end" => Holding("node")'
    <3>1. step \in Kinds /\ nth = 1 /\ step' = AfterCall(step)
      BY <1>1 DEF HeldInv, StepAt, Acquire, GoOn, Again
    <3>2. step' = "end" => step = "node"
      <4>1. Rank(step') = Rank(step) + 1 /\ Rank("end") = 12
        BY <3>1, CallOrder, RankValues
      <4>2. step' = "end" => ~(Rank(step) < 11)
        BY <3>1, <4>1, RankFacts
      <4> QED BY <3>1, <4>2, RankFacts
    <3> QED BY <1>1, <3>1, <3>2 DEF Acquire, Call, Holding
  <2> QED BY <2>1, <2>2 DEF FaultInv
<1>2. CASE AcquireFails
  <2>1. Possible
    <3>1. PICK n \in 0 .. 11 : Extent(n) /\ DepthAt(n)
      BY DEF HeldInv
    <3>2. step = "class" => ~Holding("class")
      BY <1>2, <3>1, RankValues DEF AcquireFails, DepthAt, Extent, Kinds, Registration
    <3> QED BY <3>2 DEF Possible, ClassTaken, Holding, HeldInv
  <2>2. faults' = faults + 1 /\ faults \in Nat
    BY <1>2, <2>1 DEF AcquireFails, TypeOK
  <2> QED BY <2>2 DEF FaultInv
<1>3. CASE Probe \/ Unload \/ UnbindDevice
  BY <1>3 DEF Probe, Unload, UnbindDevice, Remove, FaultInv
<1>4. CASE ProbeDone
  BY <1>4 DEF ProbeDone, FaultInv, Holding
<1>5. CASE Release
  BY <1>5 DEF Release, FaultInv
<1>6. CASE Released
  BY <1>6 DEF Released, FaultInv
<1>7. CASE UNCHANGED driverVars
  BY <1>7 DEF driverVars, FaultInv, Holding
<1> QED BY <1>1, <1>2, <1>3, <1>4, <1>5, <1>6, <1>7, BesideDriver DEF Next, Driver, vars

(* A probe unwinds only after a call of it has failed by itself, and ends  *)
(* with everything acquired if none has.                                   *)
THEOREM FaultlessBinds ==
  ASSUME ~Twice
  PROVE  Spec => []FaultlessProbeBinds
<1>1. Init => FaultInv
  BY DEF Init, FaultInv
<1>2. HeldInv /\ TypeOK /\ FaultInv /\ [Next]_vars => FaultInv'
  BY FaultStep
<1>3. HeldInv /\ FaultInv => FaultlessProbeBinds
  <2>1. ASSUME HeldInv, FaultInv, at = "bound", faults = 0 PROVE Kinds \X {1} \subseteq held
    <3>1. \A k \in Kinds : Holding(k)
      BY <2>1, UsableHolds DEF FaultInv, Usable
    <3> QED BY <3>1 DEF Holding
  <2> QED BY <2>1 DEF FaultlessProbeBinds, FaultInv
<1> QED BY <1>1, <1>2, <1>3, HeldAlways, LifecycleTypes, PTL DEF Spec

-----------------------------------------------------------------------------
(* The driver that registers its character device twice                    *)
(* (src/manual-unicam-driver.c).  Its probe gets as far as the class of    *)
(* the second registration, whose name the first has taken.                *)

TwiceInv ==
  /\ at \in {"absent", "probe", "undo", "devm"}
  /\ at = "probe" => step # "end" /\ (nth = 2 => step \in {"region", "cdev", "class"})
  /\ at = "probe" /\ (nth = 2 \/ step = "node") => ClassTaken
  /\ at = "undo" => step # "class"
  /\ <<"class", 2>> \notin held
  /\ at \in {"undo", "devm", "absent"} /\ probes > 0 /\ faults = 0 => ClassTaken

(* A class stays taken over a new probe, and over every other step that    *)
(* lets go of no class.                                                    *)
LEMMA ClassOverProbe ==
  ASSUME Probe, ClassTaken
  PROVE  ClassTaken'
<1>1. PICK n \in Numbers : <<"class", n>> \in held
  BY DEF ClassTaken
<1>2. <<"class", Earlier>> \in held'
  BY <1>1 DEF Probe
<1> QED BY <1>2 DEF ClassTaken, Numbers

LEMMA ClassKept ==
  ASSUME ClassTaken, \A n \in Numbers : <<"class", n>> \in held => <<"class", n>> \in held'
  PROVE  ClassTaken'
BY DEF ClassTaken

LEMMA TwiceStep ==
  ASSUME Twice, TypeOK, Position, TwiceInv, [Next]_vars
  PROVE  TwiceInv' /\ (ClassTaken => ClassTaken')
<1>0. nth \in {1, 2} /\ faults \in Nat
  BY DEF TypeOK
<1>1. CASE Probe
  <2>1. <<"class", 2>> \notin held' /\ at' = "probe" /\ step' = "mem" /\ nth' = 1
    BY <1>1 DEF Probe, Earlier
  <2> QED BY <1>1, <2>1, ClassOverProbe DEF TwiceInv
<1>2. CASE Acquire
  <2>1. /\ at = "probe" /\ at' = "probe" /\ step \in Kinds
        /\ held' = held \cup {<<step, nth>>} /\ GoOn /\ Possible
    BY <1>2 DEF Acquire, Call, Position
  <2>2. step # "node" \/ nth = 1
    BY <1>0, <2>1 DEF TwiceInv
  <2>3. ~(step = "class" /\ nth = 2)
    BY <2>1 DEF TwiceInv, Possible
  <2>6. ClassTaken => ClassTaken'
    BY <2>1, ClassKept
  <2>7. step = "class" => ClassTaken'
    <3>1. step = "class" => <<"class", 1>> \in held'
      BY <1>0, <2>1, <2>3
    <3> QED BY <3>1 DEF ClassTaken, Numbers
  <2>8. <<"class", 2>> \notin held'
    BY <2>1, <2>3 DEF TwiceInv
  <2>4. CASE step = "node"
    <3>1. step' = "region" /\ nth' = 2
      BY <2>1, <2>2, <2>4 DEF GoOn, Again
    <3> QED BY <2>1, <2>4, <2>6, <2>8, <3>1 DEF TwiceInv
  <2>5. CASE step # "node"
    <3>1. step' = AfterCall(step) /\ nth' = nth
      BY <2>1, <2>5 DEF GoOn, Again
    <3>2. /\ step' # "end"
          /\ step' = "node" => step = "class"
          /\ step \in {"region", "cdev"} => step' \in {"cdev", "class"}
      BY <2>1, <2>5, <3>1, CallValues DEF Kinds, Devm, Platform, Registration
    <3>3. nth = 2 => step' \in {"cdev", "class"}
      BY <2>1, <2>3, <3>2 DEF TwiceInv
    <3> QED BY <1>0, <2>1, <2>6, <2>7, <2>8, <3>1, <3>2, <3>3 DEF TwiceInv
  <2> QED BY <2>4, <2>5
<1>3. CASE AcquireFails
  <2>1. /\ at = "probe" /\ step \in Kinds /\ probes' = probes
        /\ (~Possible /\ faults' = faults) \/ faults' = faults + 1
    BY <1>3 DEF AcquireFails, Position
  <2>4. <<"class", 2>> \notin held' /\ (ClassTaken => ClassTaken')
    <3>1. \A n \in Numbers : <<"class", n>> \in held' <=> <<"class", n>> \in held
      BY <1>3 DEF AcquireFails
    <3> QED BY <3>1, ClassKept DEF TwiceInv, Numbers
  <2>2. CASE step = "node"
    <3>1. nth = 1
      BY <1>0, <2>1, <2>2 DEF TwiceInv
    <3>2. at' = "probe" /\ step' = "region" /\ nth' = 2
      BY <1>3, <2>1, <2>2, <3>1 DEF AcquireFails, Noticed, Call, GoOn, Again
    <3> QED BY <2>1, <2>2, <2>4, <3>2 DEF TwiceInv
  <2>3. CASE step # "node"
    <3>1. at' = "undo" /\ step' = OnError(step, nth)
      BY <1>3, <2>3 DEF AcquireFails, Noticed, Call
    <3>2. step' # "class"
      BY <2>1, <2>3, <3>1 DEF OnError, Kinds, Devm, Platform, Registration
    <3>3. faults' = 0 => ClassTaken'
      BY <1>0, <2>1, <2>4 DEF Possible
    <3> QED BY <2>1, <2>4, <3>1, <3>2, <3>3 DEF TwiceInv
  <2> QED BY <2>2, <2>3
<1>4. CASE Release
  <2>1. /\ UNCHANGED <<at, probes, faults>> /\ at \in {"undo", "devm"} /\ step # "end"
        /\ held' = held \ {Named(step)}
    BY <1>4 DEF Release, TwiceInv
  <2>2. \A n \in Numbers : Named(step) # <<"class", n>>
    <3>1. step \in Devm \cup Platform \cup {"region", "cdev", "region_again"}
      BY <2>1 DEF TwiceInv, Position
    <3> QED BY <3>1, NamedIs DEF Devm, Platform, Registration
  <2>3. at = "undo" => step' # "class"
    <3>1. at = "undo" => step' = AfterUndo(step)
      BY <1>4 DEF Release
    <3> QED BY <2>1, <3>1, UndoTo DEF Position, Platform
  <2>4. ClassTaken => ClassTaken'
    BY <2>1, <2>2, ClassKept
  <2> QED BY <2>1, <2>3, <2>4 DEF TwiceInv
<1>5. CASE ProbeDone \/ Unload \/ UnbindDevice
  BY <1>5 DEF ProbeDone, Unload, UnbindDevice, Remove, TwiceInv
<1>6. CASE Released
  BY <1>6 DEF Released, TwiceInv, ClassTaken
<1>7. CASE UNCHANGED driverVars
  BY <1>7 DEF driverVars, TwiceInv, ClassTaken
<1> QED BY <1>1, <1>2, <1>3, <1>4, <1>5, <1>6, <1>7, BesideDriver DEF Next, Driver, vars

LEMMA TwiceAlways ==
  ASSUME Twice
  PROVE  Spec => []TwiceInv
<1>1. Init => TwiceInv
  BY DEF Init, TwiceInv
<1>2. TypeOK /\ Position /\ TwiceInv /\ [Next]_vars => TwiceInv'
  BY TwiceStep
<1> QED BY <1>1, <1>2, LifecycleTypes, DevmAlways, PTL DEF Spec

(* It never binds a device, however often it is probed and whichever calls *)
(* fail (lines 626 to 725 of its file).                                    *)
NeverBinds == at \notin {"bound", "remove"}

(* The second class_create needs a name which the first has taken.         *)
THEOREM TwiceNeverBinds ==
  ASSUME Twice
  PROVE  Spec => []NeverBinds
<1>1. TwiceInv => NeverBinds
  BY DEF TwiceInv, NeverBinds
<1> QED BY <1>1, TwiceAlways, PTL

(* A class that it once created stays for ever: no label names the         *)
(* class of the first registration, so no later probe can create it again. *)
ClassStays == [][ClassTaken => ClassTaken']_vars

(* Only the label err_class destroys a class.  The first device_create never *)
(* jumps there, not returning NULL, and the second is never called.        *)
THEOREM TwiceKeepsClass ==
  ASSUME Twice
  PROVE  Spec => ClassStays
<1>1. TypeOK /\ Position /\ TwiceInv /\ [Next]_vars
        => [ClassTaken => ClassTaken']_vars
  BY TwiceStep
<1> QED BY <1>1, LifecycleTypes, DevmAlways, TwiceAlways, PTL DEF Spec, ClassStays

(* What the first probe leaves behind when no call of it fails by itself.  *)
FirstProbe ==
  /\ probes = 0 => at = "absent" /\ held = {}
  /\ at # "absent" => probes > 0
  /\ probes = 1 /\ faults = 0 =>
       /\ at # "probe" \/ step # "mem" => device = 1
       /\ at = "probe" /\ nth = 1 /\ step # "node" => ~ClassTaken
       /\ at = "probe" /\ nth = 1 /\ step \in {"class", "node"} => Holding("cdev")
       /\ at # "probe" \/ nth = 2 => Holding("cdev") /\ Holding("node")
       /\ at = "undo" \/ (at = "probe" /\ nth = 2 /\ step = "class") => field["cdev"] = 2

LEMMA FirstProbeStep ==
  ASSUME Twice, TypeOK, Position, TwiceInv, FirstProbe, [Next]_vars
  PROVE  FirstProbe'
<1>0. probes \in Nat /\ faults \in Nat /\ nth \in {1, 2} /\ field \in [Registration -> {0, 1, 2}]
  BY DEF TypeOK
<1>1. CASE Probe
  <2>1. probes' = probes + 1 /\ at' = "probe" /\ step' = "mem" /\ nth' = 1
    BY <1>1 DEF Probe
  <2>2. probes = 0 => ~ClassTaken'
    BY <1>1 DEF Probe, FirstProbe, ClassTaken
  <2> QED BY <1>0, <2>1, <2>2 DEF FirstProbe
<1>2. CASE Acquire
  <2>1. /\ at = "probe" /\ at' = "probe" /\ step \in Kinds /\ UNCHANGED <<probes, faults>>
        /\ held' = held \cup {<<step, nth>>} /\ GoOn /\ Possible
        /\ device' = IF step = "mem" THEN probes ELSE device
        /\ field' = Written(TRUE)
    BY <1>2 DEF Acquire, Call, Position
  <2>2. (step = "node" => nth = 1) /\ ~(step = "class" /\ nth = 2)
    BY <1>0, <2>1 DEF TwiceInv, Possible
  <2>3. /\ step = "node" => step' = "region" /\ nth' = 2
        /\ step # "node" => step' = AfterCall(step) /\ nth' = nth
    BY <2>1, <2>2 DEF GoOn, Again
  <2>4. /\ step' = "node" => step = "class"
        /\ step' = "class" => step = "cdev"
        /\ step' # "mem"
    BY <2>1, <2>3, CallValues DEF Kinds, Devm, Platform, Registration
  <2>5. step = "cdev" => field'["cdev"] = nth
    BY <1>0, <2>1 DEF Written, Registration
  <2>6. step = "class" => step' = "node"
    BY <2>3, CallValues
  <2>9. step # "class" => (ClassTaken' <=> ClassTaken)
    <3>1. \A n \in Numbers : step # "class" => (<<"class", n>> \in held' <=> <<"class", n>> \in held)
      BY <2>1
    <3> QED BY <3>1 DEF ClassTaken
  <2>7. probes' > 0 /\ probes' # 0
    BY <1>0, <2>1 DEF FirstProbe
  <2>8. ASSUME probes = 1, faults = 0
        PROVE  /\ device' = 1
               /\ nth' = 1 /\ step' # "node" => ~ClassTaken'
               /\ nth' = 1 /\ step' \in {"class", "node"} => Holding("cdev")'
               /\ nth' = 2 => Holding("cdev")' /\ Holding("node")'
               /\ nth' = 2 /\ step' = "class" => field'["cdev"] = 2
    <3>1. CASE step = "node"
      BY <1>0, <2>1, <2>3, <2>8, <3>1 DEF FirstProbe, Holding
    <3>2. CASE step # "node"
      <4>1. device' = 1 /\ nth' = nth
        BY <2>1, <2>3, <2>8, <3>2 DEF FirstProbe
      <4>2. nth = 1 /\ step' # "node" => ~ClassTaken'
        BY <2>1, <2>6, <2>8, <2>9, <3>2 DEF FirstProbe
      <4>3. nth = 1 /\ step' \in {"class", "node"} => Holding("cdev")'
        BY <2>1, <2>4, <2>8 DEF FirstProbe, Holding
      <4>4. nth = 2 => Holding("cdev")' /\ Holding("node")'
        BY <2>1, <2>8 DEF FirstProbe, Holding
      <4>5. nth = 2 /\ step' = "class" => field'["cdev"] = 2
        BY <2>4, <2>5
      <4> QED BY <4>1, <4>2, <4>3, <4>4, <4>5
    <3> QED BY <3>1, <3>2
  <2> QED BY <2>1, <2>7, <2>8 DEF FirstProbe
<1>3. CASE AcquireFails
  <2>1. /\ at = "probe" /\ step \in Kinds /\ UNCHANGED <<probes, device>>
        /\ (~Possible /\ faults' = faults) \/ faults' = faults + 1
        /\ field' = Written(FALSE)
    BY <1>3 DEF AcquireFails, Position
  <2>0. probes' > 0
    BY <1>0, <2>1 DEF FirstProbe
  <2> SUFFICES ASSUME probes' = 1, faults' = 0
               PROVE  /\ at' # "probe" \/ step' # "mem" => device' = 1
                      /\ at' # "probe" /\ device' = 1 /\ Holding("cdev")' /\ Holding("node")'
                      /\ field'["cdev"] = 2
    BY <1>0, <2>0 DEF FirstProbe
  <2>5. probes = 1 /\ faults = 0 /\ ~Possible
    BY <1>0, <2>1
  <2>2. step = "class" /\ ClassTaken /\ held' = held
    BY <1>3, <2>5 DEF Possible, AcquireFails
  <2>3. nth = 2 /\ field["cdev"] = 2 /\ Holding("cdev") /\ Holding("node") /\ device = 1
    BY <1>0, <2>1, <2>2, <2>5 DEF FirstProbe
  <2>4. at' = "undo" /\ field'["cdev"] = 2
    BY <1>0, <1>3, <2>1, <2>2, <2>3 DEF AcquireFails, Noticed, Call, Written, Registration
  <2> QED BY <2>1, <2>2, <2>3, <2>4 DEF Holding
<1>4. CASE Release
  <2>1. /\ UNCHANGED <<at, probes, faults, field>> /\ at \in {"undo", "devm"} /\ step # "end"
        /\ held' = held \ {Named(step)}
    BY <1>4 DEF Release, TwiceInv
  <2>2. device' = device
    BY <1>4, <2>1 DEF Release, Position, Devm, Platform
  <2>3. probes = 1 /\ faults = 0 => Named(step) \notin {<<"cdev", 1>>, <<"node", 1>>}
    <3>1. step \in Devm \cup Platform \cup {"region", "cdev", "region_again"}
      BY <2>1 DEF TwiceInv, Position
    <3>2. probes = 1 /\ faults = 0 /\ step = "cdev" => field["cdev"] = 2
      BY <2>1 DEF FirstProbe, Position, Devm
    <3>3. step = "cdev" => Named(step) = <<"cdev", field["cdev"]>>
      BY NamedIs DEF Registration
    <3>4. step # "cdev" => Named(step) \notin {<<"cdev", 1>>, <<"node", 1>>}
      BY <3>1, NamedIs DEF Devm, Platform, Registration
    <3> QED BY <3>2, <3>3, <3>4
  <2> QED BY <2>1, <2>2, <2>3 DEF FirstProbe, Holding
<1>5. CASE ProbeDone \/ Unload \/ UnbindDevice
  BY <1>5 DEF ProbeDone, Unload, UnbindDevice, Remove, TwiceInv
<1>6. CASE Released
  BY <1>6 DEF Released, FirstProbe, Holding
<1>7. CASE UNCHANGED driverVars
  BY <1>7 DEF driverVars, FirstProbe, ClassTaken, Holding
<1> QED BY <1>1, <1>2, <1>3, <1>4, <1>5, <1>6, <1>7, BesideDriver DEF Next, Driver, vars

(* The first probe, if no call of it fails by itself, ends without a bound *)
(* device and yet leaves user space one to open: the first registration is *)
(* still there, and g_unicam_dev still names the structure that has been   *)
(* freed (lines 506 and 626 to 654 of its file against the labels 731 to   *)
(* 746).                                                                   *)
Stranded ==
  at = "absent" /\ probes = 1 /\ faults = 0 =>
    Reachable /\ <<"mem", 1>> \notin held /\ device = 1

(* The labels release the second region and the second cdev and nothing of *)
(* the first registration, whose names are lost (field).                   *)
THEOREM TwiceStrands ==
  ASSUME Twice
  PROVE  Spec => []Stranded
<1>1. Init => FirstProbe
  BY DEF Init, FirstProbe
<1>2. TypeOK /\ Position /\ TwiceInv /\ FirstProbe /\ [Next]_vars => FirstProbe'
  BY FirstProbeStep
<1>3. FirstProbe /\ DevmInv => Stranded
  BY DEF FirstProbe, DevmInv, Devm, Stranded, Reachable, Numbers, Holding
<1> QED BY <1>1, <1>2, <1>3, LifecycleTypes, DevmAlways, TwiceAlways, PTL DEF Spec
=============================================================================
