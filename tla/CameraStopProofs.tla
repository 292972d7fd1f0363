------------------------- MODULE CameraStopProofs -------------------------
(***************************************************************************)
(* Proofs about stop_streaming and REQBUFS in CameraBuffers, for any       *)
(* number of buffers, threads and frames: as long as no buffer has been    *)
(* queued again, the driver's list is a proper list of the buffers it owns *)
(* (and perhaps of some it has finished with), so the walk of              *)
(* stop_streaming unlists and gives back every one of them and no buffer   *)
(* is on the list when its memory is freed.                                *)
(*                                                                         *)
(* A memory is a proper list of the sequence s when next and prev lead     *)
(* from the head through s and back.                                       *)
(***************************************************************************)
EXTENDS CameraBuffersProofs

NodeAt(s, i) == IF i \in 1 .. Len(s) THEN s[i] ELSE Head0

Pointers == Buffers \cup {Head0, Poison}

IsChain(s, m) ==
  /\ s \in Seq(Buffers)
  /\ \A i, j \in 1 .. Len(s) : s[i] = s[j] => i = j
  /\ m \in [Buffers \cup {Head0} -> [next : Pointers, prev : Pointers]]
  /\ \A i \in 0 .. Len(s) : m[NodeAt(s, i)].next = NodeAt(s, i + 1)
  /\ \A i \in 1 .. Len(s) + 1 : m[NodeAt(s, i)].prev = NodeAt(s, i - 1)
  /\ \A b \in Buffers : (\A i \in 1 .. Len(s) : s[i] # b) =>
       m[b] = [next |-> Poison, prev |-> Poison]

-----------------------------------------------------------------------------
LEMMA EmptyIsChain == IsChain(<<>>, EmptyList(Buffers))
BY NamesAreApart DEF IsChain, EmptyList, NodeAt, Pointers, Head0, Poison

(* A list whose head points at itself has nobody else on it.               *)
LEMMA ChainEmpty ==
  ASSUME NEW s, NEW m, IsChain(s, m), m[Head0].next = Head0
  PROVE  s = <<>> /\ m = EmptyList(Buffers)
<1>1. Len(s) \in Nat /\ s \in Seq(Buffers)
  BY DEF IsChain
<1>2. m[NodeAt(s, 0)].next = NodeAt(s, 1) /\ NodeAt(s, 0) = Head0
  BY <1>1 DEF IsChain, NodeAt
<1>3. Len(s) = 0
  <2>1. Len(s) # 0 => s[1] \in Buffers /\ NodeAt(s, 1) = s[1]
    BY <1>1 DEF NodeAt
  <2> QED BY <1>1, <1>2, <2>1, NamesAreApart
<1>4. s = <<>>
  BY <1>1, <1>3
<1>5. m[Head0].prev = Head0
  <2>1. m[NodeAt(s, 1)].prev = NodeAt(s, 0) /\ NodeAt(s, 1) = Head0
    BY <1>1, <1>3 DEF IsChain, NodeAt
  <2> QED BY <1>2, <2>1
<1>6. \A b \in Buffers : m[b] = [next |-> Poison, prev |-> Poison]
  BY <1>3 DEF IsChain
<1>7. m \in [Buffers \cup {Head0} -> [next : Pointers, prev : Pointers]]
  BY DEF IsChain
<1>8. m[Head0] = [next |-> Head0, prev |-> Head0]
  BY <1>5, <1>7
<1> QED BY <1>4, <1>6, <1>7, <1>8 DEF EmptyList

(* A buffer is on the list if and only if it is not poisoned.              *)
LEMMA PoisonedIsOff ==
  ASSUME NEW s, NEW m, IsChain(s, m), NEW b \in Buffers, m[b].next = Poison
  PROVE  \A i \in 1 .. Len(s) : s[i] # b
<1> SUFFICES ASSUME NEW i \in 1 .. Len(s), s[i] = b PROVE FALSE
  OBVIOUS
<1>1. Len(s) \in Nat /\ \A j \in 1 .. Len(s) : s[j] \in Buffers
  BY DEF IsChain
<1>2. NodeAt(s, i) = b /\ m[b].next = NodeAt(s, i + 1)
  BY <1>1 DEF IsChain, NodeAt
<1>3. NodeAt(s, i + 1) \in Buffers \cup {Head0}
  BY <1>1 DEF NodeAt
<1> QED BY <1>2, <1>3, NamesAreApart DEF Head0, Poison

LEMMA AddedIsChain ==
  ASSUME NEW s, NEW m, IsChain(s, m), NEW b \in Buffers,
         \A i \in 1 .. Len(s) : s[i] # b
  PROVE  IsChain(Append(s, b), AddTail(m, b))
<1> DEFINE n == Len(s)
           tail == NodeAt(s, n)
           t == Append(s, b)
           r == AddTail(m, b)
<1>1. /\ n \in Nat /\ s \in Seq(Buffers)
      /\ \A i \in 1 .. n : s[i] \in Buffers
      /\ b # Head0
      /\ m \in [Buffers \cup {Head0} -> [next : Pointers, prev : Pointers]]
  BY NamesAreApart DEF IsChain
<1>2. /\ t \in Seq(Buffers) /\ Len(t) = n + 1 /\ t[n + 1] = b
      /\ \A i \in 1 .. n : t[i] = s[i]
  BY <1>1
<1>3. /\ NodeAt(t, n + 1) = b /\ NodeAt(t, n + 2) = Head0 /\ NodeAt(t, 0) = Head0
      /\ \A i \in 0 .. n : NodeAt(t, i) = NodeAt(s, i)
  BY <1>1, <1>2 DEF NodeAt
<1>4. \A i \in 0 .. n : NodeAt(s, i) \in Buffers \cup {Head0} /\ NodeAt(s, i) # b
  BY <1>1 DEF NodeAt
<1>5. /\ NodeAt(s, n + 1) = Head0 /\ m[Head0].prev = tail
      /\ tail \in Buffers \cup {Head0} /\ tail # b
  <2>1. NodeAt(s, n + 1) = Head0
    BY <1>1 DEF NodeAt
  <2>2. m[NodeAt(s, n + 1)].prev = NodeAt(s, (n + 1) - 1)
    BY <1>1 DEF IsChain
  <2> QED BY <1>1, <1>4, <2>1, <2>2
<1>6. /\ r \in [Buffers \cup {Head0} -> [next : Pointers, prev : Pointers]]
      /\ r[b] = [next |-> Head0, prev |-> tail]
      /\ r[Head0].prev = b /\ r[tail].next = b
      /\ \A x \in Buffers \cup {Head0} : x # b /\ x # tail => r[x].next = m[x].next
      /\ \A x \in Buffers \cup {Head0} : x # b /\ x # Head0 => r[x].prev = m[x].prev
      /\ \A x \in Buffers : x # b /\ x # tail => r[x] = m[x]
  <2> DEFINE linked == [m EXCEPT ![Head0].prev = b, ![b] = [next |-> Head0, prev |-> tail]]
  <2>1. /\ b \in Pointers /\ Head0 \in Pointers /\ tail \in Pointers
        /\ b \in Buffers \cup {Head0} /\ Head0 \in Buffers \cup {Head0}
    BY <1>5 DEF Pointers
  <2>2. /\ linked \in [Buffers \cup {Head0} -> [next : Pointers, prev : Pointers]]
        /\ linked[b] = [next |-> Head0, prev |-> tail]
        /\ linked[Head0].prev = b /\ linked[Head0].next = m[Head0].next
        /\ \A x \in Buffers : x # b => linked[x] = m[x]
    <3> DEFINE Cell == [next : Pointers, prev : Pointers]
               first == [next |-> m[Head0].next, prev |-> b]
               added == [next |-> Head0, prev |-> tail]
    <3>1. m[Head0] \in Cell /\ first \in Cell /\ added \in Cell
      BY <1>1, <2>1
    <3>2. [m[Head0] EXCEPT !.prev = b] = first
      BY <3>1
    <3>3. linked = [m EXCEPT ![Head0] = first, ![b] = added]
      BY <3>2
    <3>4. first.next = m[Head0].next /\ first.prev = b
      OBVIOUS
    <3> HIDE DEF linked, first, Cell, added
    <3>5. /\ linked \in [Buffers \cup {Head0} -> Cell]
          /\ linked[b] = added /\ linked[Head0] = first
          /\ \A x \in Buffers : x # b => linked[x] = m[x]
      BY <1>1, <2>1, <3>1, <3>3, NamesAreApart DEF Cell
    <3> QED BY <3>4, <3>5 DEF Cell, added
  <2>3. r = [linked EXCEPT ![tail].next = b]
    BY <1>5 DEF AddTail
  <2> HIDE DEF linked, r
  <2>4. /\ r \in [Buffers \cup {Head0} -> [next : Pointers, prev : Pointers]]
        /\ r[tail].next = b /\ r[tail].prev = linked[tail].prev
        /\ \A x \in Buffers \cup {Head0} : x # tail => r[x] = linked[x]
    BY <1>5, <2>1, <2>2, <2>3
  <2>5. r[b] = [next |-> Head0, prev |-> tail] /\ r[Head0].prev = b
    BY <1>5, <2>2, <2>4
  <2>6. \A x \in Buffers \cup {Head0} : x # b /\ x # tail => r[x].next = m[x].next
    BY <2>2, <2>4
  <2>7. \A x \in Buffers \cup {Head0} : x # b /\ x # Head0 => r[x].prev = m[x].prev
    BY <2>2, <2>4
  <2>8. \A x \in Buffers : x # b /\ x # tail => r[x] = m[x]
    BY <2>2, <2>4
  <2> QED BY <2>4, <2>5, <2>6, <2>7, <2>8
<1> HIDE DEF r, t, tail
<1>7. \A i, j \in 1 .. n : s[i] = s[j] => i = j
  BY DEF IsChain
<1>8. \A i, j \in 1 .. n + 1 : t[i] = t[j] => i = j
  BY <1>1, <1>2, <1>7
<1>9. ASSUME NEW i \in 0 .. n + 1
      PROVE  r[NodeAt(t, i)].next = NodeAt(t, i + 1)
  <2>1. CASE i = n + 1
    BY <1>1, <1>3, <1>6, <2>1
  <2>2. CASE i = n
    BY <1>1, <1>3, <1>6, <2>2 DEF tail
  <2>3. CASE i < n
    <3>1. NodeAt(s, i) # tail
      BY <1>1, <1>7, <2>3, NamesAreApart DEF NodeAt, tail
    <3>2. i + 1 \in 0 .. n /\ i \in 0 .. n
      BY <1>1, <2>3
    <3>3. m[NodeAt(s, i)].next = NodeAt(s, i + 1)
      BY <3>2 DEF IsChain
    <3> QED BY <1>3, <1>4, <1>6, <3>1, <3>2, <3>3
  <2> QED BY <1>1, <2>1, <2>2, <2>3
<1>10. ASSUME NEW i \in 1 .. n + 2
       PROVE  r[NodeAt(t, i)].prev = NodeAt(t, i - 1)
  <2>1. CASE i = n + 2
    BY <1>1, <1>3, <1>6, <2>1
  <2>2. CASE i = n + 1
    BY <1>1, <1>3, <1>6, <2>2 DEF tail
  <2>3. CASE i <= n
    <3>1. NodeAt(s, i) \in Buffers /\ NodeAt(s, i) # Head0
      BY <1>1, <2>3, NamesAreApart DEF NodeAt
    <3>2. i - 1 \in 0 .. n /\ i \in 0 .. n /\ i \in 1 .. n + 1
      BY <1>1, <2>3
    <3>3. m[NodeAt(s, i)].prev = NodeAt(s, i - 1)
      BY <3>2 DEF IsChain
    <3> QED BY <1>3, <1>4, <1>6, <3>1, <3>2, <3>3
  <2>4. i = n + 2 \/ i = n + 1 \/ i <= n
    BY <1>1
  <2> QED BY <2>1, <2>2, <2>3, <2>4
<1>11. ASSUME NEW x \in Buffers, \A i \in 1 .. n + 1 : t[i] # x
       PROVE  r[x] = [next |-> Poison, prev |-> Poison]
  <2>1. x # b /\ \A i \in 1 .. n : s[i] # x
    BY <1>1, <1>2, <1>11
  <2>2. x # tail
    BY <1>1, <2>1, NamesAreApart DEF tail, NodeAt
  <2> QED BY <1>6, <2>1, <2>2 DEF IsChain
<1>12. Len(t) + 1 = n + 2
  BY <1>1, <1>2
<1>13. IsChain(t, r)
  BY <1>2, <1>6, <1>8, <1>9, <1>10, <1>11, <1>12 DEF IsChain
<1> QED BY <1>13 DEF t, r

(* The first buffer is unlisted.                                           *)
LEMMA FirstDeleted ==
  ASSUME NEW s, NEW m, IsChain(s, m), s # <<>>
  PROVE  /\ m[Head0].next = s[1] /\ s[1] \in Buffers
         /\ ~Faults(m, s[1])
         /\ IsChain(Tail(s), Del(m, s[1]))
         /\ Del(m, s[1])[Head0].next = m[s[1]].next
<1> DEFINE n == Len(s)
           b == s[1]
           second == NodeAt(s, 2)
           t == Tail(s)
           r == Del(m, b)
<1>1. /\ n \in Nat /\ n >= 1 /\ s \in Seq(Buffers)
      /\ \A i \in 1 .. n : s[i] \in Buffers
      /\ b \in Buffers /\ b # Head0 /\ b # Poison
      /\ m \in [Buffers \cup {Head0} -> [next : Pointers, prev : Pointers]]
      /\ \A i, j \in 1 .. n : s[i] = s[j] => i = j
  BY NamesAreApart DEF IsChain
<1>2. NodeAt(s, 0) = Head0 /\ NodeAt(s, 1) = b
  BY <1>1 DEF NodeAt
<1>3. m[Head0].next = b /\ m[b].prev = Head0 /\ m[b].next = second
  <2>1. m[NodeAt(s, 0)].next = NodeAt(s, 0 + 1)
    BY <1>1 DEF IsChain
  <2>2. m[NodeAt(s, 1)].prev = NodeAt(s, 1 - 1)
    BY <1>1 DEF IsChain
  <2>3. m[NodeAt(s, 1)].next = NodeAt(s, 1 + 1)
    BY <1>1 DEF IsChain
  <2> QED BY <1>2, <2>1, <2>2, <2>3
<1>4. second \in Buffers \cup {Head0} /\ second # b /\ second # Poison
  BY <1>1, NamesAreApart DEF NodeAt, Head0, Poison
<1>5. /\ t \in Seq(Buffers) /\ Len(t) = n - 1
      /\ \A i \in 1 .. n - 1 : t[i] = s[i + 1]
  BY <1>1, HeadTailProperties
<1>6. NodeAt(t, 0) = Head0 /\ \A i \in 1 .. n : NodeAt(t, i) = NodeAt(s, i + 1)
  BY <1>1, <1>5 DEF NodeAt
<1>7. /\ r \in [Buffers \cup {Head0} -> [next : Pointers, prev : Pointers]]
      /\ r[b] = [next |-> Poison, prev |-> Poison]
      /\ r[Head0].next = second /\ r[second].prev = Head0
      /\ \A x \in Buffers \cup {Head0} : x # b /\ x # Head0 => r[x].next = m[x].next
      /\ \A x \in Buffers \cup {Head0} : x # b /\ x # second => r[x].prev = m[x].prev
      /\ \A x \in Buffers : x # b /\ x # second => r[x] = m[x]
  <2> DEFINE joined == [m EXCEPT ![second].prev = Head0]
  <2>1. Head0 \in Pointers /\ second \in Pointers /\ Poison \in Pointers
    BY <1>4 DEF Pointers
  <2>2. /\ joined \in [Buffers \cup {Head0} -> [next : Pointers, prev : Pointers]]
        /\ joined[second].prev = Head0 /\ joined[second].next = m[second].next
        /\ \A x \in Buffers \cup {Head0} : x # second => joined[x] = m[x]
    BY <1>1, <1>4, <2>1
  <2>3. r = [joined EXCEPT ![Head0].next = second, ![b] = [next |-> Poison, prev |-> Poison]]
    BY <1>3 DEF Del
  <2> HIDE DEF joined, r
  <2>4. /\ r \in [Buffers \cup {Head0} -> [next : Pointers, prev : Pointers]]
        /\ r[b] = [next |-> Poison, prev |-> Poison]
        /\ r[Head0].next = second /\ r[Head0].prev = joined[Head0].prev
        /\ \A x \in Buffers : x # b => r[x] = joined[x]
    <3> DEFINE Cell == [next : Pointers, prev : Pointers]
               first == [next |-> second, prev |-> joined[Head0].prev]
               poisoned == [next |-> Poison, prev |-> Poison]
    <3>1. joined[Head0] \in Cell /\ first \in Cell /\ poisoned \in Cell
      BY <2>1, <2>2
    <3>2. [joined[Head0] EXCEPT !.next = second] = first
      BY <3>1
    <3>3. r = [joined EXCEPT ![Head0] = first, ![b] = poisoned]
      BY <2>3, <3>2
    <3>4. first.next = second /\ first.prev = joined[Head0].prev
      OBVIOUS
    <3> HIDE DEF first, Cell, poisoned
    <3>5. /\ r \in [Buffers \cup {Head0} -> Cell]
          /\ r[b] = poisoned /\ r[Head0] = first
          /\ \A x \in Buffers : x # b => r[x] = joined[x]
      BY <1>1, <2>2, <3>1, <3>3, NamesAreApart DEF Cell
    <3> QED BY <3>4, <3>5 DEF Cell, poisoned
  <2>5. r[second].prev = Head0
    BY <1>4, <2>2, <2>4
  <2>6. \A x \in Buffers \cup {Head0} : x # b /\ x # Head0 => r[x].next = m[x].next
    BY <2>2, <2>4
  <2>7. \A x \in Buffers \cup {Head0} : x # b /\ x # second => r[x].prev = m[x].prev
    BY <2>2, <2>4
  <2>8. \A x \in Buffers : x # b /\ x # second => r[x] = m[x]
    BY <2>2, <2>4
  <2> QED BY <2>4, <2>5, <2>6, <2>7, <2>8
<1>8. ~Faults(m, b)
  BY <1>3, <1>4 DEF Faults, Head0, Poison
<1> HIDE DEF r, t, second
<1>9. \A i, j \in 1 .. n - 1 : t[i] = t[j] => i = j
  BY <1>1, <1>5
<1>10. ASSUME NEW i \in 0 .. n - 1
       PROVE  r[NodeAt(t, i)].next = NodeAt(t, i + 1)
  <2>1. CASE i = 0
    BY <1>1, <1>6, <1>7, <2>1 DEF second
  <2>2. CASE i > 0
    <3>1. i + 1 \in 2 .. n /\ i \in 1 .. n /\ i + 1 \in 1 .. n
      BY <1>1, <2>2
    <3>2. NodeAt(s, i + 1) \in Buffers /\ NodeAt(s, i + 1) # b /\ NodeAt(s, i + 1) # Head0
      BY <1>1, <3>1, NamesAreApart DEF NodeAt
    <3>3. m[NodeAt(s, i + 1)].next = NodeAt(s, (i + 1) + 1)
      <4>1. i + 1 \in 0 .. n
        BY <1>1, <3>1
      <4> QED BY <4>1 DEF IsChain
    <3> QED BY <1>6, <1>7, <3>1, <3>2, <3>3
  <2> QED BY <1>1, <2>1, <2>2
<1>11. ASSUME NEW i \in 1 .. n
       PROVE  r[NodeAt(t, i)].prev = NodeAt(t, i - 1)
  <2>1. CASE i = 1
    BY <1>1, <1>6, <1>7, <2>1 DEF second
  <2>2. CASE i > 1
    <3>1. i + 1 \in 3 .. n + 1 /\ i \in 1 .. n /\ i - 1 \in 1 .. n /\ (i - 1) + 1 = i
      BY <1>1, <2>2
    <3>2. NodeAt(s, i + 1) \in Buffers \cup {Head0} /\ NodeAt(s, i + 1) # b
      BY <1>1, <3>1 DEF NodeAt
    <3>3. NodeAt(s, i + 1) # second
      BY <1>1, <3>1, NamesAreApart DEF NodeAt, second
    <3>4. m[NodeAt(s, i + 1)].prev = NodeAt(s, (i + 1) - 1)
      <4>1. i + 1 \in 1 .. n + 1
        BY <1>1, <3>1
      <4> QED BY <4>1 DEF IsChain
    <3> QED BY <1>6, <1>7, <3>1, <3>2, <3>3, <3>4
  <2> QED BY <1>1, <2>1, <2>2
<1>12. ASSUME NEW x \in Buffers, \A i \in 1 .. n - 1 : t[i] # x
       PROVE  r[x] = [next |-> Poison, prev |-> Poison]
  <2>1. CASE x = b
    BY <1>7, <2>1
  <2>2. CASE x # b
    <3>1. \A i \in 1 .. n : s[i] # x
      <4>1. \A i \in 2 .. n : i - 1 \in 1 .. n - 1 /\ t[i - 1] = s[i]
        BY <1>1, <1>5
      <4> QED BY <1>1, <1>12, <2>2, <4>1
    <3>2. x # second
      BY <1>1, <3>1, NamesAreApart DEF second, NodeAt
    <3> QED BY <1>7, <2>2, <3>1, <3>2 DEF IsChain
  <2> QED BY <2>1, <2>2
<1>13. Len(t) = n - 1 /\ Len(t) + 1 = n
  BY <1>1, <1>5
<1>14. IsChain(t, r)
  BY <1>5, <1>7, <1>9, <1>10, <1>11, <1>12, <1>13 DEF IsChain
<1> QED BY <1>1, <1>3, <1>7, <1>8, <1>14 DEF t, r, second

-----------------------------------------------------------------------------
(* The invariant.  The driver owns only buffers that are on its list, or   *)
(* that are about to be put on it; the list is empty while no stream is    *)
(* on or being started, and when the walk of stop_streaming is over; the   *)
(* walk is always at the first buffer.                                     *)

Phases ==
  /\ on \in BOOLEAN /\ called \in BOOLEAN
  /\ \A t \in Threads :
       /\ pc[t] = "enqueue" => ~on /\ ~called
       /\ pc[t] = "reset_count" => ~on /\ called
       /\ pc[t] \in {"activate", "buf_queue", "walk"} => called
       /\ pc[t] = "buf_queue" => buf[t] \in Buffers
  /\ (\A t \in Threads : pc[t] # "reset_count") => (on <=> called)

OnChain(s, b) == \E i \in 1 .. Len(s) : s[i] = b

Owned(s) ==
  \A b \in Buffers : state[b] = "active" =>
    OnChain(s, b) \/ \E t \in Threads : pc[t] = "buf_queue" /\ buf[t] = b

Used(s) ==
  /\ s # <<>> => called \/ \E t \in Threads : pc[t] = "enqueue"
  /\ (\E t \in Threads : pc[t] = "cancel") => s = <<>>

AtFirst ==
  \A t \in Threads : pc[t] = "walk" =>
    buf[t] = links[Head0].next /\ ahead = links[buf[t]].next

Proper ==
  ~requeued =>
    /\ ~crashed
    /\ \E s \in Seq(Buffers) : IsChain(s, links) /\ Owned(s) /\ Used(s)
    /\ AtFirst

StopInv == IInv /\ Phases /\ Proper

-----------------------------------------------------------------------------
(* Steps of a thread that leave the driver's list alone.                   *)
LEMMA Calm ==
  ASSUME StopInv, NEW t \in Threads, NEW to \in Places,
         pc'[t] = to, \A u \in Threads : u # t => pc'[u] = pc[u] /\ buf'[u] = buf[u],
         \A b \in Buffers : state'[b] = "active" => state[b] = "active",
         UNCHANGED <<links, crashed, requeued, ahead>>,
         pc[t] # "buf_queue", to \notin {"walk", "cancel"},
         called => called', pc[t] = "enqueue" => called' \/ to = "enqueue"
  PROVE  Proper'
<1> SUFFICES ASSUME ~requeued PROVE Proper'
  BY DEF Proper
<1>1. PICK s \in Seq(Buffers) : IsChain(s, links) /\ Owned(s) /\ Used(s)
  BY DEF StopInv, Proper
<1>2. Owned(s)'
  BY <1>1 DEF Owned, OnChain
<1>3. Used(s)'
  BY <1>1 DEF Used
<1>4. AtFirst' /\ ~crashed
  BY DEF StopInv, Proper, AtFirst
<1> QED BY <1>1, <1>2, <1>3, <1>4 DEF Proper

LEMMA CalmSteps ==
  ASSUME StopInv, NEW t \in Threads,
         \/ \E b \in Buffers : QbufCall(t, b)
         \/ StreamOnCall(t) \/ DqbufCall(t)
         \/ SetStreaming(t) \/ ResetCount(t)
         \/ Sleep(t) \/ Wake(t) \/ Take(t) \/ Unlist(t)
  PROVE  Proper'
<1> USE DEF Places
<1>1. t \in DOMAIN pc /\ pc \in [Threads -> Places] /\ buf = [u \in Threads |-> buf[u]]
  BY DEF StopInv, IInv, Locks, Handing
<1>2. ASSUME NEW b \in Buffers, QbufCall(t, b)
      PROVE  Proper'
  <2>1. \A c \in Buffers : state'[c] = "active" => state[c] = "active"
    BY <1>2 DEF QbufCall, StopInv, IInv, Lists
  <2>2. pc[t] = "idle" /\ UNCHANGED <<links, crashed, requeued, ahead, called>>
    BY <1>2 DEF QbufCall, Enter, Goto, devVars, cpuVars, histVars
  <2>3. CASE Enter(t, "activate") /\ buf' = [buf EXCEPT ![t] = b]
    BY <1>1, <2>1, <2>2, <2>3, Calm DEF Enter, Goto
  <2>4. CASE UNCHANGED <<pc, buf>>
    BY <1>1, <2>1, <2>2, <2>4, Calm
  <2> QED BY <1>2, <2>3, <2>4 DEF QbufCall
<1>3. CASE StreamOnCall(t)
  BY <1>1, <1>3, Calm DEF StreamOnCall, Enter, Goto, coreVars, devVars, cpuVars, histVars
<1>4. CASE DqbufCall(t)
  BY <1>1, <1>4, Calm DEF DqbufCall, Enter, Goto, coreVars, devVars, cpuVars, histVars
<1>5. CASE SetStreaming(t)
  BY <1>1, <1>5, Calm DEF SetStreaming, Goto, cpuVars, histVars
<1>6. CASE ResetCount(t)
  BY <1>1, <1>6, Calm DEF ResetCount, Leave, Goto, cpuVars
<1>7. CASE Sleep(t)
  BY <1>1, <1>7, Calm DEF Sleep, Goto, coreVars, devVars, cpuVars, histVars
<1>8. CASE Wake(t)
  <2>1. \E to \in {"dqbuf", "idle"} : Goto(t, "sleep", to)
    BY <1>8 DEF Wake
  <2>2. UNCHANGED <<state, called, buf, links, crashed, requeued, ahead>>
    BY <1>8 DEF Wake, coreVars, devVars, cpuVars, histVars
  <2> QED BY <1>1, <2>1, <2>2, Calm DEF Goto
<1>9. CASE Take(t)
  BY <1>1, <1>9, Calm DEF Take, Goto, devVars, cpuVars
<1>10. CASE Unlist(t)
  <2>1. \A c \in Buffers : state'[c] = "active" => state[c] = "active"
    BY <1>10 DEF Unlist, StopInv, IInv, Lists
  <2> QED BY <1>1, <1>10, <2>1, Calm DEF Unlist, Leave, Goto, devVars, cpuVars, histVars
<1> QED BY <1>2, <1>3, <1>4, <1>5, <1>6, <1>7, <1>8, <1>9, <1>10

LEMMA InterruptProper ==
  ASSUME StopInv, Interrupt
  PROVE  Proper'
<1>1. UNCHANGED <<pc, buf, ahead, links, called, crashed, requeued>>
  BY DEF Interrupt, threadVars, histVars
<1>2. \A b \in Buffers : state'[b] = "active" => state[b] = "active"
  BY DEF Interrupt, Completed, StopInv, IInv, Lists
<1> QED BY <1>1, <1>2 DEF StopInv, Proper, Owned, OnChain, Used, AtFirst

-----------------------------------------------------------------------------
(* A buffer joins the list.                                                *)
LEMMA Joins ==
  ASSUME NEW s \in Seq(Buffers), IsChain(s, links), NEW b \in Buffers, Listed(b), ~requeued'
  PROVE  /\ Append(s, b) \in Seq(Buffers) /\ IsChain(Append(s, b), links')
         /\ OnChain(Append(s, b), b)
         /\ \A c \in Buffers : OnChain(s, c) => OnChain(Append(s, b), c)
<1>1. links' = AddTail(links, b) /\ links[b].next = Poison
  BY DEF Listed
<1>2. IsChain(Append(s, b), links')
  BY <1>1, PoisonedIsOff, AddedIsChain
<1>3. /\ Len(s) \in Nat /\ Len(Append(s, b)) = Len(s) + 1
      /\ Append(s, b)[Len(s) + 1] = b
      /\ \A i \in 1 .. Len(s) : Append(s, b)[i] = s[i]
  OBVIOUS
<1>4. OnChain(Append(s, b), b)
  BY <1>3 DEF OnChain
<1>5. \A c \in Buffers : OnChain(s, c) => OnChain(Append(s, b), c)
  <2> SUFFICES ASSUME NEW i \in 1 .. Len(s)
               PROVE  OnChain(Append(s, b), s[i])
    BY DEF OnChain
  <2>1. i \in 1 .. Len(Append(s, b)) /\ Append(s, b)[i] = s[i]
    BY <1>3
  <2> QED BY <2>1 DEF OnChain
<1> QED BY <1>2, <1>4, <1>5

LEMMA JoinSteps ==
  ASSUME StopInv, NEW t \in Threads, Activate(t) \/ BufQueue(t) \/ Enqueue(t)
  PROVE  Proper'
<1>1. t \in DOMAIN pc /\ pc \in [Threads -> Places] /\ buf = [u \in Threads |-> buf[u]]
  BY DEF StopInv, IInv, Locks, Handing
<1>2. CASE Activate(t)
  <2>1. /\ pc[t] = "activate" /\ pc'[t] = "buf_queue" /\ lock = t
        /\ \A u \in Threads : u # t => pc'[u] = pc[u]
        /\ state' = [state EXCEPT ![buf[t]] = "active"]
        /\ UNCHANGED <<called, buf, ahead, links, crashed, requeued>>
    BY <1>1, <1>2 DEF Activate, Goto, devVars, cpuVars, histVars, StopInv, IInv, Locks
  <2>2. \A b \in Buffers : state'[b] = "active" => state[b] = "active" \/ b = buf[t]
    BY <2>1 DEF StopInv, IInv, Lists
  <2> SUFFICES ASSUME ~requeued PROVE Proper'
    BY <2>1 DEF Proper
  <2>3. PICK s \in Seq(Buffers) : IsChain(s, links) /\ Owned(s) /\ Used(s)
    BY <2>1 DEF StopInv, Proper
  <2>4. Owned(s)'
    BY <2>1, <2>2, <2>3 DEF Owned, OnChain
  <2>5. Used(s)' /\ AtFirst' /\ ~crashed'
    BY <2>1, <2>3 DEF Used, StopInv, Proper, AtFirst
  <2> QED BY <2>1, <2>3, <2>4, <2>5 DEF Proper
<1>3. ASSUME NEW b \in Buffers, Listed(b), lock = t, UNCHANGED <<called, ahead, crashed>>,
             \A u \in Threads : u # t => pc'[u] = pc[u],
             \A c \in Buffers : state'[c] = "active" => state[c] = "active" \/ c = b,
             \/ pc[t] = "enqueue" /\ pc'[t] = "enqueue"
             \/ pc[t] = "buf_queue" /\ pc'[t] = "idle" /\ called /\ b = buf[t]
      PROVE  Proper'
  <2> SUFFICES ASSUME ~requeued' PROVE Proper'
    BY DEF Proper
  <2>1. ~requeued
    BY <1>3 DEF Listed
  <2>2. PICK s \in Seq(Buffers) : IsChain(s, links) /\ Owned(s) /\ Used(s)
    BY <2>1 DEF StopInv, Proper
  <2>3. \A u \in Threads : u # t => pc[u] \in {"idle", "sleep"}
    BY <1>3, OthersWait DEF StopInv
  <2> DEFINE q == Append(s, b)
  <2>4. /\ q \in Seq(Buffers) /\ IsChain(q, links') /\ OnChain(q, b)
        /\ \A c \in Buffers : OnChain(s, c) => OnChain(q, c)
    BY <1>3, <2>2, Joins
  <2> HIDE DEF q
  <2>5. \A c \in Buffers : state'[c] = "active" => OnChain(q, c)
    BY <1>3, <2>2, <2>3, <2>4 DEF Owned
  <2>6. Owned(q)'
    BY <2>5 DEF Owned, OnChain
  <2>7. Used(q)' /\ AtFirst' /\ ~crashed'
    BY <1>3, <2>1, <2>3 DEF Used, AtFirst, StopInv, Proper
  <2> QED BY <2>4, <2>6, <2>7 DEF Proper
<1>4. CASE BufQueue(t)
  <2>1. /\ pc[t] = "buf_queue" /\ pc' = [pc EXCEPT ![t] = "idle"] /\ Listed(buf[t])
        /\ UNCHANGED <<state, called, ahead, crashed>>
    BY <1>4 DEF BufQueue, Leave, Goto, coreVars, cpuVars
  <2>2. called /\ lock = t
    BY <2>1 DEF StopInv, Phases, IInv, Locks
  <2>3. buf[t] \in Buffers
    BY <2>1 DEF StopInv, Phases
  <2> QED BY <1>1, <1>3, <2>1, <2>2, <2>3
<1>5. CASE Enqueue(t)
  <2>1. PICK i \in 1 .. Len(queued) :
          state' = [state EXCEPT ![queued[i]] = "active"] /\ Listed(queued[i])
    BY <1>5 DEF Enqueue
  <2>2. pc[t] = "enqueue" /\ UNCHANGED <<pc, called, ahead, crashed>>
    BY <1>5 DEF Enqueue, threadVars, cpuVars
  <2>3. queued[i] \in Buffers /\ lock = t
    BY <2>2 DEF StopInv, IInv, Lists, Locks
  <2>4. \A c \in Buffers : state'[c] = "active" => state[c] = "active" \/ c = queued[i]
    BY <2>1 DEF StopInv, IInv, Lists
  <2> QED BY <1>3, <2>1, <2>2, <2>3, <2>4
<1> QED BY <1>2, <1>4, <1>5

-----------------------------------------------------------------------------
(* The stream goes off: the walk begins at the first buffer, unlists and   *)
(* gives back the first one at every turn, and ends with an empty list.    *)
LEMMA WalkBegins ==
  ASSUME StopInv, NEW t \in Threads, StreamOffCall(t)
  PROVE  Proper'
<1>1. /\ t \in DOMAIN pc /\ pc \in [Threads -> Places]
      /\ buf = [u \in Threads |-> buf[u]]
  BY DEF StopInv, IInv, Locks, Handing
<1>2. lock = Free /\ UNCHANGED <<state, called, links, crashed, requeued>>
  BY DEF StreamOffCall, Enter, coreVars, cpuVars, histVars
<1>3. \A u \in Threads : u # t => pc[u] \in {"idle", "sleep"}
  BY <1>2, OthersWait DEF StopInv
<1> SUFFICES ASSUME ~requeued PROVE Proper'
  BY <1>2 DEF Proper
<1>4. PICK s \in Seq(Buffers) : IsChain(s, links) /\ Owned(s) /\ Used(s)
  BY DEF StopInv, Proper
<1>5. PICK to \in {"walk", "cancel"} :
        /\ Enter(t, to) /\ (to = "cancel" => ~called)
        /\ to = "walk" => /\ buf' = [buf EXCEPT ![t] = links[Head0].next]
                         /\ ahead' = links[links[Head0].next].next
  BY DEF StreamOffCall
<1>6. pc[t] = "idle" /\ pc'[t] = to /\ \A u \in Threads : u # t => pc'[u] = pc[u]
  BY <1>1, <1>5 DEF Enter, Goto
<1>7. Owned(s)'
  BY <1>2, <1>3, <1>4, <1>6 DEF Owned, OnChain
<1>8. Used(s)'
  BY <1>2, <1>3, <1>4, <1>5, <1>6 DEF Used
<1>9. AtFirst'
  <2>1. \A u \in Threads : pc'[u] = "walk" => u = t /\ to = "walk"
    BY <1>3, <1>6
  <2>2. to = "walk" => buf'[t] = links[Head0].next /\ ahead' = links[buf'[t]].next
    BY <1>1, <1>5
  <2> QED BY <1>2, <2>1, <2>2 DEF AtFirst
<1> QED BY <1>2, <1>4, <1>7, <1>8, <1>9 DEF Proper, StopInv

LEMMA WalkProper ==
  ASSUME StopInv, NEW t \in Threads, Walk(t)
  PROVE  Proper'
<1>1. /\ pc[t] = "walk" /\ buf[t] # Head0
      /\ UNCHANGED <<called, pc, requeued>>
  BY DEF Walk, histVars
<1>2. \A u \in Threads : u # t => pc[u] \in {"idle", "sleep"}
  BY <1>1, OthersWait DEF StopInv, IInv, Locks
<1> SUFFICES ASSUME ~requeued PROVE Proper'
  BY <1>1 DEF Proper
<1>3. PICK s \in Seq(Buffers) : IsChain(s, links) /\ Owned(s) /\ Used(s)
  BY DEF StopInv, Proper
<1>4. buf[t] = links[Head0].next /\ ahead = links[buf[t]].next /\ ~crashed
  BY <1>1 DEF StopInv, Proper, AtFirst
<1>5. s # <<>>
  <2> SUFFICES ASSUME s = <<>> PROVE FALSE
    OBVIOUS
  <2>1. links[NodeAt(s, 0)].next = NodeAt(s, 1) /\ NodeAt(s, 0) = Head0 /\ NodeAt(s, 1) = Head0
    BY <1>3 DEF IsChain, NodeAt
  <2> QED BY <1>1, <1>4, <2>1
<1>6. /\ buf[t] = s[1] /\ s[1] \in Buffers /\ ~Faults(links, s[1])
      /\ IsChain(Tail(s), Del(links, s[1]))
      /\ Del(links, s[1])[Head0].next = links[s[1]].next
  BY <1>3, <1>4, <1>5, FirstDeleted
<1>7. /\ links' = Del(links, s[1]) /\ crashed' = crashed
      /\ Completed(s[1], "error")
      /\ buf' = [buf EXCEPT ![t] = ahead] /\ ahead' = links'[ahead].next
  BY <1>6 DEF Walk, Unlisted, GivenBack, Following
<1>8. \A c \in Buffers : state'[c] = "active" => state[c] = "active" /\ c # s[1]
  BY <1>6, <1>7 DEF Completed, StopInv, IInv, Lists
<1>9. \A c \in Buffers : OnChain(s, c) /\ c # s[1] => OnChain(Tail(s), c)
  <2> SUFFICES ASSUME NEW i \in 1 .. Len(s), s[i] # s[1]
               PROVE  OnChain(Tail(s), s[i])
    BY DEF OnChain
  <2>1. Len(s) \in Nat /\ i - 1 \in 1 .. Len(s) - 1
    OBVIOUS
  <2>2. Len(Tail(s)) = Len(s) - 1 /\ \A k \in 1 .. Len(s) - 1 : Tail(s)[k] = s[k + 1]
    BY <1>5, HeadTailProperties
  <2>3. Tail(s)[i - 1] = s[(i - 1) + 1]
    BY <2>1, <2>2
  <2> QED BY <2>1, <2>2, <2>3 DEF OnChain
<1>10. Owned(Tail(s))'
  <2>1. \A c \in Buffers : state'[c] = "active" => OnChain(Tail(s), c)
    BY <1>1, <1>2, <1>3, <1>8, <1>9 DEF Owned
  <2> QED BY <2>1 DEF Owned, OnChain
<1>11. called /\ Used(Tail(s))'
  BY <1>1, <1>2 DEF Used, StopInv, Phases
<1>12. AtFirst'
  <2>1. buf'[t] = ahead
    BY <1>7 DEF StopInv, IInv, Handing
  <2> QED BY <1>1, <1>2, <1>4, <1>6, <1>7, <2>1 DEF AtFirst
<1>13. Tail(s) \in Seq(Buffers)
  BY <1>5
<1> QED BY <1>4, <1>6, <1>7, <1>10, <1>11, <1>12, <1>13 DEF Proper

LEMMA WalkIsOver ==
  ASSUME StopInv, NEW t \in Threads, WalkEnds(t)
  PROVE  Proper'
<1>1. /\ pc[t] = "walk" /\ buf[t] = Head0 /\ pc' = [pc EXCEPT ![t] = "cancel"]
      /\ UNCHANGED <<state, called, links, buf, ahead, crashed, requeued>>
  BY DEF WalkEnds, Goto, coreVars, devVars, cpuVars, histVars
<1>2. \A u \in Threads : u # t => pc[u] \in {"idle", "sleep"}
  BY <1>1, OthersWait DEF StopInv, IInv, Locks
<1> SUFFICES ASSUME ~requeued PROVE Proper'
  BY <1>1 DEF Proper
<1>3. PICK s \in Seq(Buffers) : IsChain(s, links) /\ Owned(s) /\ Used(s)
  BY DEF StopInv, Proper
<1>4. s = <<>>
  <2>1. links[Head0].next = Head0
    BY <1>1 DEF StopInv, Proper, AtFirst
  <2> QED BY <1>3, <2>1, ChainEmpty
<1>5. pc'[t] = "cancel" /\ \A u \in Threads : u # t => pc'[u] = pc[u]
  BY <1>1 DEF StopInv, IInv, Locks
<1>6. Owned(s)' /\ Used(s)' /\ AtFirst'
  BY <1>1, <1>2, <1>3, <1>4, <1>5 DEF Owned, OnChain, Used, AtFirst
<1> QED BY <1>1, <1>3, <1>6 DEF Proper, StopInv

LEMMA CancelProper ==
  ASSUME StopInv, NEW t \in Threads, Cancel(t)
  PROVE  Proper'
<1>1. /\ pc[t] = "cancel" /\ pc' = [pc EXCEPT ![t] = "idle"]
      /\ state' = [b \in Buffers |-> "dequeued"]
      /\ UNCHANGED <<links, crashed, requeued>>
  BY DEF Cancel, Leave, Goto, devVars, cpuVars, histVars
<1>2. \A u \in Threads : u # t => pc[u] \in {"idle", "sleep"}
  BY <1>1, OthersWait DEF StopInv, IInv, Locks
<1> SUFFICES ASSUME ~requeued PROVE Proper'
  BY <1>1 DEF Proper
<1>3. PICK s \in Seq(Buffers) : IsChain(s, links) /\ Owned(s) /\ Used(s)
  BY DEF StopInv, Proper
<1>4. s = <<>> /\ \A u \in Threads : pc'[u] \in {"idle", "sleep"}
  BY <1>1, <1>2, <1>3 DEF Used, StopInv, IInv, Locks
<1>5. Owned(s)' /\ Used(s)' /\ AtFirst'
  BY <1>1, <1>4 DEF Owned, Used, AtFirst
<1> QED BY <1>1, <1>3, <1>5 DEF Proper, StopInv

(* With the stream off no buffer is on the list, when all are freed.       *)
LEMMA NothingFreedIsListed ==
  ASSUME StopInv, NEW t \in Threads, Reqbufs(t)
  PROVE  /\ requeued \/ links = EmptyList(Buffers)
         /\ Proper'
<1>1. /\ lock = Free /\ ~on /\ pc[t] = "idle"
      /\ state' = [b \in Buffers |-> "dequeued"]
      /\ links' = [EmptyList(Buffers) EXCEPT ![Head0] = links[Head0]]
      /\ UNCHANGED <<called, pc, requeued>>
      /\ crashed' = crashed \/ links[Head0].next # Head0
  BY DEF Reqbufs, threadVars, histVars
<1>2. \A u \in Threads : pc[u] \in {"idle", "sleep"}
  BY <1>1, OthersWait DEF StopInv
<1>3. ~called
  BY <1>1, <1>2 DEF StopInv, Phases
<1> SUFFICES ASSUME ~requeued
             PROVE  links = EmptyList(Buffers) /\ Proper'
  BY <1>1 DEF Proper
<1>4. PICK s \in Seq(Buffers) : IsChain(s, links) /\ Owned(s) /\ Used(s)
  BY DEF StopInv, Proper
<1>5. s = <<>>
  BY <1>2, <1>3, <1>4 DEF Used
<1>6. links[Head0].next = Head0
  <2>1. links[NodeAt(s, 0)].next = NodeAt(s, 1) /\ NodeAt(s, 0) = Head0 /\ NodeAt(s, 1) = Head0
    BY <1>4, <1>5 DEF IsChain, NodeAt
  <2> QED BY <2>1
<1>7. links = EmptyList(Buffers)
  BY <1>4, <1>6, ChainEmpty
<1>8. links' = links
  <2>1. \A m : [m EXCEPT ![Head0] = m[Head0]] = m \/ m # EmptyList(Buffers)
    BY DEF EmptyList
  <2> QED BY <1>1, <1>7, <2>1
<1>9. Owned(s)' /\ Used(s)' /\ AtFirst'
  BY <1>1, <1>2, <1>5 DEF Owned, Used, AtFirst
<1> QED BY <1>1, <1>4, <1>6, <1>7, <1>8, <1>9 DEF Proper, StopInv

-----------------------------------------------------------------------------
(* The flags of the core and where the one thread in a call is.            *)
LEMMA PhasesMove ==
  ASSUME StopInv, NEW t \in Threads, lock = t \/ lock = Free, NEW to \in Places,
         pc' = [pc EXCEPT ![t] = to], on' \in BOOLEAN, called' \in BOOLEAN,
         to \in {"enqueue", "reset_count"} => ~on',
         to = "enqueue" => ~called',
         to \in {"reset_count", "activate", "buf_queue", "walk"} => called',
         to = "buf_queue" => buf'[t] \in Buffers,
         to # "reset_count" => (on' <=> called')
  PROVE  Phases'
<1>1. pc'[t] = to /\ \A u \in Threads : u # t => pc'[u] \in {"idle", "sleep"}
  BY OthersWait DEF StopInv, IInv, Locks
<1> QED BY <1>1 DEF Phases

LEMMA Agree ==
  ASSUME StopInv, NEW t \in Threads, lock = t \/ lock = Free, pc[t] # "reset_count"
  PROVE  on \in BOOLEAN /\ called \in BOOLEAN /\ (on <=> called)
BY OthersWait DEF StopInv, Phases

(* Steps that change neither the flags nor where a thread is.              *)
LEMMA PhasesStay ==
  ASSUME StopInv, UNCHANGED <<pc, on, called>>,
         \A t \in Threads : pc[t] = "buf_queue" => buf'[t] = buf[t]
  PROVE  Phases'
BY DEF StopInv, Phases

LEMMA PhasesKept ==
  ASSUME StopInv, [Next]_vars
  PROVE  Phases'
<1> USE DEF Places
<1>1. CASE Interrupt \/ UNCHANGED vars
  BY <1>1, PhasesStay DEF Interrupt, threadVars, vars, coreVars
<1>2. ASSUME NEW t \in Threads, NEW b \in Buffers, QbufCall(t, b)
      PROVE  Phases'
  <2>1. UNCHANGED <<on, called>>
    BY <1>2 DEF QbufCall
  <2>2. CASE Enter(t, "activate") /\ called
    BY <2>1, <2>2, Agree, PhasesMove DEF Enter, Goto
  <2>3. CASE UNCHANGED <<lock, pc, buf>>
    BY <2>1, <2>3, PhasesStay
  <2> QED BY <1>2, <2>2, <2>3 DEF QbufCall
<1>3. ASSUME NEW t \in Threads, Reqbufs(t)
      PROVE  Phases'
  BY <1>3, PhasesStay DEF Reqbufs, threadVars
<1>4. ASSUME NEW t \in Threads, StreamOnCall(t)
      PROVE  Phases'
  <2>1. lock = Free /\ ~on /\ pc[t] = "idle" /\ UNCHANGED <<on, called>>
    BY <1>4 DEF StreamOnCall, Enter, Goto, coreVars
  <2>2. ~called /\ on \in BOOLEAN /\ called \in BOOLEAN
    BY <2>1, Agree
  <2> QED BY <1>4, <2>1, <2>2, PhasesMove DEF StreamOnCall, Enter, Goto
<1>5. ASSUME NEW t \in Threads, DqbufCall(t)
      PROVE  Phases'
  BY <1>5, Agree, PhasesMove DEF DqbufCall, Enter, Goto, coreVars
<1>6. ASSUME NEW t \in Threads, StreamOffCall(t)
      PROVE  Phases'
  <2>1. PICK to \in {"walk", "cancel"} : Enter(t, to) /\ (to = "walk" => called)
    BY <1>6 DEF StreamOffCall
  <2>2. UNCHANGED <<on, called>>
    BY <1>6 DEF StreamOffCall, coreVars
  <2> QED BY <2>1, <2>2, Agree, PhasesMove DEF Enter, Goto
<1>7. ASSUME NEW t \in Threads, Inside(t)
      PROVE  Phases'
  <2>1. pc[t] \notin {"idle", "sleep"} => lock = t
    BY DEF StopInv, IInv, Locks
  <2>2. CASE Activate(t)
    <3>1. pc[t] = "activate" /\ called /\ buf[t] \in Buffers
      BY <2>2 DEF Activate, Goto, StopInv, Phases, IInv, Handing
    <3> QED BY <2>1, <2>2, <3>1, Agree, PhasesMove DEF Activate, Goto
  <2>3. CASE BufQueue(t)
    BY <2>1, <2>3, Agree, PhasesMove DEF BufQueue, Leave, Goto, coreVars
  <2>4. CASE Enqueue(t)
    BY <2>4, PhasesStay DEF Enqueue, threadVars
  <2>5. CASE SetStreaming(t)
    <3>1. pc[t] = "enqueue" /\ ~on /\ on \in BOOLEAN
      BY <2>5 DEF SetStreaming, Goto, StopInv, Phases
    <3>2. on' = on /\ called' = TRUE
      BY <2>5 DEF SetStreaming
    <3>3. pc' = [pc EXCEPT ![t] = "reset_count"] /\ lock = t
      BY <2>1, <2>5, <3>1 DEF SetStreaming, Goto
    <3> QED BY <3>1, <3>2, <3>3, PhasesMove
  <2>6. CASE ResetCount(t)
    <3>1. pc[t] = "reset_count" /\ called
      BY <2>6 DEF ResetCount, Leave, Goto, StopInv, Phases
    <3>2. called \in BOOLEAN
      BY DEF StopInv, Phases
    <3> QED BY <2>1, <2>6, <3>1, <3>2, PhasesMove DEF ResetCount, Leave, Goto
  <2>7. CASE Sleep(t)
    BY <2>1, <2>7, Agree, PhasesMove DEF Sleep, Goto, coreVars
  <2>8. CASE Wake(t)
    <3>1. PICK to \in {"dqbuf", "idle"} : Goto(t, "sleep", to) /\ lock = Free
      BY <2>8 DEF Wake
    <3>2. UNCHANGED <<on, called>>
      BY <2>8 DEF Wake, coreVars
    <3> QED BY <3>1, <3>2, Agree, PhasesMove DEF Goto
  <2>9. CASE Take(t)
    BY <2>1, <2>9, Agree, PhasesMove DEF Take, Goto
  <2>10. CASE Unlist(t)
    BY <2>1, <2>10, Agree, PhasesMove DEF Unlist, Leave, Goto
  <2>11. CASE Walk(t)
    <3>1. pc[t] = "walk" /\ UNCHANGED <<pc, on, called>>
      BY <2>11 DEF Walk
    <3>2. \A u \in Threads : pc[u] = "buf_queue" => buf'[u] = buf[u]
      BY <2>1, <3>1, OthersWait DEF StopInv
    <3> QED BY <3>1, <3>2, PhasesStay
  <2>12. CASE WalkEnds(t)
    BY <2>1, <2>12, Agree, PhasesMove DEF WalkEnds, Goto, coreVars
  <2>13. CASE Cancel(t)
    BY <2>1, <2>13, PhasesMove DEF Cancel, Leave, Goto
  <2> QED BY <1>7, <2>2, <2>3, <2>4, <2>5, <2>6, <2>7, <2>8, <2>9, <2>10, <2>11, <2>12,
             <2>13 DEF Inside
<1>8. ASSUME NEW t \in Threads, Call(t)
      PROVE  Phases'
  BY <1>2, <1>3, <1>4, <1>5, <1>6, <1>8 DEF Call
<1> QED BY <1>1, <1>7, <1>8 DEF Next

LEMMA StopKept ==
  ASSUME StopInv, [Next]_vars
  PROVE  StopInv'
<1>1. IInv' /\ Phases'
  BY StepKeeps, PhasesKept DEF StopInv
<1>2. ASSUME UNCHANGED vars
      PROVE  Proper'
  <2>1. UNCHANGED <<state, called, links, crashed, pc, buf, ahead, requeued>>
    BY <1>2 DEF vars, coreVars, devVars, cpuVars, threadVars, histVars
  <2>2. ASSUME NEW s \in Seq(Buffers), Owned(s), Used(s)
        PROVE  Owned(s)' /\ Used(s)'
    BY <2>1, <2>2 DEF Owned, OnChain, Used
  <2>3. AtFirst => AtFirst'
    BY <2>1 DEF AtFirst
  <2> SUFFICES ASSUME ~requeued PROVE Proper'
    BY <2>1 DEF Proper
  <2>4. PICK s \in Seq(Buffers) : IsChain(s, links) /\ Owned(s) /\ Used(s)
    BY DEF StopInv, Proper
  <2>5. IsChain(s, links')
    BY <2>1, <2>4
  <2>6. ~crashed' /\ AtFirst'
    BY <2>1, <2>3 DEF StopInv, Proper
  <2> QED BY <2>2, <2>4, <2>5, <2>6 DEF Proper
<1>3. ASSUME NEW t \in Threads, Inside(t)
      PROVE  Proper'
  BY <1>3, CalmSteps, JoinSteps, WalkProper, WalkIsOver, CancelProper DEF Inside
<1>4. ASSUME NEW t \in Threads, Call(t)
      PROVE  Proper'
  BY <1>4, CalmSteps, WalkBegins, NothingFreedIsListed DEF Call
<1>5. Proper'
  BY <1>2, <1>3, <1>4, InterruptProper DEF Next, StopInv
<1> QED BY <1>1, <1>5 DEF StopInv

LEMMA StopInit ==
  ASSUME Init
  PROVE  StopInv
<1>1. Phases
  BY DEF Init, Phases
<1>2. IsChain(<<>>, links) /\ <<>> \in Seq(Buffers)
  BY EmptyIsChain DEF Init
<1>3. Owned(<<>>) /\ Used(<<>>) /\ AtFirst /\ ~crashed
  BY DEF Init, Owned, Used, AtFirst
<1> QED BY <1>1, <1>2, <1>3, InitHolds DEF Proper, StopInv

-----------------------------------------------------------------------------
(* As long as no buffer was queued again, stop_streaming                   *)
(* (camera_vb2.c:91-112) follows no poisoned pointer and leaves no buffer  *)
(* with the driver.                                                        *)
THEOREM StopIsClean == Spec => []CleanStop
<1>1. ASSUME StopInv, ~requeued
      PROVE  ~crashed /\ NothingOwned
  <2>1. PICK s \in Seq(Buffers) : Owned(s) /\ Used(s)
    BY <1>1 DEF StopInv, Proper
  <2>2. ASSUME NEW t \in Threads, pc[t] = "cancel"
        PROVE  \A b \in Buffers : state[b] # "active"
    <3>1. s = <<>>
      BY <2>1, <2>2 DEF Used
    <3>2. \A u \in Threads : pc[u] # "buf_queue"
      BY <2>2, <1>1, OthersWait DEF StopInv, IInv, Locks
    <3> QED BY <2>1, <3>1, <3>2 DEF Owned, OnChain
  <2> QED BY <1>1, <2>2 DEF NothingOwned, StopInv, Proper
<1>2. StopInv => CleanStop
  BY <1>1 DEF CleanStop
<1> QED BY <1>2, StopInit, StopKept, PTL DEF Spec

(* No buffer is on the driver's list when REQBUFS frees all buffers.       *)
THEOREM FreedOffList == Spec => FreedUnlisted
<1>1. ASSUME StopInv, [Next]_vars
      PROVE  [(\E t \in Threads : Reqbufs(t)) => requeued \/ links = EmptyList(Buffers)]_vars
  BY <1>1, NothingFreedIsListed
<1> QED BY <1>1, StopInit, StopKept, PTL DEF Spec, FreedUnlisted

-----------------------------------------------------------------------------
(* Type correctness, whatever was queued again.  A list that has lost      *)
(* entries or that has an entry twice still has sound pointers: they lead  *)
(* to buffers, to the head or to the poison, and those of the head never   *)
(* to the poison.  A walk holds the buffer it is at and, read ahead, what  *)
(* that buffer points at; it stops at a poisoned entry before it would     *)
(* follow the poison.                                                      *)

Sound(m) ==
  /\ m \in [Buffers \cup {Head0} -> [next : Pointers, prev : Pointers]]
  /\ Poison \notin {m[Head0].next, m[Head0].prev}

AtEntry ==
  \A t \in Threads : pc[t] = "walk" =>
    /\ buf[t] \in Buffers \cup {Head0}
    /\ buf[t] \in Buffers => ahead = links[buf[t]].next

Hands ==
  /\ buf \in [Threads -> Buffers \cup {NoBuffer, Head0}]
  /\ \A t \in Threads : pc[t] \in {"activate", "buf_queue", "unlist"} => buf[t] \in Buffers

(* A thread that has the lock is in a call, and not asleep.                *)
LockInCall == \A t \in Threads : lock = t => pc[t] \notin {"idle", "sleep"}

Flags ==
  /\ on \in BOOLEAN /\ called \in BOOLEAN /\ streaming \in BOOLEAN
  /\ spinning \in BOOLEAN /\ crashed \in BOOLEAN /\ requeued \in BOOLEAN

Counts ==
  /\ done \in Seq(Buffers)
  /\ frame_count \in 0 .. MaxFrames /\ sequence \in [Buffers -> 0 .. MaxFrames]
  /\ delivered \in Nat /\ last \in 0 .. MaxFrames

TypeInv ==
  /\ IInv
  /\ Sound(links) /\ AtEntry /\ Hands
  /\ lock \in Threads \cup {Free} /\ LockInCall
  /\ Flags /\ Counts

LEMMA EmptyIsSound == Sound(EmptyList(Buffers))
BY NamesAreApart DEF Sound, EmptyList, Pointers, Head0, Poison

LEMMA AddedIsSound ==
  ASSUME NEW m, Sound(m), NEW b \in Buffers
  PROVE  Sound(AddTail(m, b))
<1> DEFINE tail == m[Head0].prev
           linked == [m EXCEPT ![Head0].prev = b, ![b] = [next |-> Head0, prev |-> tail]]
<1>1. b \in Pointers /\ Head0 \in Pointers /\ tail \in Pointers /\ tail # Poison
  BY DEF Sound, Pointers
<1>2. Head0 \notin Buffers /\ Head0 # Poison /\ b # Head0 /\ b # Poison
  BY NamesAreApart DEF Head0, Poison
<1>3. linked \in [Buffers \cup {Head0} -> [next : Pointers, prev : Pointers]]
  BY <1>1, <1>2 DEF Sound
<1>4. linked[Head0].next = m[Head0].next /\ linked[Head0].prev = b
  BY <1>2 DEF Sound
<1>5. AddTail(m, b) = [linked EXCEPT ![tail].next = b]
  BY DEF AddTail
<1>6. tail \in Buffers \cup {Head0}
  BY <1>1 DEF Pointers
<1> HIDE DEF linked, tail
<1>7. AddTail(m, b) \in [Buffers \cup {Head0} -> [next : Pointers, prev : Pointers]]
  BY <1>1, <1>3, <1>5, <1>6
<1>8. /\ AddTail(m, b)[Head0].next \in {b, m[Head0].next}
      /\ AddTail(m, b)[Head0].prev = b
  BY <1>3, <1>4, <1>5, <1>6
<1> QED BY <1>2, <1>7, <1>8 DEF Sound

LEMMA DeletedIsSound ==
  ASSUME NEW m, Sound(m), NEW b \in Buffers, ~Faults(m, b)
  PROVE  Sound(Del(m, b))
<1> DEFINE n == m[b].next
           p == m[b].prev
           joined == [m EXCEPT ![n].prev = p]
           passed == [joined EXCEPT ![p].next = n]
<1>1. Head0 # Poison /\ b # Head0
  BY NamesAreApart DEF Head0, Poison
<1>2. n \in Buffers \cup {Head0} /\ p \in Buffers \cup {Head0} /\ n # Poison /\ p # Poison
  BY DEF Sound, Faults, Pointers
<1>3. Del(m, b) = [passed EXCEPT ![b] = [next |-> Poison, prev |-> Poison]]
  BY DEF Del
<1> HIDE DEF n, p
<1>4. /\ joined \in [Buffers \cup {Head0} -> [next : Pointers, prev : Pointers]]
      /\ joined[Head0].next = m[Head0].next /\ joined[Head0].prev \in {p, m[Head0].prev}
  BY <1>2 DEF Sound, Pointers
<1> HIDE DEF joined
<1>5. /\ passed \in [Buffers \cup {Head0} -> [next : Pointers, prev : Pointers]]
      /\ passed[Head0].next \in {n, m[Head0].next} /\ passed[Head0].prev = joined[Head0].prev
  BY <1>2, <1>4 DEF Pointers
<1> HIDE DEF passed
<1>6. /\ Del(m, b) \in [Buffers \cup {Head0} -> [next : Pointers, prev : Pointers]]
      /\ Del(m, b)[Head0] = passed[Head0]
  BY <1>1, <1>3, <1>5 DEF Pointers
<1> QED BY <1>2, <1>4, <1>5, <1>6 DEF Sound

(* Steps that leave the driver's list alone. *)
LEMMA HandsMove ==
  ASSUME TypeInv, NEW t \in Threads, NEW to \in Places, NEW x \in Buffers \cup {NoBuffer, Head0},
         pc' = [pc EXCEPT ![t] = to], to # "walk",
         buf' = buf \/ buf' = [buf EXCEPT ![t] = x],
         to \in {"activate", "buf_queue", "unlist"} => buf'[t] \in Buffers,
         UNCHANGED <<links, ahead>>
  PROVE  Sound(links') /\ AtEntry' /\ Hands'
<1>1. pc'[t] = to /\ \A u \in Threads : u # t => pc'[u] = pc[u]
  BY DEF TypeInv, IInv, Locks
<1>2. /\ buf' \in [Threads -> Buffers \cup {NoBuffer, Head0}]
      /\ \A u \in Threads : u # t => buf'[u] = buf[u]
  BY DEF TypeInv, Hands
<1> QED BY <1>1, <1>2 DEF TypeInv, AtEntry, Hands

LEMMA HandsStay ==
  ASSUME TypeInv, UNCHANGED <<links, ahead, pc, buf>>
  PROVE  Sound(links') /\ AtEntry' /\ Hands'
BY DEF TypeInv, AtEntry, Hands

LEMMA HandsFree ==
  ASSUME TypeInv, NEW t \in Threads,
         \/ \E b \in Buffers : QbufCall(t, b)
         \/ StreamOnCall(t) \/ DqbufCall(t)
         \/ Activate(t) \/ SetStreaming(t) \/ ResetCount(t)
         \/ Sleep(t) \/ Wake(t) \/ Take(t) \/ Unlist(t) \/ WalkEnds(t)
  PROVE  Sound(links') /\ AtEntry' /\ Hands'
<1> USE DEF Places
<1>1. ASSUME NEW b \in Buffers, QbufCall(t, b)
      PROVE  Sound(links') /\ AtEntry' /\ Hands'
  <2>1. UNCHANGED <<links, ahead>>
    BY <1>1 DEF QbufCall, devVars
  <2>2. CASE Enter(t, "activate") /\ buf' = [buf EXCEPT ![t] = b]
    <3>1. buf'[t] = b
      BY <2>2 DEF TypeInv, Hands
    <3> QED BY <2>1, <2>2, <3>1, HandsMove DEF Enter, Goto
  <2>3. CASE UNCHANGED <<pc, buf>>
    BY <2>1, <2>3, HandsStay
  <2> QED BY <1>1, <2>2, <2>3 DEF QbufCall
<1>2. CASE StreamOnCall(t)
  BY <1>2, HandsMove DEF StreamOnCall, Enter, Goto, devVars
<1>3. CASE DqbufCall(t)
  BY <1>3, HandsMove DEF DqbufCall, Enter, Goto, devVars
<1>4. CASE Activate(t)
  <2>1. buf[t] \in Buffers
    BY <1>4 DEF Activate, Goto, TypeInv, Hands
  <2> QED BY <1>4, <2>1, HandsMove DEF Activate, Goto, devVars
<1>5. CASE SetStreaming(t)
  BY <1>5, HandsMove DEF SetStreaming, Goto
<1>6. CASE ResetCount(t)
  BY <1>6, HandsMove DEF ResetCount, Leave, Goto
<1>7. CASE Sleep(t)
  BY <1>7, HandsMove DEF Sleep, Goto, devVars
<1>8. CASE Wake(t)
  <2>1. PICK to \in {"dqbuf", "idle"} : Goto(t, "sleep", to)
    BY <1>8 DEF Wake
  <2>2. UNCHANGED <<buf, links, ahead>>
    BY <1>8 DEF Wake, devVars
  <2> QED BY <2>1, <2>2, HandsMove DEF Goto
<1>9. CASE Take(t)
  <2>1. Head(done) \in Buffers
    BY <1>9 DEF Take, TypeInv, Counts
  <2>2. /\ pc' = [pc EXCEPT ![t] = "unlist"] /\ buf' = [buf EXCEPT ![t] = Head(done)]
        /\ UNCHANGED <<links, ahead>>
    BY <1>9 DEF Take, Goto, devVars
  <2>3. buf'[t] = Head(done)
    BY <2>2 DEF TypeInv, Hands
  <2> QED BY <2>1, <2>2, <2>3, HandsMove
<1>10. CASE Unlist(t)
  BY <1>10, HandsMove DEF Unlist, Leave, Goto, devVars
<1>11. CASE WalkEnds(t)
  BY <1>11, HandsMove DEF WalkEnds, Goto, devVars
<1> QED BY <1>1, <1>2, <1>3, <1>4, <1>5, <1>6, <1>7, <1>8, <1>9, <1>10, <1>11

(* Steps that add to the list or walk it: nobody else walks meanwhile.     *)
LEMMA HandsOnList ==
  ASSUME TypeInv, NEW t \in Threads,
         Reqbufs(t) \/ StreamOffCall(t) \/ BufQueue(t) \/ Enqueue(t) \/ Walk(t) \/ Cancel(t)
  PROVE  Sound(links') /\ AtEntry' /\ Hands'
<1> USE DEF Places
<1>0. /\ pc[t] \notin {"idle", "sleep"} => lock = t
      /\ lock = t \/ lock = Free => \A u \in Threads : u # t => pc[u] \in {"idle", "sleep"}
      /\ pc \in [Threads -> Places] /\ buf \in [Threads -> Buffers \cup {NoBuffer, Head0}]
  BY OthersWait DEF TypeInv, IInv, Locks, Hands
<1>1. CASE Reqbufs(t)
  <2>1. /\ lock = Free /\ pc[t] = "idle" /\ UNCHANGED <<pc, buf, ahead>>
        /\ links' = [EmptyList(Buffers) EXCEPT ![Head0] = links[Head0]]
    BY <1>1 DEF Reqbufs, threadVars
  <2>2. links[Head0] \in [next : Pointers, prev : Pointers]
    BY DEF TypeInv, Sound
  <2>3. Sound(links')
    <3> DEFINE e == EmptyList(Buffers)
    <3>1. e \in [Buffers \cup {Head0} -> [next : Pointers, prev : Pointers]]
      BY EmptyIsSound DEF Sound
    <3> HIDE DEF e
    <3>2. links' \in [Buffers \cup {Head0} -> [next : Pointers, prev : Pointers]]
      BY <2>1, <2>2, <3>1 DEF e
    <3>3. links'[Head0] = links[Head0]
      BY <2>1, <3>1 DEF e
    <3> QED BY <3>2, <3>3 DEF TypeInv, Sound
  <2> QED BY <1>0, <2>1, <2>3 DEF TypeInv, AtEntry, Hands
<1>2. CASE StreamOffCall(t)
  <2>1. /\ UNCHANGED links /\ lock = Free
        /\ \/ /\ pc' = [pc EXCEPT ![t] = "walk"]
              /\ buf' = [buf EXCEPT ![t] = links[Head0].next]
              /\ ahead' = links[links[Head0].next].next
           \/ pc' = [pc EXCEPT ![t] = "cancel"] /\ UNCHANGED <<buf, ahead>>
    BY <1>2 DEF StreamOffCall, Enter, Goto
  <2>2. links[Head0].next \in Buffers \cup {Head0}
    BY DEF TypeInv, Sound, Pointers
  <2> QED BY <1>0, <2>1, <2>2 DEF TypeInv, AtEntry, Hands
<1>3. CASE BufQueue(t)
  <2>1. /\ pc[t] = "buf_queue" /\ pc' = [pc EXCEPT ![t] = "idle"]
        /\ links' = AddTail(links, buf[t]) /\ buf' = [buf EXCEPT ![t] = NoBuffer]
    BY <1>3 DEF BufQueue, Leave, Goto, Listed
  <2>2. Sound(links')
    BY <2>1, AddedIsSound DEF TypeInv, Hands
  <2> QED BY <1>0, <2>1, <2>2 DEF AtEntry, Hands
<1>4. CASE Enqueue(t)
  <2>1. PICK i \in 1 .. Len(queued) : links' = AddTail(links, queued[i])
    BY <1>4 DEF Enqueue, Listed
  <2>2. queued[i] \in Buffers /\ pc[t] = "enqueue" /\ UNCHANGED <<pc, buf>>
    BY <1>4 DEF Enqueue, threadVars, TypeInv, IInv, Lists
  <2>3. Sound(links')
    BY <2>1, <2>2, AddedIsSound DEF TypeInv
  <2> QED BY <1>0, <2>2, <2>3 DEF TypeInv, AtEntry, Hands
<1>5. CASE Walk(t)
  <2>1. /\ pc[t] = "walk" /\ buf[t] \in Buffers /\ UNCHANGED pc
        /\ \/ UNCHANGED <<links, buf, ahead>>
           \/ /\ ~Faults(links, buf[t]) /\ links' = Del(links, buf[t])
              /\ buf' = [buf EXCEPT ![t] = ahead] /\ ahead' = links'[ahead].next
    BY <1>5 DEF Walk, Unlisted, Following, TypeInv, AtEntry
  <2>2. CASE UNCHANGED <<links, buf, ahead>>
    BY <2>1, <2>2, HandsStay
  <2>3. CASE /\ ~Faults(links, buf[t]) /\ links' = Del(links, buf[t])
             /\ buf' = [buf EXCEPT ![t] = ahead] /\ ahead' = links'[ahead].next
    <3>1. Sound(links')
      BY <2>1, <2>3, DeletedIsSound DEF TypeInv
    <3>2. ahead = links[buf[t]].next /\ ahead # Poison
      BY <2>1, <2>3 DEF TypeInv, AtEntry, Faults
    <3>3. ahead \in Buffers \cup {Head0}
      BY <2>1, <3>2 DEF TypeInv, Sound, Pointers
    <3> QED BY <1>0, <2>1, <2>3, <3>1, <3>3 DEF AtEntry, Hands
  <2> QED BY <2>1, <2>2, <2>3
<1>6. CASE Cancel(t)
  <2>1. /\ pc[t] = "cancel" /\ pc' = [pc EXCEPT ![t] = "idle"]
        /\ buf' = [buf EXCEPT ![t] = NoBuffer] /\ UNCHANGED links
    BY <1>6 DEF Cancel, Leave, Goto, devVars
  <2> QED BY <1>0, <2>1 DEF TypeInv, AtEntry, Hands
<1> QED BY <1>1, <1>2, <1>3, <1>4, <1>5, <1>6

(* The lock goes back when a call returns or falls asleep.                 *)
LEMMA LockMoves ==
  ASSUME TypeInv, NEW t \in Threads, NEW to \in Places, pc' = [pc EXCEPT ![t] = to],
         \/ lock' = t /\ to \notin {"idle", "sleep"}
         \/ lock' = Free
         \/ lock' = lock /\ to \notin {"idle", "sleep"}
  PROVE  lock' \in Threads \cup {Free} /\ LockInCall'
<1>1. pc'[t] = to /\ \A u \in Threads : u # t => pc'[u] = pc[u]
  BY DEF TypeInv, IInv, Locks
<1> QED BY <1>1, NamesAreApart DEF TypeInv, LockInCall

LEMMA LockKept ==
  ASSUME TypeInv, [Next]_vars
  PROVE  lock' \in Threads \cup {Free} /\ LockInCall'
<1> USE DEF Places
<1>1. CASE UNCHANGED <<lock, pc>>
  BY <1>1 DEF TypeInv, LockInCall
<1>2. CASE Interrupt \/ UNCHANGED vars
  BY <1>1, <1>2 DEF Interrupt, vars, threadVars
<1>3. ASSUME NEW t \in Threads, Call(t)
      PROVE  lock' \in Threads \cup {Free} /\ LockInCall'
  <2>1. ASSUME NEW to \in {"activate", "enqueue", "dqbuf", "walk", "cancel"}, Enter(t, to)
        PROVE  lock' \in Threads \cup {Free} /\ LockInCall'
    BY <2>1, LockMoves DEF Enter, Goto
  <2> QED BY <1>1, <1>3, <2>1
          DEF Call, QbufCall, Reqbufs, StreamOnCall, DqbufCall, StreamOffCall, threadVars
<1>4. ASSUME NEW t \in Threads, Inside(t)
      PROVE  lock' \in Threads \cup {Free} /\ LockInCall'
  <2>1. CASE Activate(t)
    BY <2>1, LockMoves DEF Activate, Goto
  <2>2. CASE SetStreaming(t)
    BY <2>2, LockMoves DEF SetStreaming, Goto
  <2>3. CASE Sleep(t)
    BY <2>3, LockMoves DEF Sleep, Goto
  <2>4. CASE Wake(t)
    <3>1. PICK to \in {"dqbuf", "idle"} :
            /\ Goto(t, "sleep", to)
            /\ (lock' = t /\ to = "dqbuf") \/ lock' = Free
      BY <2>4 DEF Wake
    <3> QED BY <3>1, LockMoves DEF Goto
  <2>5. CASE Take(t)
    BY <2>5, LockMoves DEF Take, Goto
  <2>6. CASE WalkEnds(t)
    BY <2>6, LockMoves DEF WalkEnds, Goto
  <2>7. CASE BufQueue(t) \/ ResetCount(t) \/ Unlist(t) \/ Cancel(t)
    <3>1. lock' = Free /\ pc' = [pc EXCEPT ![t] = "idle"]
      BY <2>7 DEF BufQueue, ResetCount, Unlist, Cancel, Leave, Goto
    <3> QED BY <3>1, LockMoves
  <2>8. CASE Enqueue(t) \/ Walk(t)
    BY <1>1, <2>8 DEF Enqueue, Walk, threadVars
  <2> QED BY <1>4, <2>1, <2>2, <2>3, <2>4, <2>5, <2>6, <2>7, <2>8 DEF Inside
<1> QED BY <1>2, <1>3, <1>4 DEF Next

LEMMA FlagsKept ==
  ASSUME TypeInv, [Next]_vars
  PROVE  Flags'
<1>1. CASE UNCHANGED vars
  BY <1>1 DEF vars, coreVars, devVars, cpuVars, histVars, TypeInv, Flags
<1>2. CASE Interrupt
  BY <1>2 DEF Interrupt, histVars, TypeInv, Flags
<1>3. ASSUME NEW t \in Threads, Call(t)
      PROVE  Flags'
  BY <1>3 DEF Call, QbufCall, Reqbufs, StreamOnCall, DqbufCall, StreamOffCall, Stopped,
              coreVars, devVars, cpuVars, histVars, TypeInv, Flags
<1>4. ASSUME NEW t \in Threads, Inside(t)
      PROVE  Flags'
  <2>1. CASE Activate(t) \/ Sleep(t) \/ Wake(t) \/ WalkEnds(t)
    BY <2>1 DEF Activate, Sleep, Wake, WalkEnds, coreVars, devVars, cpuVars, histVars,
                TypeInv, Flags
  <2>2. CASE BufQueue(t) \/ Enqueue(t)
    BY <2>2 DEF BufQueue, Enqueue, Listed, coreVars, cpuVars, TypeInv, Flags
  <2>3. CASE SetStreaming(t) \/ ResetCount(t)
    BY <2>3 DEF SetStreaming, ResetCount, Started, cpuVars, histVars, TypeInv, Flags
  <2>4. CASE Take(t) \/ Unlist(t)
    BY <2>4 DEF Take, Unlist, devVars, cpuVars, histVars, TypeInv, Flags
  <2>5. CASE Walk(t) \/ Cancel(t)
    BY <2>5 DEF Walk, Cancel, devVars, cpuVars, histVars, TypeInv, Flags
  <2> QED BY <1>4, <2>1, <2>2, <2>3, <2>4, <2>5 DEF Inside
<1> QED BY <1>1, <1>2, <1>3, <1>4 DEF Next

LEMMA CountsKept ==
  ASSUME TypeInv, [Next]_vars
  PROVE  Counts'
<1>0. MaxFrames \in Nat
  BY BufferAssumption DEF BufferAssumption
<1>1. CASE UNCHANGED <<done, frame_count, sequence, delivered, last>>
  BY <1>1 DEF TypeInv, Counts
<1>2. ASSUME NEW b \in Buffers
      PROVE  Append(done, b) \in Seq(Buffers)
  BY DEF TypeInv, Counts
<1>3. CASE Interrupt
  <2>1. FirstQueued \in Buffers
    BY <1>3 DEF Interrupt, FirstQueued, TypeInv, IInv, Lists
  <2>2. sequence' = [sequence EXCEPT ![FirstQueued] = frame_count] /\ UNCHANGED <<delivered, last>>
    BY <1>3 DEF Interrupt, histVars
  <2>3. done' \in Seq(Buffers)
    BY <1>2, <1>3, <2>1 DEF Interrupt, Completed, TypeInv, Counts
  <2>4. frame_count' \in 0 .. MaxFrames
    BY <1>0, <1>3 DEF Interrupt, Counted, TypeInv, Counts
  <2>5. sequence' \in [Buffers -> 0 .. MaxFrames]
    BY <2>1, <2>2 DEF TypeInv, Counts
  <2> QED BY <2>2, <2>3, <2>4, <2>5 DEF TypeInv, Counts
<1>4. ASSUME NEW t \in Threads, Call(t)
      PROVE  Counts'
  <2>1. CASE Reqbufs(t)
    BY <1>0, <2>1 DEF Reqbufs, histVars, TypeInv, Counts
  <2> QED BY <1>1, <1>4, <2>1 DEF Call, QbufCall, StreamOnCall, DqbufCall, StreamOffCall,
                                  coreVars, devVars, histVars
<1>5. ASSUME NEW t \in Threads, Inside(t)
      PROVE  Counts'
  <2>1. CASE ResetCount(t)
    BY <1>0, <2>1 DEF ResetCount, TypeInv, Counts
  <2>2. CASE Take(t)
    <3>1. /\ done # <<>> /\ done' = Tail(done) /\ delivered' = delivered + 1
          /\ last' = sequence[Head(done)] /\ UNCHANGED <<sequence, frame_count>>
      BY <2>2 DEF Take, devVars
    <3>2. Head(done) \in Buffers /\ done' \in Seq(Buffers)
      BY <3>1 DEF TypeInv, Counts
    <3> QED BY <3>1, <3>2 DEF TypeInv, Counts
  <2>3. CASE Walk(t)
    <3>1. UNCHANGED <<frame_count, sequence, delivered, last>> /\ buf[t] \in Buffers
      BY <2>3 DEF Walk, histVars, TypeInv, AtEntry
    <3>2. done' \in Seq(Buffers)
      BY <1>2, <2>3, <3>1 DEF Walk, GivenBack, Completed, TypeInv, Counts
    <3> QED BY <3>1, <3>2 DEF TypeInv, Counts
  <2>4. CASE Cancel(t)
    BY <2>4 DEF Cancel, devVars, histVars, TypeInv, Counts
  <2> QED BY <1>1, <1>5, <2>1, <2>2, <2>3, <2>4
          DEF Inside, Activate, BufQueue, Enqueue, SetStreaming, Sleep, Wake, Unlist,
              WalkEnds, coreVars, devVars, histVars
<1>6. CASE UNCHANGED vars
  BY <1>1, <1>6 DEF vars, coreVars, devVars, histVars
<1> QED BY <1>3, <1>4, <1>5, <1>6 DEF Next

LEMMA TypesKept ==
  ASSUME TypeInv, [Next]_vars
  PROVE  TypeInv'
<1>1. IInv'
  BY StepKeeps DEF TypeInv
<1>2. ASSUME NEW t \in Threads, Inside(t) \/ Call(t)
      PROVE  Sound(links') /\ AtEntry' /\ Hands'
  BY <1>2, HandsFree, HandsOnList DEF Inside, Call
<1>3. CASE Interrupt \/ UNCHANGED vars
  <2>1. UNCHANGED <<links, ahead, pc, buf>>
    BY <1>3 DEF Interrupt, vars, devVars, threadVars
  <2> QED BY <1>1, <2>1, HandsStay, LockKept, FlagsKept, CountsKept DEF TypeInv
<1>4. Sound(links') /\ AtEntry' /\ Hands'
  BY <1>2, <1>3 DEF Next, TypeInv
<1> QED BY <1>1, <1>4, LockKept, FlagsKept, CountsKept DEF TypeInv

LEMMA TypesInit ==
  ASSUME Init
  PROVE  TypeInv
<1>1. Sound(links)
  BY EmptyIsSound DEF Init
<1>2. AtEntry /\ Hands /\ LockInCall
  BY NamesAreApart DEF Init, AtEntry, Hands, LockInCall
<1>3. Flags
  BY DEF Init, Flags
<1>4. Counts
  <2>1. 0 \in 0 .. MaxFrames
    BY BufferAssumption DEF BufferAssumption
  <2>2. sequence \in [Buffers -> 0 .. MaxFrames]
    BY <2>1 DEF Init
  <2> QED BY <2>1, <2>2 DEF Init, Counts
<1>5. lock \in Threads \cup {Free}
  BY DEF Init
<1> QED BY <1>1, <1>2, <1>3, <1>4, <1>5, InitHolds DEF TypeInv

LEMMA TypesAlways == Spec => []TypeInv
BY TypesInit, TypesKept, PTL DEF Spec

(* Type correctness of driver and core, on a list that is corrupt too: the *)
(* walk of stop_streaming (camera_vb2.c:103-111) crashes at a poisoned     *)
(* entry and never goes on with the poison for a buffer.                   *)
THEOREM BufferTypes == Spec => []TypeOK
<1>1. ASSUME TypeInv
      PROVE  links \in [Buffers \cup {Head0} ->
               [next : Buffers \cup {Head0, Poison}, prev : Buffers \cup {Head0, Poison}]]
  BY <1>1 DEF TypeInv, Sound, Pointers
<1>2. TypeInv => TypeOK
  BY <1>1 DEF TypeInv, IInv, Locks, Lists, Hands, Flags, Counts, TypeOK, Places, States
<1> QED BY <1>2, TypesAlways, PTL

(* The lock of the queue is held by a thread exactly while the thread is   *)
(* in a call and not asleep in DQBUF: no call returns with the lock, and   *)
(* none goes on without it.                                                *)
LockedInCall == \A t \in Threads : lock = t <=> pc[t] \notin {"idle", "sleep"}

(* Every ioctl on the queue takes q->lock (camera_vb2.c:128 gives it to    *)
(* the core) and every way out of it gives the lock back.                  *)
THEOREM LockIsTheCallers == Spec => []LockedInCall
<1>1. TypeInv => LockedInCall
  BY DEF TypeInv, LockInCall, IInv, Locks, LockedInCall
<1> QED BY <1>1, TypesAlways, PTL
=============================================================================
