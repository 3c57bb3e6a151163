------------------------- MODULE SpecSyncerOrderProofs -------------------------
(***************************************************************************)
(* Proofs about the order in which the spec syncer hands contents to the   *)
(* regional hub: it never goes back to an earlier one (NoRegression), and  *)
(* every write follows the history of the object (Replicates).             *)
(***************************************************************************)
EXTENDS SpecSyncerProofs

(* Generations along the way.                                              *)

\* The content p is a deletion, or at least as new as o.
NotAfter(o, p) == p = Absent \/ o.gen <= p.gen

\* No later than the events s, than what the source u has and than n writes.
Precedes(o, s, u, n) ==
    /\ o.gen <= n
    /\ NotAfter(o, u)
    /\ \A i \in 1..Len(s) : NotAfter(o, I!CacheAfter(s[i]))

\* The copy d, the contents H in workers' hands, the cached content c, the events
\* s and the source u are in the order in which n writes made them.
InOrder(d, H, c, s, u, n) ==
    /\ \A o \in H \cup {d} : NotAfter(o, c) /\ Precedes(o, s, u, n)
    /\ \A o \in H : NotAfter(d, o)
    /\ Precedes(c, s, u, n)
    /\ u.gen <= n
    /\ \A i \in 1..Len(s) :
          /\ I!CacheAfter(s[i]).gen <= n
          /\ NotAfter(I!CacheAfter(s[i]), u)
          /\ \A j \in 1..i - 1 : NotAfter(I!CacheAfter(s[j]), I!CacheAfter(s[i]))

\* The contents of k in the hands of workers.
Held(k) == {worker[w].obj : w \in {v \in Workers : worker[v].key = k}}

Ordered(k) ==
    InOrder(downstream[k], Held(k), cache[k], stream[k], upstream[k], writes)

\* Generations are numbers, and the absent object has the lowest.
LEMMA Generations ==
    /\ Absent.gen = 0
    /\ \A o \in Objects : o.gen \in Nat
    /\ \A e \in I!Events(Objects) : I!CacheAfter(e) \in Objects
BY InformerTypes, AbsentType DEF Absent, Objects

\* A write, a deletion or a write of the status adds an event that is not older
\* than what is under way.
LEMMA WatchOrder ==
    ASSUME NEW d \in Objects, NEW H \in SUBSET Objects, NEW c \in Objects,
           NEW s \in Seq(I!Events(Objects)), NEW u \in Objects, NEW n \in Nat,
           InOrder(d, H, c, s, u, n),
           NEW e \in I!Events(Objects), NEW m \in {n, n + 1},
           \/ I!CacheAfter(e) \in {Absent, u}
           \/ I!CacheAfter(e).gen = m /\ m = n + 1
    PROVE  /\ InOrder(d, H, c, Append(s, e), I!CacheAfter(e), m)
           /\ InOrder(d, H, c, s, I!CacheAfter(e), m)
<1> DEFINE r == Append(s, e)
           x == I!CacheAfter(e)
<1>1. /\ Len(s) \in Nat
      /\ Len(r) = Len(s) + 1
      /\ \A i \in 1..Len(s) : r[i] = s[i]
      /\ r[Len(s) + 1] = e
  BY AppendElements
<1>2. /\ x \in Objects
      /\ \A i \in 1..Len(s) : s[i] \in I!Events(Objects)
  BY Generations, ElementOfSeq
<1> HIDE DEF r
<1>3. ASSUME NEW o \in Objects, Precedes(o, s, u, n)
      PROVE  NotAfter(o, x) /\ Precedes(o, s, x, m) /\ Precedes(o, r, x, m)
  <2>1. NotAfter(o, x) /\ o.gen <= m
    BY <1>2, <1>3, Generations DEF Precedes, NotAfter
  <2>2. Precedes(o, s, x, m)
    BY <1>3, <2>1 DEF Precedes
  <2>3. ASSUME NEW i \in 1..Len(r) PROVE NotAfter(o, I!CacheAfter(r[i]))
    <3>1. i \in 1..Len(s) \/ i = Len(s) + 1
      BY <1>1
    <3> QED BY <1>1, <1>3, <2>1, <3>1 DEF Precedes
  <2> QED BY <2>1, <2>2, <2>3 DEF Precedes
<1>4. x.gen <= m
  BY <1>2, Generations DEF InOrder
<1>5. ASSUME NEW i \in 1..Len(s)
      PROVE  I!CacheAfter(s[i]).gen <= m /\ NotAfter(I!CacheAfter(s[i]), x)
  <2> DEFINE y == I!CacheAfter(s[i])
  <2>1. y \in Objects
    BY <1>2, Generations
  <2>2. y.gen <= n /\ NotAfter(y, u)
    BY DEF InOrder
  <2> HIDE DEF y
  <2>3. y.gen <= m /\ NotAfter(y, x)
    BY <1>2, <2>1, <2>2, Generations DEF NotAfter
  <2> QED BY <2>3 DEF y
<1>6. InOrder(d, H, c, s, x, m)
  BY <1>3, <1>4, <1>5 DEF InOrder
<1>7. ASSUME NEW i \in 1..Len(r)
      PROVE  /\ I!CacheAfter(r[i]).gen <= m
             /\ NotAfter(I!CacheAfter(r[i]), x)
             /\ \A j \in 1..i - 1 : NotAfter(I!CacheAfter(r[j]), I!CacheAfter(r[i]))
  <2>1. CASE i \in 1..Len(s)
    <3>1. \A j \in 1..i - 1 : r[j] = s[j]
      BY <1>1, <2>1
    <3> QED BY <1>1, <1>5, <2>1, <3>1 DEF InOrder
  <2>2. CASE i = Len(s) + 1
    <3>1. r[i] = e /\ \A j \in 1..i - 1 : j \in 1..Len(s) /\ r[j] = s[j]
      BY <1>1, <2>2
    <3>2. NotAfter(x, x)
      BY <1>2, Generations DEF NotAfter
    <3> QED BY <1>4, <1>5, <3>1, <3>2
  <2> QED BY <1>1, <2>1, <2>2
<1>8. InOrder(d, H, c, r, x, m)
  BY <1>3, <1>4, <1>7 DEF InOrder
<1> QED BY <1>6, <1>8 DEF r

\* An event that reaches the cache was the oldest under way.
LEMMA InformerOrder ==
    ASSUME NEW d \in Objects, NEW H \in SUBSET Objects, NEW c \in Objects,
           NEW s \in Seq(I!Events(Objects)), s # <<>>, NEW u \in Objects, NEW n \in Nat,
           InOrder(d, H, c, s, u, n)
    PROVE  InOrder(d, H, I!CacheAfter(s[1]), Tail(s), u, n)
<1> DEFINE r == Tail(s)
           x == I!CacheAfter(s[1])
<1>1. /\ Len(s) \in Nat \ {0}
      /\ Len(r) = Len(s) - 1
      /\ \A i \in 1..Len(s) - 1 : r[i] = s[i + 1]
  BY TailElements
<1> HIDE DEF r
<1>2. 1 \in 1..Len(s) /\ \A i \in 1..Len(r) : i + 1 \in 1..Len(s) /\ r[i] = s[i + 1]
  BY <1>1
<1>3. ASSUME NEW o, Precedes(o, s, u, n) PROVE Precedes(o, r, u, n) /\ NotAfter(o, x)
  BY <1>2, <1>3 DEF Precedes
<1>4. Precedes(x, r, u, n)
  <2>1. x.gen <= n /\ NotAfter(x, u)
    BY <1>2 DEF InOrder
  <2>2. ASSUME NEW i \in 1..Len(r) PROVE NotAfter(x, I!CacheAfter(r[i]))
    <3>1. 1 \in 1..(i + 1) - 1
      BY <1>1
    <3> QED BY <1>2, <3>1 DEF InOrder
  <2> QED BY <2>1, <2>2 DEF Precedes
<1>5. ASSUME NEW i \in 1..Len(r), NEW j \in 1..i - 1
      PROVE  NotAfter(I!CacheAfter(r[j]), I!CacheAfter(r[i]))
  <2>1. j \in 1..Len(r) /\ j + 1 \in 1..(i + 1) - 1
    BY <1>1
  <2> QED BY <1>2, <2>1 DEF InOrder
<1>6. ASSUME NEW i \in 1..Len(r)
      PROVE  I!CacheAfter(r[i]).gen <= n /\ NotAfter(I!CacheAfter(r[i]), u)
  BY <1>2 DEF InOrder
<1> HIDE DEF x
<1>7. InOrder(d, H, x, r, u, n)
  BY <1>3, <1>4, <1>5, <1>6 DEF InOrder
<1> QED BY <1>7 DEF r, x

\* A worker may read the cache, and hold a deletion or nothing.
LEMMA HoldOrder ==
    ASSUME NEW d \in Objects, NEW H \in SUBSET Objects, NEW c \in Objects,
           NEW s \in Seq(I!Events(Objects)), NEW u \in Objects, NEW n \in Nat,
           InOrder(d, H, c, s, u, n), NEW G \in SUBSET (H \cup {c, Absent})
    PROVE  InOrder(d, G, c, s, u, n)
<1>1. ASSUME NEW o \in Objects PROVE NotAfter(Absent, o) /\ NotAfter(o, o) /\ NotAfter(o, Absent)
  BY Generations DEF NotAfter
<1>2. \A i \in 1..Len(s) : I!CacheAfter(s[i]) \in Objects
  BY Generations, ElementOfSeq
<1>3. Precedes(Absent, s, u, n)
  BY <1>1, <1>2, Generations DEF Precedes
<1> QED BY <1>1, <1>3 DEF InOrder

\* The regional hub is given a deletion, or the only content in a worker's hands.
LEMMA GiveOrder ==
    ASSUME NEW d \in Objects, NEW H \in SUBSET Objects, NEW c \in Objects,
           NEW s \in Seq(I!Events(Objects)), NEW u \in Objects, NEW n \in Nat,
           InOrder(d, H, c, s, u, n), NEW g \in H \cup {Absent}, H \subseteq {g} \cup {Absent}
    PROVE  InOrder(g, H, c, s, u, n)
<1>1. ASSUME NEW o \in Objects PROVE NotAfter(Absent, o) /\ NotAfter(o, o) /\ NotAfter(o, Absent)
  BY Generations DEF NotAfter
<1>2. \A i \in 1..Len(s) : I!CacheAfter(s[i]) \in Objects
  BY Generations, ElementOfSeq
<1>3. Precedes(Absent, s, u, n)
  BY <1>1, <1>2, Generations DEF Precedes
<1>4. g \in Objects
  BY AbsentType
<1> QED BY <1>1, <1>3, <1>4 DEF InOrder

\* The events of a list are in order.
LEMMA ListOrder ==
    ASSUME NEW d \in Objects, NEW H \in SUBSET Objects, NEW c \in Objects,
           NEW s \in Seq(I!Events(Objects)), NEW u \in Objects, NEW n \in Nat,
           InOrder(d, H, c, s, u, n)
    PROVE  /\ InOrder(d, H, c, I!ReList(u, c), u, n)
           /\ InOrder(d, H, c, I!FirstList(u), u, n)
           /\ InOrder(d, {}, Absent, <<>>, u, n)
<1>1. ASSUME NEW o \in Objects PROVE NotAfter(Absent, o) /\ NotAfter(o, o) /\ NotAfter(o, Absent)
  BY Generations DEF NotAfter
<1>2. ASSUME NEW r, \A i \in 1..Len(r) : i = 1 /\ I!CacheAfter(r[i]) = u
      PROVE  InOrder(d, H, c, r, u, n)
  <2>1. ASSUME NEW o, Precedes(o, s, u, n) PROVE Precedes(o, r, u, n)
    BY <1>2, <2>1 DEF Precedes
  <2> QED BY <1>1, <1>2, <2>1 DEF InOrder
<1>3. /\ I!CacheAfter([type |-> "replaced", obj |-> u]) = u
      /\ I!CacheAfter([type |-> "initial", obj |-> u]) = u
      /\ I!CacheAfter([type |-> "gone", obj |-> c]) = Absent
  BY DEF I!CacheAfter
<1>4. InOrder(d, H, c, I!ReList(u, c), u, n)
  <2> DEFINE r == I!ReList(u, c)
  <2>1. ASSUME NEW i \in 1..Len(r) PROVE i = 1 /\ I!CacheAfter(r[i]) = u
    <3>1. CASE u # Absent
      BY <1>3, <3>1, ReListEvents
    <3>2. CASE u = Absent
      BY <1>3, <3>2, ReListEvents
    <3> QED BY <3>1, <3>2
  <2> QED BY <1>2, <2>1
<1>6. InOrder(d, H, c, I!FirstList(u), u, n)
  <2> DEFINE r == I!FirstList(u)
  <2>1. ASSUME NEW i \in 1..Len(r) PROVE i = 1 /\ I!CacheAfter(r[i]) = u
    BY <1>3, FirstListEvents
  <2> QED BY <1>2, <2>1
<1>5. InOrder(d, {}, Absent, <<>>, u, n)
  <2>1. Len(<<>>) = 0
    OBVIOUS
  <2>2. d.gen <= n /\ NotAfter(d, u) /\ u.gen <= n
    BY DEF InOrder, Precedes
  <2> HIDE DEF NotAfter
  <2> QED BY <1>1, <2>1, <2>2, Generations DEF InOrder, Precedes
<1> QED BY <1>4, <1>5, <1>6

-------------------------------------------------------------------------------
(* The content on the regional hub never goes back.                        *)

\* What workers hold are objects; a worker that goes on holds what it is given.
LEMMA HeldAfterWork ==
    ASSUME Typed, NEW v \in Workers, NEW pc, NEW o, Work(v, pc, o), NEW k \in Keys
    PROVE  /\ worker[v].key # k => Held(k)' = Held(k)
           /\ Held(k)' \subseteq Held(k) \cup {o}
<1>1. /\ worker'[v] = [pc |-> pc, key |-> worker[v].key, obj |-> o]
      /\ \A w \in Workers : w # v => worker'[w] = worker[w]
  BY WorkEffect
<1>2. worker'[v].key = worker[v].key /\ worker'[v].obj = o
  BY <1>1
<1> QED BY <1>1, <1>2 DEF Held

\* What workers hold are objects.
LEMMA HeldType == ASSUME Typed, NEW k \in Keys PROVE Held(k) \in SUBSET Objects
BY DEF Held, Typed, TypeOK

\* The object that a worker has is in no other hands.
LEMMA HeldAlone ==
    ASSUME WorkSerialised, NEW v \in Workers, worker[v].key \in Keys
    PROVE  Held(worker[v].key) = {worker[v].obj}
<1>1. worker[v].key # NoKey
  BY SyncerAssumption
<1>2. \A w \in Workers : worker[w].key = worker[v].key => w = v
  BY <1>1 DEF WorkSerialised
<1> QED BY <1>2 DEF Held

\* Every step keeps the contents of an object in order.
LEMMA NextOrdered ==
    ASSUME Typed, WorkSerialised, StoppedIsEmpty, [Next]_vars, NEW k \in Keys, Ordered(k)
    PROVE  Ordered(k)'
<1> DEFINE d == downstream[k]
           H == Held(k)
           c == cache[k]
           s == stream[k]
           u == upstream[k]
           n == writes
<1>t. /\ d \in Objects /\ H \in SUBSET Objects /\ c \in Objects
      /\ s \in Seq(I!Events(Objects)) /\ u \in Objects /\ n \in Nat
  BY HeldType, SyncerAssumption DEF Typed, TypeOK
<1>o. InOrder(d, H, c, s, u, n)
  BY DEF Ordered
<1>f. /\ upstream \in [Keys -> Objects]
      /\ downstream \in [Keys -> Objects]
      /\ cache \in [Keys -> Objects]
      /\ stream \in [Keys -> Seq(I!Events(Objects))]
      /\ worker \in [Workers -> WorkerTypes]
  BY DEF Typed, TypeOK, WorkerTypes
<1> HIDE DEF d, c, s, u, n
<1>w. worker' = worker => Held(k)' = H
  BY DEF Held
<1>1. ASSUME NEW j \in Keys, NEW e \in I!Events(Objects), Watch(j, e.type, e.obj),
             upstream' = [upstream EXCEPT ![j] = I!CacheAfter(e)],
             writes' \in {writes, writes + 1},
             \/ I!CacheAfter(e) \in {Absent, upstream[j]}
             \/ I!CacheAfter(e).gen = writes' /\ writes' = writes + 1,
             downstream' = downstream, cache' = cache, worker' = worker
      PROVE  Ordered(k)'
  <2>1. [type |-> e.type, obj |-> e.obj] = e
    BY DEF I!Events
  <2>2. stream' = IF running THEN [stream EXCEPT ![j] = Append(stream[j], e)] ELSE stream
    BY <1>1, <2>1 DEF Watch
  <2>3. writes' \in Nat /\ writes' \in {n, n + 1}
    BY <1>1, <1>t DEF n
  <2>4. CASE j = k
    <3>a. upstream'[k] = I!CacheAfter(e)
      BY <1>1, <1>f, <2>4
    <3>b. stream'[k] = s \/ stream'[k] = Append(s, e)
      <4>1. CASE running
        <5>1. stream' = [stream EXCEPT ![k] = Append(stream[k], e)]
          BY <2>2, <2>4, <4>1
        <5> HIDE DEF s
        <5>2. stream'[k] = Append(stream[k], e)
          BY <1>f, <5>1
        <5> QED BY <5>2 DEF s
      <4>2. CASE ~running
        BY <2>2, <4>2 DEF s
      <4> QED BY <4>1, <4>2
    <3>1. upstream'[k] = I!CacheAfter(e) /\ stream'[k] \in {s, Append(s, e)}
      BY <3>a, <3>b
    <3>2. \/ I!CacheAfter(e) \in {Absent, u}
          \/ I!CacheAfter(e).gen = writes' /\ writes' = n + 1
      BY <1>1, <2>4 DEF u, n
    <3>3. /\ InOrder(d, H, c, Append(s, e), I!CacheAfter(e), writes')
          /\ InOrder(d, H, c, s, I!CacheAfter(e), writes')
      <4> HIDE DEF H
      <4> DEFINE m == writes'
      <4>1. m \in {n, n + 1} /\ e \in I!Events(Objects)
        BY <2>3
      <4>2. \/ I!CacheAfter(e) \in {Absent, u}
            \/ I!CacheAfter(e).gen = m /\ m = n + 1
        BY <3>2
      <4> HIDE DEF m
      <4>3. /\ InOrder(d, H, c, Append(s, e), I!CacheAfter(e), m)
            /\ InOrder(d, H, c, s, I!CacheAfter(e), m)
        BY <1>t, <1>o, <4>1, <4>2, WatchOrder
      <4> QED BY <4>3 DEF m
    <3>4. downstream'[k] = d /\ cache'[k] = c /\ Held(k)' = H
      BY <1>1, <1>w DEF d, c
    <3> QED BY <3>1, <3>3, <3>4 DEF Ordered
  <2>5. CASE j # k
    <3>1. /\ downstream'[k] = d /\ cache'[k] = c /\ stream'[k] = s /\ upstream'[k] = u
          /\ Held(k)' = H
      BY <1>1, <1>f, <1>w, <2>2, <2>5 DEF d, c, s, u
    <3>2. n <= writes'
      BY <1>t, <2>3
    <3>3. InOrder(d, H, c, s, u, writes')
      <4>1. \A x \in Objects : x.gen \in Nat /\ (x.gen <= n => x.gen <= writes')
        BY <1>t, <2>3, <3>2, Generations
      <4>2. \A i \in 1..Len(s) : I!CacheAfter(s[i]) \in Objects
        BY <1>t, Generations, ElementOfSeq
      <4>3. \A x \in Objects : Precedes(x, s, u, n) => Precedes(x, s, u, writes')
        BY <4>1 DEF Precedes
      <4> QED BY <1>t, <1>o, <4>1, <4>2, <4>3 DEF InOrder
    <3> QED BY <3>1, <3>3 DEF Ordered
  <2> QED BY <2>4, <2>5
<1>2. ASSUME NEW j \in Keys, NEW ready \in ReadyLabels, UpstreamWrite(j, ready)
      PROVE  Ordered(k)'
  <2> DEFINE o == [gen |-> writes + 1, ready |-> ready]
             e == [type |-> "modified", obj |-> o]
  <2>1. e \in I!Events(Objects) /\ o.gen = writes + 1
    BY <1>t, SyncerAssumption DEF n, Objects, I!EventTypes, I!Events
  <2>2. I!CacheAfter(e) = o /\ e.type = "modified" /\ e.obj = o
    BY DEF I!CacheAfter
  <2>3. /\ Watch(j, "modified", o)
        /\ upstream' = [upstream EXCEPT ![j] = o]
        /\ writes' = writes + 1
        /\ downstream' = downstream /\ cache' = cache /\ worker' = worker
    BY <1>2 DEF UpstreamWrite
  <2> HIDE DEF o, e
  <2> QED BY <1>1, <2>1, <2>2, <2>3
<1>3. ASSUME NEW j \in Keys, UpstreamStatusWrite(j)
      PROVE  Ordered(k)'
  <2> DEFINE o == upstream[j]
             e == [type |-> "modified", obj |-> o]
  <2>1. e \in I!Events(Objects)
    BY <1>f DEF I!EventTypes, I!Events
  <2>2. I!CacheAfter(e) = o /\ e.type = "modified" /\ e.obj = o
    BY DEF I!CacheAfter
  <2>3. /\ Watch(j, "modified", o)
        /\ upstream' = [upstream EXCEPT ![j] = o]
        /\ writes' = writes + 1
        /\ downstream' = downstream /\ cache' = cache /\ worker' = worker
    BY <1>3, <1>f DEF UpstreamStatusWrite
  <2> HIDE DEF e
  <2> QED BY <1>1, <2>1, <2>2, <2>3
<1>4. ASSUME NEW j \in Keys, UpstreamDelete(j)
      PROVE  Ordered(k)'
  <2> DEFINE o == upstream[j]
             e == [type |-> "deleted", obj |-> o]
  <2>1. e \in I!Events(Objects)
    BY <1>f DEF I!EventTypes, I!Events
  <2>2. I!CacheAfter(e) = Absent /\ e.type = "deleted" /\ e.obj = o
    BY DEF I!CacheAfter
  <2>3. /\ Watch(j, "deleted", o)
        /\ upstream' = [upstream EXCEPT ![j] = Absent]
        /\ writes' = writes
        /\ downstream' = downstream /\ cache' = cache /\ worker' = worker
    BY <1>4, <1>f DEF UpstreamDelete, counters
  <2> HIDE DEF e
  <2> QED BY <1>1, <2>1, <2>2, <2>3
<1>5. ASSUME NEW j \in Keys, InformerStep(j)
      PROVE  Ordered(k)'
  <2>1. /\ downstream'[k] = d /\ upstream'[k] = u /\ writes' = n /\ Held(k)' = H
    BY <1>5, <1>w DEF InformerStep, external, counters, d, u, n
  <2>2. CASE j # k
    <3>1. stream'[k] = s /\ cache'[k] = c
      BY <1>5, <2>2, InformerEvents DEF s, c
    <3> QED BY <1>o, <2>1, <3>1 DEF Ordered
  <2>3. CASE j = k
    <3>1. stream'[k] = Tail(s) /\ cache'[k] = I!CacheAfter(s[1]) /\ s # <<>>
      BY <1>5, <2>3, InformerEvents DEF s, InformerStep
    <3>2. InOrder(d, H, I!CacheAfter(s[1]), Tail(s), u, n)
      BY <1>t, <1>o, <3>1, InformerOrder
    <3> QED BY <2>1, <3>1, <3>2 DEF Ordered
  <2> QED BY <2>2, <2>3
<1>6. CASE NoProcess /\ UNCHANGED <<upstream, downstream, writes>>
  <2>1. /\ cache'[k] = Absent /\ stream'[k] = <<>>
        /\ \A w \in Workers : worker'[w].key = NoKey
    BY <1>6 DEF NoProcess, IdleWorker
  <2>2. Held(k)' = {}
    BY <2>1, SyncerAssumption DEF Held
  <2>3. InOrder(d, {}, Absent, <<>>, u, n)
    BY <1>t, <1>o, ListOrder
  <2> QED BY <1>6, <2>1, <2>2, <2>3 DEF Ordered, d, u, n
<1>7. CASE Relist \/ Start
  <2>1. /\ downstream'[k] = d /\ upstream'[k] = u /\ writes' = n /\ Held(k)' = H
        /\ cache'[k] = c
    BY <1>7, <1>w DEF Relist, Start, external, counters, d, u, n, c
  <2>2. stream'[k] = I!ReList(u, c) \/ stream'[k] = I!FirstList(u)
    BY <1>7 DEF Relist, Start, u, c
  <2>3. InOrder(d, H, c, I!ReList(u, c), u, n) /\ InOrder(d, H, c, I!FirstList(u), u, n)
    BY <1>t, <1>o, ListOrder
  <2> QED BY <2>1, <2>2, <2>3 DEF Ordered
<1>8. ASSUME NEW G \in SUBSET (H \cup {c, Absent}), Held(k)' = G,
             UNCHANGED <<upstream, downstream, stream, cache, writes>>
      PROVE  Ordered(k)'
  <2>1. InOrder(d, G, c, s, u, n)
    BY <1>t, <1>o, HoldOrder
  <2> QED BY <1>8, <2>1 DEF Ordered, d, c, s, u, n
<1>9. ASSUME NEW v \in Workers, NEW j \in Keys, GetItem(v, j)
      PROVE  Ordered(k)'
  <2>1. /\ worker'[v] = [pc |-> "process", key |-> j, obj |-> Absent]
        /\ \A w \in Workers : w # v => worker'[w] = worker[w]
    BY <1>9, <1>f DEF GetItem
  <2>2. Held(k)' \subseteq H \cup {c, Absent}
    BY <2>1 DEF Held
  <2> QED BY <1>8, <1>9, <2>2 DEF GetItem, external, counters
<1>10. ASSUME NEW v \in Workers, FinishItem(v)
       PROVE  Ordered(k)'
  <2>1. /\ worker'[v] = IdleWorker
        /\ \A w \in Workers : w # v => worker'[w] = worker[w]
    BY <1>10, <1>f DEF FinishItem
  <2>2. Held(k)' \subseteq H \cup {c, Absent}
    BY <2>1 DEF Held, IdleWorker
  <2> QED BY <1>8, <1>10, <2>2 DEF FinishItem, external, counters
<1>11. ASSUME NEW v \in Workers, Process(v)
       PROVE  Ordered(k)'
  <2> DEFINE o == cache[worker[v].key]
  <2>1. \E pc : Work(v, pc, o)
    BY <1>11 DEF Process
  <2>2. Held(k)' \subseteq H \cup {c, Absent}
    <3>1. CASE worker[v].key = k
      BY <2>1, <3>1, HeldAfterWork DEF c
    <3>2. CASE worker[v].key # k
      BY <2>1, <3>2, HeldAfterWork
    <3> QED BY <3>1, <3>2
  <2> QED BY <1>8, <1>11, <2>2 DEF Process, external, counters
<1>12. ASSUME NEW v \in Workers, NEW pc, Work(v, pc, worker[v].obj), worker[v].pc # "idle",
              NEW g \in {worker[v].obj, Absent},
              \/ downstream' = downstream
              \/ downstream' = [downstream EXCEPT ![worker[v].key] = g],
              UNCHANGED <<upstream, stream, cache, writes>>
       PROVE  Ordered(k)'
  <2>1. worker[v].key \in Keys /\ worker[v].obj \in Objects
    BY <1>12, BusyWorker DEF Typed
  <2>2. CASE worker[v].key # k
    <3>1. downstream'[k] = d /\ Held(k)' = H
      BY <1>12, <1>f, <2>1, <2>2, HeldAfterWork DEF d
    <3> QED BY <1>12, <1>o, <3>1 DEF Ordered, c, s, u, n
  <2>3. CASE worker[v].key = k
    <3>1. H = {worker[v].obj}
      BY <2>1, <2>3, HeldAlone
    <3>2. Held(k)' \subseteq H
      BY <1>12, <3>1, HeldAfterWork
    <3>3. InOrder(d, Held(k)', c, s, u, n)
      BY <1>t, <1>o, <3>2, HoldOrder
    <3>4. CASE downstream'[k] = d
      BY <1>12, <3>3, <3>4 DEF Ordered, c, s, u, n
    <3>5. CASE downstream'[k] # d
      <4>1. downstream'[k] = g
        BY <1>12, <1>f, <2>3, <3>5 DEF d
      <4>2. CASE g = Absent
        <5>1. InOrder(d, H \cap {}, c, s, u, n)
          BY <1>t, <1>o, HoldOrder
        <5>2. InOrder(Absent, H \cap {}, c, s, u, n)
          BY <1>t, <5>1, GiveOrder
        <5>3. \A x \in Objects : NotAfter(Absent, x)
          BY Generations DEF NotAfter
        <5>4. InOrder(Absent, Held(k)', c, s, u, n)
          BY <1>t, <3>2, <3>3, <5>2, <5>3 DEF InOrder
        <5> QED BY <1>12, <4>1, <4>2, <5>4 DEF Ordered, c, s, u, n
      <4>3. CASE g = worker[v].obj
        <5>1. InOrder(g, H, c, s, u, n)
          BY <1>t, <1>o, <3>1, <4>3, GiveOrder
        <5>2. InOrder(g, Held(k)', c, s, u, n)
          BY <1>t, <2>1, <3>2, <4>3, <5>1, HoldOrder
        <5> QED BY <1>12, <4>1, <5>2 DEF Ordered, c, s, u, n
      <4> QED BY <4>2, <4>3
    <3> QED BY <3>4, <3>5
  <2> QED BY <2>2, <2>3
<1>13. ASSUME NEW v \in Workers, ensureDownstreamNamespaceExists(v)
       PROVE  Ordered(k)'
  BY <1>12, <1>13 DEF ensureDownstreamNamespaceExists, Move, counters
<1>14. ASSUME NEW v \in Workers, applyToDownstream(v)
       PROVE  Ordered(k)'
  BY <1>12, <1>14 DEF applyToDownstream, Move, counters
<1>15. ASSUME NEW v \in Workers, deleteFromDownstream(v)
       PROVE  Ordered(k)'
  BY <1>12, <1>15 DEF deleteFromDownstream, Move, counters
<1>16. ASSUME NEW v \in Workers, NEW done \in BOOLEAN, RequestFails(v, done)
       PROVE  Ordered(k)'
  BY <1>12, <1>16 DEF RequestFails, Move
<1>17. CASE UNCHANGED <<upstream, downstream, stream, cache, worker, writes>>
  BY <1>17 DEF Ordered, Held
<1> QED BY <1>2, <1>3, <1>4, <1>5, <1>6, <1>7, <1>9, <1>10, <1>11, <1>13, <1>14, <1>15,
           <1>16, <1>17
        DEF Next, vars, external, counters, WorkerStep, Handle, HandleTombstone, Backoff,
            Crash

\* The regional hub is only given what is in order.
LEMMA NextNoRegression ==
    ASSUME Typed, [Next]_vars, NEW k \in Keys, Ordered(k), downstream'[k] # Absent
    PROVE  downstream'[k].gen >= downstream[k].gen
<1>t. downstream \in [Keys -> Objects] /\ \A o \in Objects : o.gen \in Nat
  BY Generations DEF Typed, TypeOK
<1>1. CASE downstream'[k] = downstream[k]
  BY <1>1, <1>t
<1>2. CASE downstream'[k] # downstream[k]
  <2>1. PICK v \in Workers :
            /\ worker[v].pc # "idle"
            /\ downstream' = [downstream EXCEPT ![worker[v].key] = worker[v].obj]
    BY <1>2, <1>t DEF Next, vars, external, WorkerStep, UpstreamWrite,
       UpstreamStatusWrite, UpstreamDelete, InformerStep, Handle, HandleTombstone,
       Backoff, GetItem, Process, ensureDownstreamNamespaceExists, applyToDownstream,
       deleteFromDownstream, FinishItem, RequestFails, Relist, Crash, Start
  <2>2. worker[v].key = k /\ downstream'[k] = worker[v].obj
    BY <1>2, <1>t, <2>1
  <2>3. worker[v].obj \in Held(k)
    BY <2>2 DEF Held
  <2>4. worker[v].obj \in Objects
    BY <2>1, BusyWorker DEF Typed
  <2> QED BY <1>t, <2>2, <2>3, <2>4 DEF Ordered, InOrder, NotAfter
<1> QED BY <1>1, <1>2

\* The content that the regional hub has of an object never goes back to an
\* earlier one, for any number of workers and objects, however long a worker
\* waits between its read of the cache and its write, and through failed
\* requests, broken watches and restarts.
THEOREM NeverGoesBack == Spec => NoRegression
<1>1. Init => \A k \in Keys : Ordered(k)
  <2> SUFFICES ASSUME Init, NEW k \in Keys PROVE Ordered(k)
    OBVIOUS
  <2>1. /\ downstream[k] = Absent /\ cache[k] = Absent /\ upstream[k] = Absent
        /\ Len(stream[k]) = 0 /\ writes = 0
        /\ \A w \in Workers : worker[w].key # k
    BY SyncerAssumption DEF Init, IdleWorker
  <2>2. Held(k) = {}
    BY <2>1 DEF Held
  <2> QED BY <2>1, <2>2, Generations DEF Ordered, InOrder, Precedes, NotAfter
<1>2. SyncInv /\ (\A k \in Keys : Ordered(k)) /\ [Next]_vars
          => (\A k \in Keys : Ordered(k))'
  <2> SUFFICES ASSUME SyncInv, \A k \in Keys : Ordered(k), [Next]_vars, NEW k \in Keys
               PROVE  Ordered(k)'
    OBVIOUS
  <2> QED BY NextOrdered DEF SyncInv
<1>3. SyncInv /\ (\A k \in Keys : Ordered(k)) /\ [Next]_vars
          => [\A k \in Keys : downstream'[k] # Absent =>
                                  downstream'[k].gen >= downstream[k].gen]_vars
  <2> SUFFICES ASSUME SyncInv, \A k \in Keys : Ordered(k), [Next]_vars, NEW k \in Keys,
                      downstream'[k] # Absent
               PROVE  downstream'[k].gen >= downstream[k].gen
    OBVIOUS
  <2> QED BY NextNoRegression DEF SyncInv
<1> QED BY <1>1, <1>2, <1>3, SyncInvariant, PTL DEF Spec, NoRegression

-------------------------------------------------------------------------------
(* The contents under way, as values.                                      *)

\* The contents that the cache goes through while it takes in the events s.
Later(s) == [i \in 1..Len(s) |-> I!CacheAfter(s[i])]

\* The contents of events are objects.
LEMMA LaterType ==
    ASSUME NEW s \in Seq(I!Events(Objects))
    PROVE  /\ Later(s) \in Seq(Objects)
           /\ Len(Later(s)) = Len(s)
           /\ \A i \in 1..Len(s) : Later(s)[i] = I!CacheAfter(s[i])
<1>1. Len(s) \in Nat /\ \A i \in 1..Len(s) : I!CacheAfter(s[i]) \in Objects
  BY Generations, ElementOfSeq, LenProperties
<1>2. Later(s) \in [1..Len(s) -> Objects]
  BY <1>1 DEF Later
<1>3. Later(s) \in Seq(Objects)
  BY <1>1, <1>2, IsASeq DEF Later
<1>4. Len(Later(s)) = Len(s)
  BY <1>1, <1>2, <1>3, LenProperties
<1> QED BY <1>3, <1>4 DEF Later

\* The event at the head of s is of the first list.
First(s) == s # <<>> /\ s[1].type = "initial"

\* What the cache goes through starts with what it holds, unless the first list
\* is still to come.
LEMMA UpcomingForms ==
    ASSUME NEW c \in Objects, NEW s \in Seq(I!Events(Objects))
    PROVE  /\ I!Upcoming(c, s) \in Seq(Objects) /\ I!Upcoming(c, s) # <<>>
           /\ First(s) => I!Upcoming(c, s) = Later(s)
           /\ ~First(s) => I!Upcoming(c, s) = <<c>> \o Later(s) /\ Head(I!Upcoming(c, s)) = c
<1> DEFINE l == Later(s)
           r == <<c>> \o l
<1>1. l \in Seq(Objects) /\ Len(l) = Len(s)
  BY LaterType
<1> HIDE DEF l
<1>2. r \in Seq(Objects) /\ Len(l) \in Nat /\ Len(r) = Len(l) + 1 /\ r[1] = c
  BY <1>1, R!ConsElements
<1> HIDE DEF r
<1>3. r # <<>> /\ Head(r) = c
  BY <1>2
<1>4. I!Upcoming(c, s) = IF s # <<>> /\ Head(s).type = "initial" THEN l ELSE r
  BY DEF I!Upcoming, Later, l, r
<1>5. s # <<>> => Head(s) = s[1] /\ l # <<>>
  BY <1>1, TailElements
<1> QED BY <1>1, <1>2, <1>3, <1>4, <1>5 DEF First, l, r

\* An event of the watch adds what it makes of the object.
LEMMA UpcomingAppend ==
    ASSUME NEW c \in Objects, NEW s \in Seq(I!Events(Objects)),
           NEW e \in I!Events(Objects), e.type # "initial"
    PROVE  I!Upcoming(c, Append(s, e)) = Append(I!Upcoming(c, s), I!CacheAfter(e))
<1> DEFINE a == Append(s, e)
           x == I!CacheAfter(e)
<1>1. /\ a \in Seq(I!Events(Objects)) /\ Len(s) \in Nat /\ Len(a) = Len(s) + 1
      /\ \A i \in 1..Len(s) : a[i] = s[i]
      /\ a[Len(s) + 1] = e
      /\ x \in Objects
  BY R!AppendElements, Generations
<1> HIDE DEF a, x
<1>2. First(a) <=> First(s)
  <2>1. CASE s = <<>>
    BY <1>1, <2>1 DEF First
  <2>2. CASE s # <<>>
    <3>1. Len(s) # 0
      BY <2>2, EmptySeq
    <3> QED BY <1>1, <2>2, <3>1 DEF First
  <2> QED BY <2>1, <2>2
<1>3. Later(a) = Append(Later(s), x)
  <2> DEFINE p == Later(s)
             q == Later(a)
             r == Append(p, x)
  <2>1. /\ p \in Seq(Objects) /\ Len(p) = Len(s)
        /\ \A i \in 1..Len(s) : p[i] = I!CacheAfter(s[i])
    BY LaterType
  <2>2. /\ q \in Seq(Objects) /\ Len(q) = Len(a)
        /\ \A i \in 1..Len(a) : q[i] = I!CacheAfter(a[i])
    BY <1>1, LaterType
  <2> HIDE DEF p, q
  <2>3. /\ r \in Seq(Objects) /\ Len(r) = Len(p) + 1
        /\ \A i \in 1..Len(p) : r[i] = p[i]
        /\ r[Len(p) + 1] = x
    BY <1>1, <2>1, R!AppendElements
  <2> HIDE DEF r
  <2>4. ASSUME NEW i \in 1..Len(q) PROVE q[i] = r[i]
    <3>1. i \in 1..Len(s) \/ i = Len(s) + 1
      BY <1>1, <2>2
    <3>2. CASE i \in 1..Len(s)
      BY <1>1, <2>1, <2>2, <2>3, <3>2
    <3>3. CASE i = Len(s) + 1
      BY <1>1, <2>1, <2>2, <2>3, <3>3 DEF x
    <3> QED BY <3>1, <3>2, <3>3
  <2>5. q = r
    BY <1>1, <2>1, <2>2, <2>3, <2>4, R!SameSequence
  <2> QED BY <2>5 DEF p, q, r
<1>4. Later(s) \in Seq(Objects)
  BY LaterType
<1>5. <<c>> \o Append(Later(s), x) = Append(<<c>> \o Later(s), x)
  BY <1>1, <1>4, R!ConsAppend
<1>6. I!Upcoming(c, a) = Append(I!Upcoming(c, s), x)
  BY <1>1, <1>2, <1>3, <1>5, UpcomingForms
<1> QED BY <1>6 DEF a, x

\* An event that reaches the cache uses up what the cache held, if that counted.
LEMMA UpcomingInformer ==
    ASSUME NEW c \in Objects, NEW s \in Seq(I!Events(Objects)), s # <<>>,
           \A i \in 2..Len(s) : s[i].type # "initial"
    PROVE  LET b == I!Upcoming(c, s)
               a == I!Upcoming(I!CacheAfter(s[1]), Tail(s))
           IN  a = b \/ a = Tail(b)
<1> DEFINE t == Tail(s)
           x == I!CacheAfter(s[1])
           r == <<x>> \o Later(t)
<1>1. /\ t \in Seq(I!Events(Objects)) /\ Len(s) \in Nat \ {0} /\ Len(t) = Len(s) - 1
      /\ \A i \in 1..Len(s) - 1 : t[i] = s[i + 1]
  BY TailElements
<1>2. x \in Objects
  BY <1>1, Generations, ElementOfSeq
<1> HIDE DEF t, x
<1>3. ~First(t)
  <2>1. t # <<>> => Len(t) \in Nat \ {0}
    BY <1>1, TailElements
  <2>2. t # <<>> => t[1] = s[2] /\ 2 \in 2..Len(s)
    BY <1>1, <2>1
  <2> QED BY <2>2 DEF First
<1>4. I!Upcoming(x, t) = r
  BY <1>1, <1>2, <1>3, UpcomingForms
<1>5. /\ Later(t) \in Seq(Objects) /\ Len(Later(t)) = Len(t)
      /\ \A i \in 1..Len(t) : Later(t)[i] = I!CacheAfter(t[i])
  BY <1>1, LaterType
<1>6. /\ Later(s) \in Seq(Objects) /\ Len(Later(s)) = Len(s)
      /\ \A i \in 1..Len(s) : Later(s)[i] = I!CacheAfter(s[i])
  BY LaterType
<1>7. /\ r \in Seq(Objects) /\ Len(r) = Len(Later(t)) + 1 /\ r[1] = x
      /\ \A i \in 1..Len(Later(t)) : r[i + 1] = Later(t)[i]
  BY <1>2, <1>5, R!ConsElements
<1> HIDE DEF r
<1>8. ASSUME NEW i \in 1..Len(s) PROVE r[i] = Later(s)[i]
  <2>1. CASE i = 1
    BY <1>6, <1>7, <2>1 DEF x
  <2>2. CASE i # 1
    <3>1. i - 1 \in 1..Len(s) - 1 /\ i = (i - 1) + 1 /\ i - 1 \in 1..Len(t)
      BY <1>1, <2>2
    <3> QED BY <1>1, <1>5, <1>6, <1>7, <3>1
  <2> QED BY <2>1, <2>2
<1>9. r = Later(s)
  BY <1>1, <1>5, <1>6, <1>7, <1>8, R!SameSequence
<1>10. Tail(<<c>> \o Later(s)) = Later(s)
  <2> DEFINE l == Later(s)
             p == <<c>> \o l
  <2> HIDE DEF l
  <2>1. l \in Seq(Objects)
    BY <1>6 DEF l
  <2>2. /\ p \in Seq(Objects) /\ Len(l) \in Nat /\ Len(p) = Len(l) + 1
        /\ \A i \in 1..Len(l) : p[i + 1] = l[i]
    BY <2>1, R!ConsElements
  <2> HIDE DEF p
  <2>3. p # <<>>
    BY <2>2
  <2>4. /\ Tail(p) \in Seq(Objects) /\ Len(Tail(p)) = Len(p) - 1
        /\ \A i \in 1..Len(p) - 1 : Tail(p)[i] = p[i + 1]
    BY <2>2, <2>3, TailElements
  <2>5. Tail(p) = l
    BY <2>1, <2>2, <2>4, R!SameSequence
  <2> QED BY <2>5 DEF p, l
<1>11. I!Upcoming(c, s) = Later(s) \/ I!Upcoming(c, s) = <<c>> \o Later(s)
  BY UpcomingForms
<1>12. I!Upcoming(x, t) = I!Upcoming(c, s) \/ I!Upcoming(x, t) = Tail(I!Upcoming(c, s))
  BY <1>4, <1>9, <1>10, <1>11
<1> QED BY <1>12 DEF x, t

\* A list leaves at most what the cache holds and what the source has.
LEMMA UpcomingList ==
    ASSUME NEW c \in Objects, NEW u \in Objects
    PROVE  /\ \/ I!Upcoming(c, I!ReList(u, c)) = <<c, u>>
              \/ I!Upcoming(c, I!ReList(u, c)) = <<c>> /\ c = u
           /\ I!Upcoming(Absent, I!FirstList(u)) = <<u>>
<1> DEFINE p == [type |-> "replaced", obj |-> u]
           g == [type |-> "gone", obj |-> c]
           f == [type |-> "initial", obj |-> u]
<1>1. I!CacheAfter(p) = u /\ I!CacheAfter(g) = Absent /\ I!CacheAfter(f) = u
  BY DEF I!CacheAfter
<1>2. p \in I!Events(Objects) /\ g \in I!Events(Objects) /\ f \in I!Events(Objects)
  BY DEF I!Events, I!EventTypes
<1>3. ~First(<<p>>) /\ ~First(<<g>>) /\ ~First(<<>>) /\ First(<<f>>)
  BY DEF First
<1> HIDE DEF p, g, f
<1>4. ASSUME NEW e \in I!Events(Objects)
      PROVE  /\ Later(<<e>>) = <<I!CacheAfter(e)>>
             /\ <<c>> \o Later(<<e>>) = <<c, I!CacheAfter(e)>>
  <2>1. Later(<<e>>) = <<I!CacheAfter(e)>>
    BY DEF Later
  <2>2. I!CacheAfter(e) \in Objects
    BY Generations
  <2> DEFINE x == I!CacheAfter(e)
  <2> HIDE DEF x
  <2>3. x \in Objects
    BY <2>2 DEF x
  <2>4. <<c>> \o <<x>> = <<c, x>>
    <3> DEFINE l == <<x>>
               q == <<c>> \o l
               r == <<c, x>>
    <3>1. l \in Seq(Objects) /\ Len(l) = 1 /\ l[1] = x
      BY <2>3
    <3>2. r \in Seq(Objects) /\ Len(r) = 2 /\ r[1] = c /\ r[2] = x
      BY <2>3
    <3> HIDE DEF l, r
    <3>3. /\ q \in Seq(Objects) /\ Len(q) = Len(l) + 1 /\ q[1] = c
          /\ \A i \in 1..Len(l) : q[i + 1] = l[i]
      BY <3>1, R!ConsElements
    <3> HIDE DEF q
    <3>4. q[1 + 1] = x
      BY <3>1, <3>3
    <3>5. Len(q) = 2 /\ \A i \in 1..2 : i = 1 \/ i = 1 + 1
      BY <3>1, <3>3
    <3>6. q = r
      BY <3>2, <3>3, <3>4, <3>5, R!SameSequence
    <3> QED BY <3>6 DEF l, q, r
  <2> QED BY <2>1, <2>4 DEF x
<1>5. Later(<<>>) = <<>>
  BY DEF Later
<1>6. CASE u # Absent
  <2>1. I!ReList(u, c) = <<p>> /\ I!FirstList(u) = <<f>>
    BY <1>6 DEF I!ReList, I!FirstList, p, f
  <2>2. <<p>> \in Seq(I!Events(Objects)) /\ <<f>> \in Seq(I!Events(Objects))
    BY <1>2
  <2> QED BY <1>1, <1>2, <1>3, <1>4, <2>1, <2>2, AbsentType, UpcomingForms
<1>7. CASE u = Absent
  <2>1. I!FirstList(u) = <<>>
    BY <1>7 DEF I!FirstList
  <2>2. <<>> \in Seq(I!Events(Objects))
    OBVIOUS
  <2>3. \A o \in Objects : <<o>> \o <<>> = <<o>>
    OBVIOUS
  <2>4. \A o \in Objects : I!Upcoming(o, <<>>) = <<o>>
    BY <1>3, <1>5, <2>2, <2>3, UpcomingForms
  <2>5. CASE c # Absent
    <3>1. I!ReList(u, c) = <<g>>
      BY <1>7, <2>5 DEF I!ReList, g
    <3>2. <<g>> \in Seq(I!Events(Objects))
      BY <1>2
    <3> QED BY <1>1, <1>2, <1>3, <1>4, <1>7, <2>1, <2>4, <3>1, <3>2, AbsentType, UpcomingForms
  <2>6. CASE c = Absent
    <3>1. I!ReList(u, c) = <<>>
      BY <1>7, <2>6 DEF I!ReList
    <3> QED BY <1>7, <2>1, <2>4, <2>6, <3>1, AbsentType
  <2> QED BY <2>5, <2>6
<1> QED BY <1>6, <1>7

-------------------------------------------------------------------------------
(* The first list.                                                         *)

\* The event of a first list is the first for its object, and no worker has
\* started while one is still to come.
FirstListFirst ==
    \A k \in Keys : \A i \in 1..Len(stream[k]) :
        stream[k][i].type = "initial" =>
            i = 1 /\ \A w \in Workers : worker[w].pc = "idle"

\* Every step keeps the first list first.
LEMMA NextFirstListFirst ==
    Typed /\ StoppedIsEmpty /\ FirstListFirst /\ [Next]_vars => FirstListFirst'
<1> SUFFICES ASSUME Typed, StoppedIsEmpty, FirstListFirst, [Next]_vars,
                    NEW k \in Keys, NEW i \in 1..Len(stream'[k]),
                    stream'[k][i].type = "initial"
             PROVE  i = 1 /\ \A w \in Workers : worker'[w].pc = "idle"
  BY DEF FirstListFirst
<1>f. stream \in [Keys -> Seq(I!Events(Objects))] /\ worker \in [Workers -> WorkerTypes]
  BY DEF Typed, TypeOK, WorkerTypes
<1>s. stream[k] \in Seq(I!Events(Objects)) /\ Len(stream[k]) \in Nat
  BY <1>f, LenProperties
<1>1. ASSUME NEW j \in Keys, NEW t \in {"modified", "deleted"}, NEW o \in Objects,
             Watch(j, t, o), worker' = worker
      PROVE  i = 1 /\ \A w \in Workers : worker'[w].pc = "idle"
  <2>1. t \in I!EventTypes
    BY DEF I!EventTypes
  <2>2. CASE stream'[k] = stream[k]
    BY <1>1, <2>2 DEF FirstListFirst
  <2>3. CASE stream'[k] # stream[k]
    <3>1. /\ Len(stream'[k]) = Len(stream[k]) + 1
          /\ \A h \in 1..Len(stream[k]) : stream'[k][h] = stream[k][h]
          /\ stream'[k][Len(stream[k]) + 1] = [type |-> t, obj |-> o]
      BY <1>1, <2>1, <2>3, WatchEvents
    <3>2. i \in 1..Len(stream[k]) \/ i = Len(stream[k]) + 1
      BY <1>s, <3>1
    <3>3. i # Len(stream[k]) + 1
      BY <3>1
    <3> QED BY <1>1, <3>1, <3>2, <3>3 DEF FirstListFirst
  <2> QED BY <2>2, <2>3
<1>2. ASSUME NEW j \in Keys, NEW ready \in ReadyLabels, UpstreamWrite(j, ready)
      PROVE  i = 1 /\ \A w \in Workers : worker'[w].pc = "idle"
  <2>1. [gen |-> writes + 1, ready |-> ready] \in Objects
    BY SyncerAssumption DEF Typed, TypeOK, Objects
  <2> QED BY <1>1, <1>2, <2>1 DEF UpstreamWrite
<1>3. ASSUME NEW j \in Keys, UpstreamStatusWrite(j)
      PROVE  i = 1 /\ \A w \in Workers : worker'[w].pc = "idle"
  BY <1>1, <1>3 DEF UpstreamStatusWrite, Typed, TypeOK
<1>4. ASSUME NEW j \in Keys, UpstreamDelete(j)
      PROVE  i = 1 /\ \A w \in Workers : worker'[w].pc = "idle"
  BY <1>1, <1>4 DEF UpstreamDelete, Typed, TypeOK
<1>5. ASSUME NEW j \in Keys, InformerStep(j)
      PROVE  i = 1 /\ \A w \in Workers : worker'[w].pc = "idle"
  <2>1. worker' = worker
    BY <1>5 DEF InformerStep
  <2>2. CASE j # k
    BY <1>5, <2>1, <2>2, InformerEvents DEF FirstListFirst
  <2>3. CASE j = k
    <3>1. /\ Len(stream'[k]) = Len(stream[k]) - 1
          /\ \A h \in 1..Len(stream[k]) - 1 : stream'[k][h] = stream[k][h + 1]
      BY <1>5, <2>3, InformerEvents
    <3>2. i + 1 \in 1..Len(stream[k]) /\ stream'[k][i] = stream[k][i + 1] /\ i + 1 # 1
      BY <1>s, <3>1
    <3> QED BY <3>2 DEF FirstListFirst
  <2> QED BY <2>2, <2>3
<1>6. CASE NoProcess
  BY <1>6 DEF NoProcess
<1>7. CASE Relist
  <2> DEFINE u == upstream[k]
             c == cache[k]
             r == I!ReList(u, c)
  <2>1. stream'[k] = r /\ i \in 1..Len(r) /\ u \in Objects /\ c \in Objects
    BY <1>7 DEF Relist, Typed, TypeOK
  <2> HIDE DEF u, c
  <2>3. CASE r = <<>>
    BY <2>1, <2>3
  <2>4. CASE r # <<>>
    <3>1. PICK e : r = <<e>> /\ e.type # "initial"
      BY <2>4 DEF I!ReList
    <3>2. Len(r) = 1 /\ r[1] = e
      BY <3>1
    <3> HIDE DEF r
    <3> QED BY <2>1, <3>1, <3>2
  <2> QED BY <2>3, <2>4
<1>8. CASE Start
  <2>1. stream'[k] = I!FirstList(upstream[k]) /\ upstream[k] \in Objects
    BY <1>8 DEF Start, Typed, TypeOK
  <2>2. worker' = [w \in Workers |-> IdleWorker]
    BY <1>8 DEF Start, StoppedIsEmpty
  <2> QED BY <2>1, <2>2, FirstListEvents DEF IdleWorker
<1>9. ASSUME NEW v \in Workers, NEW j \in Keys, GetItem(v, j)
      PROVE  i = 1 /\ \A w \in Workers : worker'[w].pc = "idle"
  <2>1. stream' = stream /\ stream[k][i].type # "initial"
    BY <1>9, <1>f DEF GetItem, I!HasSynced
  <2> QED BY <2>1
<1>10. ASSUME NEW v \in Workers, worker[v].pc # "idle", stream' = stream
       PROVE  i = 1 /\ \A w \in Workers : worker'[w].pc = "idle"
  BY <1>10 DEF FirstListFirst
<1>11. ASSUME NEW v \in Workers, WorkerStep(v) \/ \E done \in BOOLEAN : RequestFails(v, done)
       PROVE  i = 1 /\ \A w \in Workers : worker'[w].pc = "idle"
  <2>1. worker[v].pc # "idle" /\ stream' = stream
    BY <1>11 DEF WorkerStep, Process, ensureDownstreamNamespaceExists, applyToDownstream,
       deleteFromDownstream, FinishItem, RequestFails
  <2> QED BY <1>10, <2>1
<1>12. CASE UNCHANGED <<stream, worker>>
  BY <1>12 DEF FirstListFirst
<1> QED BY <1>2, <1>3, <1>4, <1>5, <1>6, <1>7, <1>8, <1>9, <1>11, <1>12
        DEF Next, vars, Handle, HandleTombstone, Backoff, Crash

-------------------------------------------------------------------------------
(* Every write follows the history of the object.                          *)

HoldPhases == {"ensure", "patch", "delete"}

\* The contents of k that workers are about to write.
Holding(k) ==
    {worker[w].obj : w \in {v \in Workers : worker[v].key = k /\ worker[v].pc \in HoldPhases}}

Coming(k) == I!Upcoming(cache[k], stream[k])

\* What is under way of an object is a line.
InLine(k) ==
    /\ Holding(k) \in SUBSET Objects /\ R!Single(Holding(k))
    /\ Coming(k) \in Seq(Objects) /\ Coming(k) # <<>>
    /\ Trail(k) = IF running THEN R!Line(Holding(k), Coming(k)) ELSE <<upstream[k]>>

\* The trail of an object is a line, since it is in the hands of one worker only.
LEMMA TrailsInLine ==
    ASSUME Typed, WorkSerialised, NEW k \in Keys
    PROVE  InLine(k)
<1> DEFINE holders == {w \in Workers : /\ worker[w].key = k
                                       /\ worker[w].pc \in HoldPhases}
<1>1. \A v, w \in holders : v = w
  <2>1. k # NoKey
    BY SyncerAssumption
  <2> QED BY <2>1 DEF WorkSerialised
<1>2. Holding(k) \in SUBSET Objects /\ R!Single(Holding(k))
  BY <1>1 DEF Holding, R!Single, Typed, TypeOK
<1>3. Coming(k) \in Seq(Objects) /\ Coming(k) # <<>>
  BY UpcomingForms DEF Coming, Typed, TypeOK
<1>4. CASE running
  <2>1. Trail(k) = IF \A w \in holders : worker[w].obj = Head(Coming(k)) THEN Coming(k)
                   ELSE <<worker[CHOOSE w \in holders : TRUE].obj>> \o Coming(k)
    BY <1>4 DEF Trail, Coming, HoldPhases
  <2>2. (\A w \in holders : worker[w].obj = Head(Coming(k)))
            <=> \A o \in Holding(k) : o = Head(Coming(k))
    BY DEF Holding
  <2>3. CASE holders = {}
    BY <1>2, <1>3, <1>4, <2>1, <2>2, <2>3 DEF InLine, R!Line
  <2>4. CASE holders # {}
    <3> DEFINE v == CHOOSE w \in holders : TRUE
    <3>1. v \in holders
      BY <2>4
    <3>2. Holding(k) = {worker[v].obj}
      BY <1>1, <3>1 DEF Holding
    <3>3. (CHOOSE o \in Holding(k) : TRUE) = worker[v].obj
      BY <3>2
    <3> HIDE DEF holders, v
    <3>4. Trail(k) = R!Line(Holding(k), Coming(k))
      BY <2>1, <2>2, <3>3 DEF R!Line, v
    <3> QED BY <1>2, <1>3, <1>4, <3>4 DEF InLine
  <2> QED BY <2>3, <2>4
<1>5. CASE ~running
  BY <1>2, <1>3, <1>5 DEF InLine, Trail
<1> QED BY <1>4, <1>5

\* A worker that goes on with an object takes it in hand, or lets go of it.
LEMMA HoldingAfterWork ==
    ASSUME Typed, WorkSerialised, NEW v \in Workers, worker[v].pc # "idle",
           NEW pc, NEW o, Work(v, pc, o), NEW k \in Keys
    PROVE  /\ worker[v].key # k => Holding(k)' = Holding(k)
           /\ worker[v].key = k =>
                 /\ Holding(k) = IF worker[v].pc \in HoldPhases THEN {worker[v].obj} ELSE {}
                 /\ Holding(k)' = IF pc \in HoldPhases THEN {o} ELSE {}
<1>1. /\ worker'[v] = [pc |-> pc, key |-> worker[v].key, obj |-> o]
      /\ \A w \in Workers : w # v => worker'[w] = worker[w]
  BY WorkEffect
<1>2. worker'[v].key = worker[v].key /\ worker'[v].obj = o /\ worker'[v].pc = pc
  BY <1>1
<1>3. CASE worker[v].key # k
  <2>1. \A w \in Workers : worker'[w].key = k <=> worker[w].key = k
    BY <1>1, <1>2
  <2>2. \A w \in Workers : worker[w].key = k => worker'[w] = worker[w]
    BY <1>1, <1>3
  <2> QED BY <1>3, <2>1, <2>2 DEF Holding
<1>4. CASE worker[v].key = k
  <2>1. k # NoKey
    BY SyncerAssumption
  <2>2. \A w \in Workers : worker[w].key = k <=> w = v
    BY <1>4, <2>1 DEF WorkSerialised
  <2>3. \A w \in Workers : worker'[w].key = k <=> w = v
    BY <1>1, <1>2, <1>4, <2>2
  <2>4. Holding(k) = IF worker[v].pc \in HoldPhases THEN {worker[v].obj} ELSE {}
    BY <2>2 DEF Holding
  <2>5. Holding(k)' = IF pc \in HoldPhases THEN {o} ELSE {}
    BY <1>2, <2>3 DEF Holding
  <2> QED BY <1>4, <2>4, <2>5
<1> QED BY <1>3, <1>4

\* The trail of an object that a step leaves alone does not change.
LEMMA TrailKept ==
    ASSUME NEW k \in Keys, InLine(k), InLine(k)', running' = running,
           upstream'[k] = upstream[k], Holding(k)' = Holding(k), Coming(k)' = Coming(k)
    PROVE  Trail(k)' = Trail(k)
BY DEF InLine

\* If only one trail changes, the others are the same function.
LEMMA OneTrail ==
    ASSUME NEW j \in Keys, \A k \in Keys : k # j => Trail(k)' = Trail(k)
    PROVE  R!Only(j, [k \in Keys |-> Trail(k)], [k \in Keys |-> Trail(k)'])
BY DEF R!Only

\* Every step of the syncer is a step of the replication it implements, or none.
LEMMA NextReplicates ==
    ASSUME Typed, WorkSerialised, StoppedIsEmpty, DeletesAbsent, FirstListFirst,
           \A k \in Keys : InLine(k) /\ InLine(k)', [Next]_vars
    PROVE  [R!Next]_(R!vars)
<1> DEFINE trail == [k \in Keys |-> Trail(k)]
           next == [k \in Keys |-> Trail(k)']
<1>f. /\ upstream \in [Keys -> Objects]
      /\ downstream \in [Keys -> Objects]
      /\ cache \in [Keys -> Objects]
      /\ stream \in [Keys -> Seq(I!Events(Objects))]
      /\ worker \in [Workers -> WorkerTypes]
      /\ running \in BOOLEAN
  BY DEF Typed, TypeOK, WorkerTypes
<1>t. \A k \in Keys : Trail(k) \in Seq(Objects) /\ Trail(k) # <<>>
  <2> SUFFICES ASSUME NEW k \in Keys PROVE Trail(k) \in Seq(Objects) /\ Trail(k) # <<>>
    OBVIOUS
  <2>1. CASE running
    BY <2>1, R!LineForms DEF InLine
  <2>2. CASE ~running
    <3>1. Trail(k) = <<upstream[k]>> /\ upstream[k] \in Objects
      BY <1>f, <2>2 DEF InLine
    <3> QED BY <3>1
  <2> QED BY <2>1, <2>2
<1>b. \A v \in Workers : worker[v].pc # "idle" => running
  BY DEF StoppedIsEmpty, IdleWorker
<1>w. worker' = worker => \A k \in Keys : Holding(k)' = Holding(k)
  BY DEF Holding
<1>c. cache' = cache /\ stream' = stream => \A k \in Keys : Coming(k)' = Coming(k)
  BY DEF Coming
<1>r. ASSUME UNCHANGED <<upstream, downstream>>,
             \A k \in Keys : \/ Trail(k)' = Trail(k)
                             \/ R!LeavesOut(Trail(k)', Trail(k))
                             \/ R!LeavesOut(Trail(k)', Append(Trail(k), upstream[k]))
      PROVE  R!Next
  <2>1. \A k \in Keys : R!Overtaken(next[k], trail[k], upstream[k])
    BY <1>r, R!LeavesOutNothing DEF R!Overtaken
  <2> QED BY <1>r, <2>1 DEF R!Next, R!Refresh
<1>1. ASSUME NEW j \in Keys, NEW e \in I!Events(Objects), e.type # "initial",
             Watch(j, e.type, e.obj),
             upstream' = [upstream EXCEPT ![j] = I!CacheAfter(e)],
             UNCHANGED <<downstream, running, cache, worker>>
      PROVE  R!Next
  <2>1. [type |-> e.type, obj |-> e.obj] = e
    BY DEF I!Events
  <2>2. stream' = IF running THEN [stream EXCEPT ![j] = Append(stream[j], e)] ELSE stream
    BY <1>1, <2>1 DEF Watch
  <2>3. ASSUME NEW k \in Keys, k # j PROVE Trail(k)' = Trail(k)
    <3>1. stream'[k] = stream[k] /\ upstream'[k] = upstream[k]
      BY <1>1, <1>f, <2>2, <2>3
    <3>2. Coming(k)' = Coming(k)
      BY <1>1, <3>1 DEF Coming
    <3> QED BY <1>1, <1>w, <3>1, <3>2, TrailKept
  <2>4. upstream'[j] = I!CacheAfter(e) /\ upstream'[j] \in Objects
    BY <1>1, <1>f, Generations
  <2>5. R!LeavesOut(Trail(j)', Append(Trail(j), upstream'[j]))
    <3>1. CASE running
      <4>1. stream'[j] = Append(stream[j], e)
        <5>1. stream' = [stream EXCEPT ![j] = Append(stream[j], e)]
          BY <2>2, <3>1
        <5> QED BY <1>f, <5>1
      <4>2. stream[j] \in Seq(I!Events(Objects)) /\ cache[j] \in Objects
        BY <1>f
      <4>3. Coming(j)' = Append(Coming(j), upstream'[j])
        BY <1>1, <2>4, <4>1, <4>2, UpcomingAppend DEF Coming
      <4>4. Trail(j)' = R!Line(Holding(j), Append(Coming(j), upstream'[j]))
        BY <1>1, <1>w, <3>1, <4>3 DEF InLine
      <4>5. Trail(j) = R!Line(Holding(j), Coming(j))
        BY <3>1 DEF InLine
      <4> DEFINE u == upstream'[j]
                 H == Holding(j)
                 c == Coming(j)
      <4>6. u \in Objects /\ H \in SUBSET Objects /\ R!Single(H) /\ c \in Seq(Objects) /\ c # <<>>
        BY <2>4 DEF InLine
      <4> HIDE DEF u, H, c
      <4>7. R!Line(H, Append(c, u)) = Append(R!Line(H, c), u)
        BY <4>6, R!LineAppend
      <4>8. Trail(j)' = Append(Trail(j), upstream'[j])
        BY <4>4, <4>5, <4>7 DEF u, H, c
      <4> QED BY <4>8, R!LeavesOutNothing
    <3>2. CASE ~running
      <4>1. Trail(j)' = <<upstream'[j]>>
        BY <1>1, <3>2 DEF InLine
      <4> QED BY <1>t, <2>4, <4>1, R!LeavesOutButLast
    <3> QED BY <3>1, <3>2
  <2>6. upstream' = [upstream EXCEPT ![j] = upstream'[j]]
    BY <1>1, <2>4
  <2>7. R!Only(j, trail, next)
    BY <2>3, OneTrail
  <2>8. R!Change(j)
    BY <1>1, <2>5, <2>6, <2>7 DEF R!Change, R!Only
  <2> QED BY <2>8 DEF R!Next
<1>2. ASSUME NEW j \in Keys, NEW ready \in ReadyLabels, UpstreamWrite(j, ready)
      PROVE  R!Next
  <2> DEFINE o == [gen |-> writes + 1, ready |-> ready]
             e == [type |-> "modified", obj |-> o]
  <2>1. e \in I!Events(Objects)
    BY SyncerAssumption DEF Typed, TypeOK, Objects, I!EventTypes, I!Events
  <2>2. I!CacheAfter(e) = o /\ e.type = "modified" /\ e.obj = o
    BY DEF I!CacheAfter
  <2>3. Watch(j, "modified", o) /\ upstream' = [upstream EXCEPT ![j] = o]
    BY <1>2 DEF UpstreamWrite
  <2> HIDE DEF o, e
  <2> QED BY <1>1, <1>2, <2>1, <2>2, <2>3 DEF UpstreamWrite
<1>3. ASSUME NEW j \in Keys, UpstreamStatusWrite(j)
      PROVE  R!Next
  <2> DEFINE o == upstream[j]
             e == [type |-> "modified", obj |-> o]
  <2>1. e \in I!Events(Objects)
    BY <1>f DEF I!EventTypes, I!Events
  <2>2. I!CacheAfter(e) = o /\ e.type = "modified" /\ e.obj = o
    BY DEF I!CacheAfter
  <2>3. Watch(j, "modified", o) /\ upstream' = [upstream EXCEPT ![j] = o]
    BY <1>3, <1>f DEF UpstreamStatusWrite
  <2> HIDE DEF e
  <2> QED BY <1>1, <1>3, <2>1, <2>2, <2>3 DEF UpstreamStatusWrite
<1>4. ASSUME NEW j \in Keys, UpstreamDelete(j)
      PROVE  R!Next
  <2> DEFINE o == upstream[j]
             e == [type |-> "deleted", obj |-> o]
  <2>1. e \in I!Events(Objects)
    BY <1>f DEF I!EventTypes, I!Events
  <2>2. I!CacheAfter(e) = Absent /\ e.type = "deleted" /\ e.obj = o
    BY DEF I!CacheAfter
  <2>3. Watch(j, "deleted", o) /\ upstream' = [upstream EXCEPT ![j] = Absent]
    BY <1>4, <1>f DEF UpstreamDelete
  <2> HIDE DEF e
  <2> QED BY <1>1, <1>4, <2>1, <2>2, <2>3 DEF UpstreamDelete
<1>5. ASSUME NEW j \in Keys, InformerStep(j)
      PROVE  R!Next
  <2>1. UNCHANGED <<upstream, downstream, running, worker>>
    BY <1>5 DEF InformerStep, external
  <2>2. ASSUME NEW k \in Keys, k # j PROVE Trail(k)' = Trail(k)
    <3>1. Coming(k)' = Coming(k)
      BY <1>5, <2>2, InformerEvents DEF Coming
    <3> QED BY <1>w, <2>1, <3>1, TrailKept
  <2>3. running
    BY <1>5 DEF InformerStep, StoppedIsEmpty
  <2>4. /\ stream'[j] = Tail(stream[j]) /\ cache'[j] = I!CacheAfter(stream[j][1])
        /\ stream[j] # <<>>
    BY <1>5, InformerEvents DEF InformerStep
  <2> DEFINE c == Coming(j)
             b == Coming(j)'
             H == Holding(j)
  <2>5. b = c \/ b = Tail(c)
    <3>1. /\ cache[j] \in Objects /\ stream[j] \in Seq(I!Events(Objects))
          /\ Len(stream[j]) \in Nat
      BY <1>f, LenProperties
    <3>2. \A i \in 2..Len(stream[j]) : stream[j][i].type # "initial"
      <4>1. \A i \in 2..Len(stream[j]) : i \in 1..Len(stream[j]) /\ i # 1
        BY <3>1
      <4> QED BY <4>1 DEF FirstListFirst
    <3> QED BY <2>4, <3>1, <3>2, UpcomingInformer DEF Coming
  <2>6. /\ H \in SUBSET Objects /\ R!Single(H) /\ c \in Seq(Objects) /\ c # <<>>
        /\ b \in Seq(Objects) /\ b # <<>>
        /\ Trail(j) = R!Line(H, c)
    BY <2>3 DEF InLine
  <2>7. Trail(j)' = R!Line(H, b)
    BY <1>w, <2>1, <2>3 DEF InLine
  <2> HIDE DEF c, b, H
  <2>8. CASE b = c
    BY <1>r, <2>1, <2>2, <2>6, <2>7, <2>8
  <2>9. CASE b = Tail(c)
    <3>1. R!LeavesOut(b, c)
      <4>1. c = <<Head(c)>> \o b /\ Head(c) \in Objects
        BY <2>6, <2>9, R!HeadInFront
      <4>2. R!LeavesOut(b, <<Head(c)>> \o b)
        BY <2>6, <4>1, R!LeavesOutFirst
      <4> QED BY <4>1, <4>2
    <3>2. R!LeavesOut(R!Line(H, b), R!Line(H, c))
      BY <2>6, <2>9, <3>1, R!LineShortens
    <3> QED BY <1>r, <2>1, <2>2, <2>6, <2>7, <3>2
  <2> QED BY <2>5, <2>8, <2>9
<1>6. CASE NoProcess /\ UNCHANGED <<upstream, downstream>>
  <2>1. ASSUME NEW k \in Keys
        PROVE  R!LeavesOut(Trail(k)', Append(Trail(k), upstream[k]))
    <3>1. Trail(k)' = <<upstream[k]>>
      BY <1>6 DEF NoProcess, InLine
    <3> QED BY <1>f, <1>t, <3>1, R!LeavesOutButLast
  <2> QED BY <1>r, <1>6, <2>1
<1>7. CASE Relist
  <2>1. UNCHANGED <<upstream, downstream, running, worker, cache>> /\ running
    BY <1>7 DEF Relist, external
  <2>2. ASSUME NEW k \in Keys
        PROVE  R!LeavesOut(Trail(k)', Append(Trail(k), upstream[k]))
    <3> DEFINE c == Coming(k)
               H == Holding(k)
               u == upstream[k]
               a == Append(c, u)
               b == Coming(k)'
    <3>1. /\ H \in SUBSET Objects /\ R!Single(H) /\ c \in Seq(Objects) /\ c # <<>>
          /\ u \in Objects /\ b \in Seq(Objects) /\ b # <<>>
          /\ Trail(k) = R!Line(H, c)
      BY <1>f, <2>1 DEF InLine
    <3>2. Trail(k)' = R!Line(H, b)
      BY <1>w, <2>1 DEF InLine
    <3>3. Head(c) = cache[k]
      <4>1. ~First(stream[k])
        <5>1. stream[k] \in Seq(I!Events(Objects))
          BY <1>f
        <5>2. stream[k] # <<>> => 1 \in 1..Len(stream[k])
          BY <5>1, TailElements
        <5> QED BY <1>7, <1>f, <5>2 DEF Relist, I!HasSynced, First
      <4> QED BY <1>f, <4>1, UpcomingForms DEF Coming
    <3>4. stream'[k] = I!ReList(u, cache[k]) /\ cache'[k] = cache[k]
      BY <1>7, <2>1 DEF Relist
    <3>5. b = <<Head(c), u>> \/ (b = <<Head(c)>> /\ Head(c) = u)
      <4>1. cache[k] \in Objects
        BY <1>f
      <4>2. b = I!Upcoming(cache[k], I!ReList(u, cache[k]))
        BY <3>4 DEF Coming
      <4> HIDE DEF b, u
      <4> QED BY <3>1, <3>3, <4>1, <4>2, UpcomingList
    <3>6. R!Line(H, a) = Append(R!Line(H, c), u)
      <4> HIDE DEF H, c, u
      <4> QED BY <3>1, R!LineAppend
    <3> HIDE DEF H, c, u, b
    <3>7. /\ a \in Seq(Objects) /\ Len(c) \in Nat \ {0} /\ Len(a) = Len(c) + 1
          /\ \A i \in 1..Len(c) : a[i] = c[i]
      BY <3>1, R!AppendElements, TailElements
    <3>8. R!LeavesOut(b, a)
      BY <3>1, <3>5, R!LeavesOutBetween, R!LeavesOutButLast
    <3> HIDE DEF a
    <3>9. a # <<>> /\ Head(a) = Head(c)
      BY <3>1, <3>7
    <3>10. Head(b) = Head(a)
      BY <3>5, <3>9
    <3>11. R!LeavesOut(R!Line(H, b), R!Line(H, a))
      BY <3>1, <3>7, <3>8, <3>9, <3>10, R!LineShortens
    <3> QED BY <3>1, <3>2, <3>6, <3>11 DEF u
  <2> QED BY <1>r, <2>1, <2>2
<1>8. CASE Start
  <2>1. UNCHANGED <<upstream, downstream, worker, cache>> /\ running' = TRUE /\ ~running
    BY <1>8 DEF Start, external
  <2>2. ASSUME NEW k \in Keys PROVE Trail(k)' = Trail(k)
    <3>1. Trail(k) = <<upstream[k]>> /\ upstream[k] \in Objects
      BY <1>f, <2>1 DEF InLine
    <3>2. cache'[k] = Absent /\ stream'[k] = I!FirstList(upstream[k])
      BY <1>8, <2>1 DEF Start, StoppedIsEmpty
    <3>3. Coming(k)' = <<upstream[k]>>
      BY <3>1, <3>2, AbsentType, UpcomingList DEF Coming
    <3>4. Holding(k)' = {}
      BY <2>1 DEF Holding, StoppedIsEmpty, IdleWorker, HoldPhases
    <3>5. Trail(k)' = R!Line({}, <<upstream[k]>>)
      BY <2>1, <3>3, <3>4 DEF InLine
    <3> QED BY <3>1, <3>5 DEF R!Line
  <2> QED BY <1>r, <2>1, <2>2
<1>9. ASSUME UNCHANGED <<upstream, downstream, running, stream, cache>>,
             \A k \in Keys : Holding(k)' = Holding(k)
      PROVE  R!Next
  BY <1>9, <1>c, <1>r, TrailKept
<1>10. ASSUME NEW v \in Workers, NEW j \in Keys, GetItem(v, j)
       PROVE  R!Next
  <2>1. /\ worker'[v] = [pc |-> "process", key |-> j, obj |-> Absent]
        /\ \A w \in Workers : w # v => worker'[w] = worker[w]
        /\ worker[v].pc = "idle"
    BY <1>10, <1>f DEF GetItem
  <2>2. worker[v].pc \notin HoldPhases /\ worker'[v].pc \notin HoldPhases
    BY <2>1 DEF HoldPhases
  <2>3. \A k \in Keys : Holding(k)' = Holding(k)
    BY <2>1, <2>2 DEF Holding
  <2> QED BY <1>9, <1>10, <2>3 DEF GetItem, external
<1>11. ASSUME NEW v \in Workers, FinishItem(v)
       PROVE  R!Next
  <2>1. /\ worker'[v] = IdleWorker
        /\ \A w \in Workers : w # v => worker'[w] = worker[w]
        /\ worker[v].pc \in {"done", "failed"}
    BY <1>11, <1>f DEF FinishItem
  <2>2. worker[v].pc \notin HoldPhases /\ worker'[v].pc \notin HoldPhases
    BY <2>1 DEF HoldPhases, IdleWorker
  <2>3. \A k \in Keys : Holding(k)' = Holding(k)
    BY <2>1, <2>2 DEF Holding
  <2> QED BY <1>9, <1>11, <2>3 DEF FinishItem, external
<1>12. ASSUME NEW v \in Workers, Process(v)
       PROVE  R!Next
  <2>1. worker[v].pc = "process" /\ UNCHANGED <<upstream, downstream, running, stream, cache>>
    BY <1>12 DEF Process, external
  <2>j. PICK j \in Keys : j = worker[v].key
    BY <2>1, BusyWorker DEF Typed
  <2> DEFINE o == cache[j]
  <2>2. running /\ o \in Objects
    BY <1>b, <1>f, <2>1
  <2>3. PICK pc \in HoldPhases : Work(v, pc, o)
    BY <1>12, <2>j DEF Process, HoldPhases
  <2> HIDE DEF o
  <2>4. ASSUME NEW k \in Keys, k # j PROVE Trail(k)' = Trail(k)
    <3>1. Holding(k)' = Holding(k)
      BY <2>1, <2>j, <2>3, <2>4, HoldingAfterWork
    <3> QED BY <1>c, <2>1, <3>1, TrailKept
  <2>5. Trail(j)' = Trail(j)
    <3>1. Holding(j) = {} /\ Holding(j)' = {o}
      <4>1. worker[v].pc \notin HoldPhases /\ worker[v].pc # "idle"
        BY <2>1 DEF HoldPhases
      <4> QED BY <2>j, <2>3, <4>1, HoldingAfterWork
    <3>2. Head(Coming(j)) = o
      <4>1. stream[j] \in Seq(I!Events(Objects))
        BY <1>f, <2>2
      <4>2. stream[j] # <<>> => 1 \in 1..Len(stream[j])
        BY <4>1, TailElements
      <4>3. ~First(stream[j])
        BY <2>1, <2>2, <4>2 DEF FirstListFirst, First
      <4> QED BY <2>2, <4>1, <4>3, UpcomingForms DEF Coming, o
    <3>3. Trail(j) = R!Line({}, Coming(j)) /\ Trail(j)' = R!Line({o}, Coming(j))
      BY <1>c, <2>1, <2>2, <3>1 DEF InLine
    <3> QED BY <3>2, <3>3 DEF R!Line
  <2> QED BY <1>r, <2>1, <2>2, <2>4, <2>5
<1>13. ASSUME NEW v \in Workers, worker[v].pc \in HoldPhases,
              NEW pc \in {"done", "failed"}, Work(v, pc, worker[v].obj),
              UNCHANGED <<upstream, running, stream, cache>>,
              \/ downstream' = downstream
              \/ downstream' = [downstream EXCEPT ![worker[v].key] = worker[v].obj]
       PROVE  R!Next
  <2>1. worker[v].pc # "idle" /\ pc \notin HoldPhases
    BY <1>13 DEF HoldPhases
  <2>j. PICK j \in Keys : j = worker[v].key
    BY <2>1, BusyWorker DEF Typed
  <2> DEFINE o == worker[v].obj
             c == Coming(j)
             H == Holding(j)
  <2>2. running /\ o \in Objects
    BY <1>b, <2>1, BusyWorker DEF Typed
  <2>3. ASSUME NEW k \in Keys, k # j PROVE Trail(k)' = Trail(k)
    <3>1. Holding(k)' = Holding(k)
      BY <1>13, <2>1, <2>j, <2>3, HoldingAfterWork
    <3> QED BY <1>13, <1>c, <3>1, TrailKept
  <2>4. H = {o} /\ Holding(j)' = {}
    BY <1>13, <2>1, <2>j, <2>2, HoldingAfterWork
  <2>5. /\ H \in SUBSET Objects /\ R!Single(H) /\ c \in Seq(Objects) /\ c # <<>>
        /\ Trail(j) = R!Line(H, c)
    BY <2>2 DEF InLine
  <2>6. Trail(j)' = c
    <3>1. Trail(j)' = R!Line({}, c)
      BY <1>13, <1>c, <2>2, <2>4 DEF InLine
    <3> QED BY <3>1 DEF R!Line
  <2>7. R!LeavesOut(Trail(j)', Trail(j)) /\ Head(Trail(j)) = o
    <3>1. o \in H
      BY <2>4
    <3> HIDE DEF c, H, o
    <3>2. R!LeavesOut(c, R!Line(H, c)) /\ Head(R!Line(H, c)) = o
      BY <2>5, <3>1, R!LineGiven, R!LineForms
    <3> QED BY <2>5, <2>6, <3>2
  <2>8. CASE downstream' = downstream
    BY <1>13, <1>r, <2>3, <2>7, <2>8
  <2>9. CASE downstream' = [downstream EXCEPT ![j] = o]
    <3>1. R!Only(j, trail, next)
      BY <2>2, <2>3, OneTrail
    <3>2. trail[j] = Trail(j) /\ next[j] = Trail(j)'
      BY <2>2
    <3>3. R!Give(j)
      BY <1>13, <2>7, <2>9, <3>1, <3>2 DEF R!Give
    <3> QED BY <2>2, <3>3 DEF R!Next
  <2> QED BY <1>13, <2>j, <2>8, <2>9
<1>14. ASSUME NEW v \in Workers, ensureDownstreamNamespaceExists(v)
       PROVE  R!Next
  <2>1. /\ worker[v].pc = "ensure" /\ Work(v, "patch", worker[v].obj)
        /\ UNCHANGED <<upstream, downstream, running, stream, cache>>
    BY <1>14 DEF ensureDownstreamNamespaceExists, Move
  <2>2. ASSUME NEW k \in Keys PROVE Holding(k)' = Holding(k)
    <3>1. CASE worker[v].key = k
      <4>1. worker[v].pc \in HoldPhases /\ "patch" \in HoldPhases /\ worker[v].pc # "idle"
        BY <2>1 DEF HoldPhases
      <4>2. Holding(k) = {worker[v].obj} /\ Holding(k)' = {worker[v].obj}
        BY <2>1, <3>1, <4>1, HoldingAfterWork
      <4> QED BY <4>2
    <3>2. CASE worker[v].key # k
      BY <2>1, <3>2, HoldingAfterWork
    <3> QED BY <3>1, <3>2
  <2> QED BY <1>9, <2>1, <2>2
<1>15. ASSUME NEW v \in Workers, applyToDownstream(v)
       PROVE  R!Next
  BY <1>13, <1>15 DEF applyToDownstream, Move, HoldPhases
<1>16. ASSUME NEW v \in Workers, deleteFromDownstream(v)
       PROVE  R!Next
  <2>1. worker[v].pc = "delete" /\ worker[v].obj = Absent
    BY <1>16 DEF deleteFromDownstream, DeletesAbsent
  <2> QED BY <1>13, <1>16, <2>1 DEF deleteFromDownstream, Move, HoldPhases
<1>17. ASSUME NEW v \in Workers, NEW done \in BOOLEAN, RequestFails(v, done)
       PROVE  R!Next
  BY <1>13, <1>17 DEF RequestFails, Move, HoldPhases
<1>18. CASE UNCHANGED <<upstream, downstream, running, stream, cache, worker>>
  BY <1>9, <1>18, <1>w
<1> QED BY <1>2, <1>3, <1>4, <1>5, <1>6, <1>7, <1>8, <1>10, <1>11, <1>12, <1>14, <1>15,
           <1>16, <1>17, <1>18
        DEF Next, vars, external, WorkerStep, Handle, HandleTombstone, Backoff, Crash

\* The spec syncer implements Replication: every content it writes to the
\* regional hub is one that the object had on the global hub, and never an
\* earlier one than it wrote before, deletions included, for any number of
\* objects and workers and through failed requests, broken watches and restarts.
THEOREM FollowsHistory == Spec => Replicates
<1> DEFINE RInv == FirstListFirst
           Lines == \A k \in Keys : InLine(k)
<1>1. Init => RInv
  BY DEF Init, FirstListFirst
<1>2. SyncInv /\ RInv /\ [Next]_vars => RInv'
  BY NextFirstListFirst DEF SyncInv
<1>3. SyncInv => Lines
  BY TrailsInLine DEF SyncInv
<1>4. SyncInv /\ RInv /\ Lines /\ Lines' /\ [Next]_vars => [R!Next]_(R!vars)
  <2> SUFFICES ASSUME SyncInv, RInv, Lines, Lines', [Next]_vars
               PROVE  [R!Next]_(R!vars)
    OBVIOUS
  <2> QED BY NextReplicates DEF SyncInv, DeletionsKnown
<1>5. Init => R!Init
  <2> SUFFICES ASSUME Init PROVE [k \in Keys |-> Trail(k)] = [k \in Keys |-> <<Absent>>]
    BY DEF Init, R!Init
  <2> QED BY DEF Init, Trail
<1> QED BY <1>1, <1>2, <1>3, <1>4, <1>5, SyncInvariant, PTL DEF Spec, Replicates, R!Spec

===============================================================================
