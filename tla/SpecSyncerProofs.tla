--------------------------- MODULE SpecSyncerProofs ---------------------------
(***************************************************************************)
(* Proofs about SpecSyncer, for any number of objects and workers and any  *)
(* bound on writes, faults, broken watches and crashes.                    *)
(***************************************************************************)
EXTENDS SpecSyncer, SequenceTheorems, TLAPS

\* The last element of a sequence after an append.
LEMMA AppendLast ==
    ASSUME NEW S, NEW s \in Seq(S), NEW e \in S
    PROVE  /\ Append(s, e) # <<>>
           /\ Append(s, e)[Len(Append(s, e))] = e
BY AppendProperties

\* The last element of a sequence stays when its head is taken.
LEMMA TailLast ==
    ASSUME NEW S, NEW s \in Seq(S), s # <<>>
    PROVE  /\ Tail(s) = <<>> => Head(s) = s[Len(s)]
           /\ Tail(s) # <<>> => Tail(s)[Len(Tail(s))] = s[Len(s)]
<1> DEFINE t == Tail(s)
<1>1. /\ t \in Seq(S)
      /\ Len(t) = Len(s) - 1
      /\ \A i \in 1..Len(t) : t[i] = s[i + 1]
  BY HeadTailProperties
<1>2. Len(s) \in Nat /\ Len(s) # 0
  BY EmptySeq, LenProperties
<1> HIDE DEF t
<1>3. ASSUME t = <<>>
      PROVE  Head(s) = s[Len(s)]
  <2>1. Len(s) = 1
    BY <1>1, <1>2, <1>3
  <2> QED BY <2>1
<1>4. ASSUME t # <<>>
      PROVE  t[Len(t)] = s[Len(s)]
  <2>1. Len(t) \in 1..Len(t)
    BY <1>1, <1>2, <1>4, EmptySeq
  <2> QED BY <1>1, <1>2, <2>1
<1> QED BY <1>3, <1>4 DEF t

\* What the operations of the queue do to its three sets.
LEMMA QueueOperations ==
    ASSUME NEW q \in Queues(Keys), NEW k \in Keys
    PROVE  /\ Add(q, k) \in Queues(Keys)
           /\ Add(q, k).dirty = q.dirty \cup {k}
           /\ Add(q, k).processing = q.processing
           /\ Add(q, k).delayed = q.delayed
           /\ Get(q, k) \in Queues(Keys)
           /\ Get(q, k).dirty = q.dirty \ {k}
           /\ Get(q, k).processing = q.processing \cup {k}
           /\ Get(q, k).delayed = q.delayed
           /\ Done(q, k) \in Queues(Keys)
           /\ Done(q, k).dirty = q.dirty
           /\ Done(q, k).processing = q.processing \ {k}
           /\ Done(q, k).delayed = q.delayed
           /\ AddRateLimited(q, k) \in Queues(Keys)
           /\ AddRateLimited(q, k).dirty = q.dirty
           /\ AddRateLimited(q, k).processing = q.processing
           /\ AddRateLimited(q, k).delayed = q.delayed \cup {k}
           /\ BackoffOver(q, k) \in Queues(Keys)
           /\ BackoffOver(q, k).dirty = q.dirty \cup {k}
           /\ BackoffOver(q, k).processing = q.processing
           /\ BackoffOver(q, k).delayed = q.delayed \ {k}
BY DEF Queues, Queue, Add, Get, Done, AddRateLimited, BackoffOver

\* The empty queue is a queue with nothing in it.
LEMMA EmptyQueueType ==
    /\ EmptyQueue \in Queues(Keys)
    /\ EmptyQueue.dirty = {}
    /\ EmptyQueue.processing = {}
    /\ EmptyQueue.delayed = {}
BY DEF Queues, Queue, EmptyQueue

\* The absent object is an object that is not ready.
LEMMA AbsentType == Absent \in Objects /\ ~Absent.ready
BY DEF Absent, Objects

\* What the informer makes of an event are objects and notifications.
LEMMA InformerTypes ==
    ASSUME NEW e \in I!Events(Objects), NEW o \in Objects
    PROVE  /\ I!CacheAfter(e) \in Objects
           /\ I!NotificationOf(e, o) \in I!Notifications(Objects)
<1>1. e.obj \in Objects /\ e.type \in I!EventTypes
  BY DEF I!Events
<1>2. I!CacheAfter(e) \in Objects
  BY <1>1, AbsentType DEF I!CacheAfter
<1>3. I!NotificationOf(e, o) \in I!Notifications(Objects)
  BY <1>1, AbsentType DEF I!NotificationOf, I!Notifications, I!NotificationTypes, I!EventTypes
<1> QED BY <1>2, <1>3

\* A list makes sequences of events.
LEMMA ListTypes ==
    ASSUME NEW o \in Objects, NEW c \in Objects
    PROVE  /\ I!FirstList(o) \in Seq(I!Events(Objects))
           /\ I!ReList(o, c) \in Seq(I!Events(Objects))
<1>1. \A e \in I!Events(Objects) : <<e>> \in Seq(I!Events(Objects))
  OBVIOUS
<1>2. <<>> \in Seq(I!Events(Objects))
  OBVIOUS
<1>3. \A x \in Objects, t \in I!EventTypes : [type |-> t, obj |-> x] \in I!Events(Objects)
  BY DEF I!Events
<1>4. {"initial", "replaced", "gone"} \subseteq I!EventTypes
  BY DEF I!EventTypes
<1>5. I!FirstList(o) \in Seq(I!Events(Objects))
  BY <1>1, <1>2, <1>3, <1>4 DEF I!FirstList
<1>6. I!ReList(o, c) \in Seq(I!Events(Objects))
  BY <1>1, <1>2, <1>3, <1>4 DEF I!ReList
<1> QED BY <1>5, <1>6

-------------------------------------------------------------------------------
(* Type correctness.                                                       *)

\* A process that went down has well-typed, empty state.
LEMMA NoProcessType ==
    ASSUME NoProcess
    PROVE  /\ running' \in BOOLEAN
           /\ stream' \in [Keys -> Seq(I!Events(Objects))]
           /\ cache' \in [Keys -> Objects]
           /\ notify' \in [Keys -> Seq(I!Notifications(Objects))]
           /\ queue' \in Queues(Keys)
           /\ worker' \in [Workers -> [pc : Phases, key : Keys \cup {NoKey},
                                       obj : Objects]]
<1>1. <<>> \in Seq(I!Events(Objects)) /\ <<>> \in Seq(I!Notifications(Objects))
  OBVIOUS
<1>2. IdleWorker \in [pc : Phases, key : Keys \cup {NoKey}, obj : Objects]
  BY AbsentType DEF IdleWorker, Phases
<1> QED BY <1>1, <1>2, AbsentType, EmptyQueueType DEF NoProcess

\* An event added by the watch keeps the streams well typed.
LEMMA WatchType ==
    ASSUME TypeOK, NEW k \in Keys, NEW t \in I!EventTypes, NEW o \in Objects,
           Watch(k, t, o)
    PROVE  stream' \in [Keys -> Seq(I!Events(Objects))]
<1>1. [type |-> t, obj |-> o] \in I!Events(Objects)
  BY DEF I!Events
<1>2. Append(stream[k], [type |-> t, obj |-> o]) \in Seq(I!Events(Objects))
  BY <1>1 DEF TypeOK
<1> QED BY <1>2 DEF Watch, TypeOK

\* The states before the first start are well typed.
LEMMA InitType == Init => TypeOK
<1>1. <<>> \in Seq(I!Events(Objects)) /\ <<>> \in Seq(I!Notifications(Objects))
  OBVIOUS
<1>2. IdleWorker \in [pc : Phases, key : Keys \cup {NoKey}, obj : Objects]
  BY AbsentType DEF IdleWorker, Phases
<1> SUFFICES ASSUME Init PROVE TypeOK
  OBVIOUS
<1>3. /\ stream \in [Keys -> Seq(I!Events(Objects))]
      /\ notify \in [Keys -> Seq(I!Notifications(Objects))]
  BY <1>1 DEF Init
<1>4. /\ upstream \in [Keys -> Objects]
      /\ downstream \in [Keys -> Objects]
      /\ cache \in [Keys -> Objects]
  BY AbsentType DEF Init
<1>5. worker \in [Workers -> [pc : Phases, key : Keys \cup {NoKey}, obj : Objects]]
  BY <1>2 DEF Init
<1>6. /\ namespaces \subseteq Namespaces
      /\ running \in BOOLEAN
      /\ queue \in Queues(Keys)
  BY EmptyQueueType DEF Init
<1>7. /\ writes \in 0..MaxWrites
      /\ faults \in 0..MaxFaults
      /\ relists \in 0..MaxRelists
      /\ crashes \in 0..MaxCrashes
  BY SyncerAssumption DEF Init
<1> QED BY <1>3, <1>4, <1>5, <1>6, <1>7 DEF TypeOK

\* What a worker may be.
WorkerTypes == [pc : Phases, key : Keys \cup {NoKey}, obj : Objects]

\* A worker that goes on with an item keeps the workers well typed and keyed.
LEMMA WorkType ==
    ASSUME TypeOK, WorkersKeyed, NEW w \in Workers, NEW pc \in Phases \ {"idle"},
           NEW o \in Objects, worker[w].pc # "idle", Work(w, pc, o)
    PROVE  /\ worker' \in [Workers -> WorkerTypes]
           /\ WorkersKeyed'
<1>1. worker[w].key \in Keys /\ worker[w].key # NoKey
  BY SyncerAssumption DEF TypeOK, WorkersKeyed
<1>2. [pc |-> pc, key |-> worker[w].key, obj |-> o] \in WorkerTypes
  BY <1>1 DEF WorkerTypes
<1>3. worker' = [worker EXCEPT ![w] = [pc |-> pc, key |-> worker[w].key, obj |-> o]]
  BY DEF Work
<1>4. worker \in [Workers -> WorkerTypes]
  BY DEF TypeOK, WorkerTypes
<1>5. worker' \in [Workers -> WorkerTypes]
  BY <1>2, <1>3, <1>4
<1>6. ASSUME NEW v \in Workers
      PROVE  worker'[v].pc = "idle" <=> worker'[v].key = NoKey
  BY <1>1, <1>3, <1>4, <1>6 DEF WorkersKeyed
<1> QED BY <1>5, <1>6 DEF WorkersKeyed

\* The key of a worker that has an item is a key.
LEMMA BusyWorker ==
    ASSUME TypeOK, WorkersKeyed, NEW w \in Workers, worker[w].pc # "idle"
    PROVE  /\ worker[w].key \in Keys
           /\ worker[w].obj \in Objects
BY SyncerAssumption DEF TypeOK, WorkersKeyed

Typed == TypeOK /\ WorkersKeyed

\* Every step keeps the state well typed and the workers keyed.
LEMMA NextTyped == Typed /\ [Next]_vars => Typed'
<1> SUFFICES ASSUME Typed, [Next]_vars PROVE Typed'
  OBVIOUS
<1> USE SyncerAssumption
<1>a. TypeOK /\ WorkersKeyed
  BY DEF Typed
<1>b. worker' = worker => WorkersKeyed'
  BY <1>a DEF WorkersKeyed
<1>c. NoProcess => WorkersKeyed'
  BY DEF NoProcess, WorkersKeyed, IdleWorker
<1>1. ASSUME NEW k \in Keys, NEW ready \in ReadyLabels, UpstreamWrite(k, ready)
      PROVE  Typed'
  <2>1. [gen |-> writes + 1, ready |-> ready] \in Objects
    BY <1>a DEF TypeOK, Objects
  <2>2. "modified" \in I!EventTypes
    BY DEF I!EventTypes
  <2>3. stream' \in [Keys -> Seq(I!Events(Objects))]
    BY <1>1, <1>a, <2>1, <2>2, WatchType DEF UpstreamWrite
  <2>4. upstream' \in [Keys -> Objects]
    BY <1>1, <1>a, <2>1 DEF UpstreamWrite, TypeOK
  <2>5. writes' \in 0..MaxWrites
    BY <1>1, <1>a DEF UpstreamWrite, TypeOK
  <2> QED BY <1>1, <1>a, <1>b, <2>3, <2>4, <2>5 DEF UpstreamWrite, TypeOK, Typed
<1>2. ASSUME NEW k \in Keys, UpstreamStatusWrite(k)
      PROVE  Typed'
  <2>1. upstream[k] \in Objects /\ "modified" \in I!EventTypes
    BY <1>a DEF TypeOK, I!EventTypes
  <2>2. stream' \in [Keys -> Seq(I!Events(Objects))]
    BY <1>2, <1>a, <2>1, WatchType DEF UpstreamStatusWrite
  <2> QED BY <1>2, <1>a, <1>b, <2>2 DEF UpstreamStatusWrite, TypeOK, Typed
<1>3. ASSUME NEW k \in Keys, UpstreamDelete(k)
      PROVE  Typed'
  <2>1. upstream[k] \in Objects /\ "deleted" \in I!EventTypes
    BY <1>a DEF TypeOK, I!EventTypes
  <2>2. stream' \in [Keys -> Seq(I!Events(Objects))]
    BY <1>3, <1>a, <2>1, WatchType DEF UpstreamDelete
  <2>3. upstream' \in [Keys -> Objects]
    BY <1>3, <1>a, AbsentType DEF UpstreamDelete, TypeOK
  <2> QED BY <1>3, <1>a, <1>b, <2>2, <2>3 DEF UpstreamDelete, TypeOK, Typed, counters
<1>4. ASSUME NEW k \in Keys, InformerStep(k)
      PROVE  Typed'
  <2> DEFINE e == Head(stream[k])
  <2>1. e \in I!Events(Objects) /\ Tail(stream[k]) \in Seq(I!Events(Objects))
    BY <1>4, <1>a DEF InformerStep, TypeOK
  <2>2. /\ I!CacheAfter(e) \in Objects
        /\ I!NotificationOf(e, cache[k]) \in I!Notifications(Objects)
    <3>1. cache[k] \in Objects
      BY <1>a DEF TypeOK
    <3> QED BY <2>1, <3>1, InformerTypes
  <2>3. Append(notify[k], I!NotificationOf(e, cache[k])) \in Seq(I!Notifications(Objects))
    BY <1>a, <2>2 DEF TypeOK
  <2> QED BY <1>4, <1>a, <1>b, <2>1, <2>2, <2>3
          DEF InformerStep, TypeOK, Typed, external, counters
<1>5. ASSUME NEW k \in Keys, Handle(k)
      PROVE  Typed'
  <2>1. Tail(notify[k]) \in Seq(I!Notifications(Objects))
    BY <1>5, <1>a DEF Handle, TypeOK
  <2>2. queue' \in Queues(Keys)
    BY <1>5, <1>a, QueueOperations DEF Handle, TypeOK
  <2> QED BY <1>5, <1>a, <1>b, <2>1, <2>2 DEF Handle, TypeOK, Typed, external, counters
<1>6. ASSUME NEW k \in Keys, HandleTombstone(k)
      PROVE  Typed'
  BY <1>6, <1>a, <1>c, NoProcessType DEF HandleTombstone, TypeOK, Typed, external, counters
<1>7. ASSUME NEW k \in Keys, Backoff(k)
      PROVE  Typed'
  BY <1>7, <1>a, <1>b, QueueOperations DEF Backoff, TypeOK, Typed, external, counters
<1>8. ASSUME NEW k \in Keys, NEW w \in Workers, GetItem(w, k)
      PROVE  Typed'
  <2>1. queue' \in Queues(Keys)
    BY <1>8, <1>a, QueueOperations DEF GetItem, TypeOK
  <2>2. [pc |-> "process", key |-> k, obj |-> Absent] \in WorkerTypes
    BY AbsentType DEF WorkerTypes, Phases
  <2>3. worker' \in [Workers -> WorkerTypes] /\ WorkersKeyed'
    BY <1>8, <1>a, <2>2 DEF GetItem, TypeOK, WorkersKeyed, WorkerTypes
  <2> QED BY <1>8, <1>a, <2>1, <2>3
          DEF GetItem, TypeOK, Typed, WorkerTypes, external, counters
<1>9. ASSUME NEW w \in Workers, Process(w)
      PROVE  Typed'
  <2>1. worker[w].pc # "idle"
    BY <1>9 DEF Process
  <2>2. cache[worker[w].key] \in Objects
    BY <1>a, <2>1, BusyWorker DEF TypeOK
  <2>3. {"delete", "ensure"} \subseteq Phases \ {"idle"}
    BY DEF Phases
  <2>4. worker' \in [Workers -> WorkerTypes] /\ WorkersKeyed'
    BY <1>9, <1>a, <2>1, <2>2, <2>3, WorkType DEF Process
  <2> QED BY <1>9, <1>a, <2>4 DEF Process, TypeOK, Typed, WorkerTypes, external, counters
<1>10. ASSUME NEW w \in Workers, ensureDownstreamNamespaceExists(w)
      PROVE  Typed'
  <2>1. worker[w].pc # "idle"
    BY <1>10 DEF ensureDownstreamNamespaceExists
  <2>2. worker[w].key \in Keys /\ worker[w].obj \in Objects
    BY <1>a, <2>1, BusyWorker
  <2>3. "patch" \in Phases \ {"idle"}
    BY DEF Phases
  <2>4. worker' \in [Workers -> WorkerTypes] /\ WorkersKeyed'
    BY <1>10, <1>a, <2>1, <2>2, <2>3, WorkType DEF ensureDownstreamNamespaceExists, Move
  <2> QED BY <1>10, <1>a, <2>2, <2>4
          DEF ensureDownstreamNamespaceExists, TypeOK, Typed, WorkerTypes, external, counters
<1>11. ASSUME NEW w \in Workers, applyToDownstream(w)
      PROVE  Typed'
  <2>1. worker[w].pc # "idle"
    BY <1>11 DEF applyToDownstream
  <2>2. worker[w].key \in Keys /\ worker[w].obj \in Objects
    BY <1>a, <2>1, BusyWorker
  <2>3. "done" \in Phases \ {"idle"}
    BY DEF Phases
  <2>4. worker' \in [Workers -> WorkerTypes] /\ WorkersKeyed'
    BY <1>11, <1>a, <2>1, <2>2, <2>3, WorkType DEF applyToDownstream, Move
  <2>5. downstream' \in [Keys -> Objects]
    BY <1>11, <1>a, <2>2 DEF applyToDownstream, TypeOK
  <2> QED BY <1>11, <1>a, <2>4, <2>5
          DEF applyToDownstream, TypeOK, Typed, WorkerTypes, external, counters
<1>12. ASSUME NEW w \in Workers, deleteFromDownstream(w)
      PROVE  Typed'
  <2>1. worker[w].pc # "idle"
    BY <1>12 DEF deleteFromDownstream
  <2>2. worker[w].key \in Keys /\ worker[w].obj \in Objects
    BY <1>a, <2>1, BusyWorker
  <2>3. {"done", "failed"} \subseteq Phases \ {"idle"}
    BY DEF Phases
  <2>4. worker' \in [Workers -> WorkerTypes] /\ WorkersKeyed'
    BY <1>12, <1>a, <2>1, <2>2, <2>3, WorkType DEF deleteFromDownstream, Move
  <2>5. downstream' \in [Keys -> Objects]
    BY <1>12, <1>a, <2>2, AbsentType DEF deleteFromDownstream, TypeOK
  <2> QED BY <1>12, <1>a, <2>4, <2>5
          DEF deleteFromDownstream, TypeOK, Typed, WorkerTypes, external, counters
<1>13. ASSUME NEW w \in Workers, NEW done \in BOOLEAN, RequestFails(w, done)
      PROVE  Typed'
  <2>1. worker[w].pc # "idle"
    BY <1>13 DEF RequestFails
  <2>2. worker[w].key \in Keys /\ worker[w].obj \in Objects
    BY <1>a, <2>1, BusyWorker
  <2>3. "failed" \in Phases \ {"idle"}
    BY DEF Phases
  <2>4. worker' \in [Workers -> WorkerTypes] /\ WorkersKeyed'
    BY <1>13, <1>a, <2>1, <2>2, <2>3, WorkType DEF RequestFails, Move
  <2>5. downstream' \in [Keys -> Objects] /\ namespaces' \subseteq Namespaces
    BY <1>13, <1>a, <2>2 DEF RequestFails, TypeOK
  <2>6. faults' \in 0..MaxFaults
    BY <1>13, <1>a DEF RequestFails, TypeOK
  <2> QED BY <1>13, <1>a, <2>4, <2>5, <2>6
          DEF RequestFails, TypeOK, Typed, WorkerTypes, external, counters
<1>14. ASSUME NEW w \in Workers, FinishItem(w)
      PROVE  Typed'
  <2>1. worker[w].key \in Keys
    BY <1>14, <1>a, BusyWorker DEF FinishItem
  <2>2. queue' \in Queues(Keys)
    <3>1. AddRateLimited(queue, worker[w].key) \in Queues(Keys)
      BY <1>a, <2>1, QueueOperations DEF TypeOK
    <3> QED BY <1>14, <1>a, <2>1, <3>1, QueueOperations DEF FinishItem, TypeOK
  <2>3. IdleWorker \in WorkerTypes
    BY AbsentType DEF IdleWorker, WorkerTypes, Phases
  <2>4. worker' \in [Workers -> WorkerTypes] /\ WorkersKeyed'
    BY <1>14, <1>a, <2>3 DEF FinishItem, TypeOK, WorkersKeyed, WorkerTypes, IdleWorker
  <2> QED BY <1>14, <1>a, <2>2, <2>4
          DEF FinishItem, TypeOK, Typed, WorkerTypes, external, counters
<1>15. CASE Relist
  <2>1. stream' \in [Keys -> Seq(I!Events(Objects))]
    BY <1>15, <1>a, ListTypes DEF Relist, TypeOK
  <2>2. relists' \in 0..MaxRelists
    BY <1>15, <1>a DEF Relist, TypeOK
  <2> QED BY <1>15, <1>a, <1>b, <2>1, <2>2 DEF Relist, TypeOK, Typed, external
<1>16. CASE Crash
  <2>1. crashes' \in 0..MaxCrashes
    BY <1>16, <1>a DEF Crash, TypeOK
  <2> QED BY <1>16, <1>a, <1>c, <2>1, NoProcessType DEF Crash, TypeOK, Typed, external
<1>17. CASE Start
  <2>1. stream' \in [Keys -> Seq(I!Events(Objects))]
    BY <1>17, <1>a, ListTypes DEF Start, TypeOK
  <2> QED BY <1>17, <1>a, <1>b, <2>1 DEF Start, TypeOK, Typed, external, counters
<1>18. CASE UNCHANGED vars
  BY <1>18, <1>a DEF vars, TypeOK, Typed, WorkersKeyed
<1> QED BY <1>1, <1>2, <1>3, <1>4, <1>5, <1>6, <1>7, <1>8, <1>9, <1>10, <1>11, <1>12,
           <1>13, <1>14, <1>15, <1>16, <1>17, <1>18 DEF Next, WorkerStep

\* The state of the spec syncer always has the types the code declares.
THEOREM TypeCorrect == Spec => []TypeOK
<1>1. Init => Typed
  BY InitType DEF Typed, Init, WorkersKeyed, IdleWorker
<1>2. Typed => TypeOK
  BY DEF Typed
<1> QED BY <1>1, <1>2, NextTyped, PTL DEF Spec

-------------------------------------------------------------------------------
(* Serialised work.                                                        *)

\* A step that moves no key into or out of a worker's hands keeps the work
\* serialised.
LEMMA SameHands ==
    ASSUME WorkSerialised, queue'.processing = queue.processing,
           \A w \in Workers : worker'[w].key = worker[w].key
    PROVE  WorkSerialised'
BY DEF WorkSerialised

\* A worker that goes on with its item keeps its key.
LEMMA WorkKeepsKeys ==
    ASSUME Typed, NEW v \in Workers, NEW pc, NEW o, Work(v, pc, o)
    PROVE  \A w \in Workers : worker'[w].key = worker[w].key
BY DEF Work, Typed, TypeOK

\* What the end of an item does to the queue.
LEMMA FinishQueue ==
    ASSUME Typed, NEW v \in Workers, FinishItem(v)
    PROVE  /\ worker[v].key \in Keys
           /\ queue'.dirty = queue.dirty
           /\ queue'.processing = queue.processing \ {worker[v].key}
           /\ queue'.delayed = IF worker[v].pc = "failed"
                               THEN queue.delayed \cup {worker[v].key}
                               ELSE queue.delayed
<1> DEFINE k == worker[v].key
           r == AddRateLimited(queue, k)
<1>1. k \in Keys /\ queue \in Queues(Keys)
  BY BusyWorker DEF FinishItem, Typed, TypeOK
<1>2. /\ r \in Queues(Keys)
      /\ r.dirty = queue.dirty
      /\ r.processing = queue.processing
      /\ r.delayed = queue.delayed \cup {k}
  BY <1>1, QueueOperations
<1>3. /\ Done(r, k).dirty = r.dirty
      /\ Done(r, k).processing = r.processing \ {k}
      /\ Done(r, k).delayed = r.delayed
  BY <1>1, <1>2, QueueOperations
<1>4. /\ Done(queue, k).dirty = queue.dirty
      /\ Done(queue, k).processing = queue.processing \ {k}
      /\ Done(queue, k).delayed = queue.delayed
  BY <1>1, QueueOperations
<1>5. queue' = IF worker[v].pc = "failed" THEN Done(r, k) ELSE Done(queue, k)
  BY DEF FinishItem
<1> QED BY <1>1, <1>2, <1>3, <1>4, <1>5

\* No step gives an object to two workers.
LEMMA NextSerialised == Typed /\ WorkSerialised /\ [Next]_vars => WorkSerialised'
<1> SUFFICES ASSUME Typed, WorkSerialised, [Next]_vars PROVE WorkSerialised'
  OBVIOUS
<1>q. queue \in Queues(Keys)
  BY DEF Typed, TypeOK
<1>w. worker \in [Workers -> WorkerTypes]
  BY DEF Typed, TypeOK, WorkerTypes
<1>1. CASE queue' = queue /\ worker' = worker
  BY <1>1, SameHands
<1>2. ASSUME NEW k \in Keys, Handle(k)
      PROVE  WorkSerialised'
  <2>1. queue'.processing = queue.processing /\ worker' = worker
    BY <1>2, <1>q, QueueOperations DEF Handle
  <2> QED BY <2>1, SameHands
<1>3. CASE NoProcess
  BY <1>3, EmptyQueueType DEF NoProcess, WorkSerialised, IdleWorker
<1>4. ASSUME NEW k \in Keys, Backoff(k)
      PROVE  WorkSerialised'
  <2>1. queue'.processing = queue.processing /\ worker' = worker
    BY <1>4, <1>q, QueueOperations DEF Backoff
  <2> QED BY <2>1, SameHands
<1>5. ASSUME NEW k \in Keys, NEW v \in Workers, GetItem(v, k)
      PROVE  WorkSerialised'
  <2>1. queue'.processing = queue.processing \cup {k}
    BY <1>5, <1>q, QueueOperations DEF GetItem
  <2>2. \A w \in Workers : worker'[w].key = IF w = v THEN k ELSE worker[w].key
    BY <1>5, <1>w DEF GetItem
  <2>3. k \notin queue.processing /\ k # NoKey
    BY <1>5, SyncerAssumption DEF GetItem, CanGet
  <2>4. worker[v].key = NoKey
    BY <1>5 DEF GetItem, Typed, WorkersKeyed
  <2>5. \A w \in Workers : worker[w].key # k
    BY <2>3 DEF WorkSerialised
  <2> QED BY <2>1, <2>2, <2>3, <2>4, <2>5 DEF WorkSerialised
<1>6. ASSUME NEW v \in Workers, FinishItem(v)
      PROVE  WorkSerialised'
  <2> DEFINE k == worker[v].key
  <2>1. k \in Keys /\ k # NoKey
    BY <1>6, BusyWorker, SyncerAssumption DEF FinishItem, Typed
  <2>2. queue'.processing = queue.processing \ {k}
    BY <1>6, FinishQueue
  <2>3. \A w \in Workers : worker'[w].key = IF w = v THEN NoKey ELSE worker[w].key
    BY <1>6, <1>w DEF FinishItem, IdleWorker
  <2>4. \A w \in Workers : w # v => worker[w].key # k
    BY <2>1 DEF WorkSerialised
  <2> QED BY <2>1, <2>2, <2>3, <2>4 DEF WorkSerialised
<1>7. ASSUME NEW v \in Workers, NEW pc, NEW o, Work(v, pc, o), queue' = queue
      PROVE  WorkSerialised'
  BY <1>7, WorkKeepsKeys, SameHands
<1>8. ASSUME NEW v \in Workers, WorkerStep(v)
      PROVE  WorkSerialised'
  BY <1>6, <1>7, <1>8 DEF WorkerStep, Process, ensureDownstreamNamespaceExists,
     applyToDownstream, deleteFromDownstream, Move
<1>9. ASSUME NEW v \in Workers, NEW done \in BOOLEAN, RequestFails(v, done)
      PROVE  WorkSerialised'
  BY <1>7, <1>9 DEF RequestFails, Move
<1> QED BY <1>1, <1>2, <1>3, <1>4, <1>5, <1>8, <1>9
        DEF Next, vars, UpstreamWrite, UpstreamStatusWrite, UpstreamDelete,
            InformerStep, HandleTombstone, Relist, Crash, Start

\* The work queue serialises the work: no object is ever in the hands of two
\* workers, so the read of the cache and the write to the regional hub of one
\* object's item are never interleaved with those of another.
THEOREM Serialised == Spec => []WorkSerialised
<1>1. Init => Typed /\ WorkSerialised
  BY InitType, EmptyQueueType DEF Typed, Init, WorkersKeyed, WorkSerialised, IdleWorker
<1> QED BY <1>1, NextTyped, NextSerialised, PTL DEF Spec

-------------------------------------------------------------------------------
(* The cache follows the global hub.                                       *)

\* A process that is down has no state, and one that starts has none but the
\* events of its first list.
LEMMA NextStopped == StoppedIsEmpty /\ [Next]_vars => StoppedIsEmpty'
<1> SUFFICES ASSUME StoppedIsEmpty, [Next]_vars PROVE StoppedIsEmpty'
  OBVIOUS
<1>1. CASE NoProcess
  BY <1>1 DEF NoProcess, StoppedIsEmpty
<1>2. CASE running /\ running' = running
  BY <1>2 DEF StoppedIsEmpty
<1>3. CASE Start
  BY <1>3 DEF Start, StoppedIsEmpty
<1>4. CASE ~running /\ UNCHANGED process
  BY <1>4 DEF StoppedIsEmpty, process
<1>5. ASSUME ~running, NEW k \in Keys
      PROVE  ~InformerStep(k) /\ ~Handle(k) /\ ~HandleTombstone(k) /\ ~Backoff(k)
  BY <1>5 DEF StoppedIsEmpty, InformerStep, Handle, HandleTombstone, Backoff,
              EmptyQueue, Queue
<1>6. ASSUME ~running, NEW w \in Workers
      PROVE  ~WorkerStep(w) /\ \A done \in BOOLEAN : ~RequestFails(w, done)
  BY <1>6 DEF StoppedIsEmpty, WorkerStep, RequestFails, Process, IdleWorker,
              ensureDownstreamNamespaceExists, applyToDownstream,
              deleteFromDownstream, FinishItem
<1>7. ASSUME NEW k \in Keys, NEW ready \in ReadyLabels, UpstreamWrite(k, ready)
      PROVE  StoppedIsEmpty'
  BY <1>7, <1>2, <1>4 DEF UpstreamWrite, Watch, process
<1>8. ASSUME NEW k \in Keys, UpstreamStatusWrite(k) \/ UpstreamDelete(k)
      PROVE  StoppedIsEmpty'
  BY <1>8, <1>2, <1>4 DEF UpstreamStatusWrite, UpstreamDelete, Watch, process
<1>9. ASSUME NEW k \in Keys, InformerStep(k) \/ Handle(k) \/ Backoff(k)
      PROVE  StoppedIsEmpty'
  BY <1>9, <1>2, <1>5 DEF InformerStep, Handle, Backoff, StoppedIsEmpty
<1>10. ASSUME NEW k \in Keys, NEW w \in Workers, GetItem(w, k)
       PROVE  StoppedIsEmpty'
  BY <1>10, <1>2 DEF GetItem
<1>11. ASSUME NEW w \in Workers, WorkerStep(w)
       PROVE  StoppedIsEmpty'
  BY <1>11, <1>2, <1>6 DEF StoppedIsEmpty, WorkerStep, Process, FinishItem,
      ensureDownstreamNamespaceExists, applyToDownstream, deleteFromDownstream
<1>12. ASSUME NEW w \in Workers, NEW done \in BOOLEAN, RequestFails(w, done)
       PROVE  StoppedIsEmpty'
  BY <1>12, <1>2, <1>6 DEF StoppedIsEmpty, RequestFails
<1>13. CASE Relist
  BY <1>13, <1>2 DEF Relist
<1>14. CASE UNCHANGED vars
  BY <1>14 DEF vars, StoppedIsEmpty
<1> QED BY <1>1, <1>3, <1>7, <1>8, <1>9, <1>10, <1>11, <1>12, <1>13, <1>14
        DEF Next, HandleTombstone, Crash

\* What CacheFollows says of one object.
Follows(k) ==
    IF stream[k] = <<>>
    THEN cache[k] = upstream[k]
    ELSE I!CacheAfter(stream[k][Len(stream[k])]) = upstream[k]

\* The watch adds an event that leads the cache to the new upstream object.
LEMMA WatchFollows ==
    ASSUME Typed, CacheFollows, NEW k \in Keys, NEW t \in I!EventTypes, NEW o \in Objects,
           Watch(k, t, o), cache' = cache, running' = running,
           NEW u \in Objects, upstream' = [upstream EXCEPT ![k] = u],
           I!CacheAfter([type |-> t, obj |-> o]) = u
    PROVE  CacheFollows'
<1> SUFFICES ASSUME running, NEW j \in Keys PROVE Follows(j)'
  BY DEF CacheFollows, Follows
<1> DEFINE e == [type |-> t, obj |-> o]
<1>1. stream' = [stream EXCEPT ![k] = Append(stream[k], e)]
  BY DEF Watch
<1>2. stream \in [Keys -> Seq(I!Events(Objects))] /\ e \in I!Events(Objects)
  BY DEF Typed, TypeOK, I!Events
<1>3. CASE j = k
  <2>1. stream'[k] = Append(stream[k], e)
    BY <1>1, <1>2
  <2>2. stream'[k] # <<>> /\ stream'[k][Len(stream'[k])] = e
    BY <1>2, <2>1, AppendLast
  <2>3. upstream'[k] = u
    BY DEF Typed, TypeOK
  <2> QED BY <1>3, <2>2, <2>3 DEF Follows
<1>4. CASE j # k
  <2>1. stream'[j] = stream[j] /\ upstream'[j] = upstream[j]
    BY <1>1, <1>2, <1>4 DEF Typed, TypeOK
  <2> QED BY <2>1 DEF Follows, CacheFollows
<1> QED BY <1>3, <1>4

\* Every step keeps the events on their way leading to the upstream objects.
LEMMA NextFollows ==
    Typed /\ StoppedIsEmpty /\ CacheFollows /\ [Next]_vars => CacheFollows'
<1> SUFFICES ASSUME Typed, StoppedIsEmpty, CacheFollows, [Next]_vars
             PROVE  CacheFollows'
  OBVIOUS
<1>t. /\ stream \in [Keys -> Seq(I!Events(Objects))]
      /\ upstream \in [Keys -> Objects]
      /\ cache \in [Keys -> Objects]
  BY DEF Typed, TypeOK
<1>1. ASSUME NEW k \in Keys, NEW ready \in ReadyLabels, UpstreamWrite(k, ready)
      PROVE  CacheFollows'
  <2> DEFINE o == [gen |-> writes + 1, ready |-> ready]
  <2>1. o \in Objects /\ "modified" \in I!EventTypes
    BY SyncerAssumption DEF Typed, TypeOK, Objects, I!EventTypes
  <2>2. I!CacheAfter([type |-> "modified", obj |-> o]) = o
    BY DEF I!CacheAfter
  <2> QED BY <1>1, <2>1, <2>2, WatchFollows DEF UpstreamWrite
<1>2. ASSUME NEW k \in Keys, UpstreamStatusWrite(k)
      PROVE  CacheFollows'
  <2>1. upstream[k] \in Objects /\ "modified" \in I!EventTypes
    BY <1>t DEF I!EventTypes
  <2>2. I!CacheAfter([type |-> "modified", obj |-> upstream[k]]) = upstream[k]
    BY DEF I!CacheAfter
  <2>3. upstream' = [upstream EXCEPT ![k] = upstream[k]]
    BY <1>2, <1>t DEF UpstreamStatusWrite
  <2> QED BY <1>2, <2>1, <2>2, <2>3, WatchFollows DEF UpstreamStatusWrite
<1>3. ASSUME NEW k \in Keys, UpstreamDelete(k)
      PROVE  CacheFollows'
  <2>1. upstream[k] \in Objects /\ "deleted" \in I!EventTypes
    BY <1>t DEF I!EventTypes
  <2>2. I!CacheAfter([type |-> "deleted", obj |-> upstream[k]]) = Absent
    BY DEF I!CacheAfter
  <2> QED BY <1>3, <2>1, <2>2, AbsentType, WatchFollows DEF UpstreamDelete
<1>4. ASSUME NEW k \in Keys, InformerStep(k)
      PROVE  CacheFollows'
  <2> SUFFICES ASSUME running, NEW j \in Keys PROVE Follows(j)'
    BY <1>4 DEF CacheFollows, Follows, InformerStep
  <2>1. CASE j = k
    <3> DEFINE s == stream[k]
    <3>1. /\ s \in Seq(I!Events(Objects)) /\ s # <<>>
          /\ stream'[k] = Tail(s)
          /\ cache'[k] = I!CacheAfter(Head(s))
          /\ upstream' = upstream
      BY <1>4, <1>t DEF InformerStep, external
    <3>2. I!CacheAfter(s[Len(s)]) = upstream[k]
      BY <3>1 DEF CacheFollows
    <3>3. /\ Tail(s) = <<>> => Head(s) = s[Len(s)]
          /\ Tail(s) # <<>> => Tail(s)[Len(Tail(s))] = s[Len(s)]
      BY <3>1, TailLast
    <3> QED BY <2>1, <3>1, <3>2, <3>3 DEF Follows
  <2>2. CASE j # k
    BY <1>4, <1>t, <2>2 DEF InformerStep, Follows, CacheFollows, external
  <2> QED BY <2>1, <2>2
<1>5. CASE NoProcess
  BY <1>5 DEF NoProcess, CacheFollows
<1>6. CASE Relist
  <2> SUFFICES ASSUME NEW j \in Keys PROVE Follows(j)'
    BY DEF CacheFollows, Follows
  <2>1. /\ stream'[j] = I!ReList(upstream[j], cache[j])
        /\ cache' = cache /\ upstream' = upstream
    BY <1>6 DEF Relist, external
  <2>2. CASE upstream[j] # Absent
    <3> DEFINE e == [type |-> "replaced", obj |-> upstream[j]]
    <3>1. stream'[j] = <<e>>
      BY <2>1, <2>2 DEF I!ReList
    <3>2. stream'[j] # <<>> /\ stream'[j][Len(stream'[j])] = e
      BY <3>1
    <3> QED BY <2>1, <3>2 DEF Follows, I!CacheAfter
  <2>3. CASE upstream[j] = Absent /\ cache[j] # Absent
    <3> DEFINE e == [type |-> "gone", obj |-> cache[j]]
    <3>1. stream'[j] = <<e>>
      BY <2>1, <2>3 DEF I!ReList
    <3>2. stream'[j] # <<>> /\ stream'[j][Len(stream'[j])] = e
      BY <3>1
    <3> QED BY <2>1, <2>3, <3>2 DEF Follows, I!CacheAfter
  <2>4. CASE upstream[j] = Absent /\ cache[j] = Absent
    BY <2>1, <2>4 DEF Follows, I!ReList
  <2> QED BY <2>2, <2>3, <2>4
<1>7. CASE Start
  <2> SUFFICES ASSUME NEW j \in Keys PROVE Follows(j)'
    BY DEF CacheFollows, Follows
  <2>1. /\ stream'[j] = I!FirstList(upstream[j])
        /\ cache'[j] = Absent /\ upstream' = upstream
    BY <1>7 DEF Start, StoppedIsEmpty, external
  <2>2. CASE upstream[j] # Absent
    <3> DEFINE e == [type |-> "initial", obj |-> upstream[j]]
    <3>1. stream'[j] = <<e>>
      BY <2>1, <2>2 DEF I!FirstList
    <3>2. stream'[j] # <<>> /\ stream'[j][Len(stream'[j])] = e
      BY <3>1
    <3> QED BY <2>1, <3>2 DEF Follows, I!CacheAfter
  <2>3. CASE upstream[j] = Absent
    BY <2>1, <2>3 DEF Follows, I!FirstList
  <2> QED BY <2>2, <2>3
<1>8. CASE UNCHANGED <<upstream, running, stream, cache>>
  BY <1>8 DEF CacheFollows
<1> QED BY <1>1, <1>2, <1>3, <1>4, <1>5, <1>6, <1>7, <1>8
        DEF Next, vars, external, WorkerStep, Handle, HandleTombstone, Backoff,
            GetItem, Process, ensureDownstreamNamespaceExists, applyToDownstream,
            deleteFromDownstream, FinishItem, RequestFails, Crash

-------------------------------------------------------------------------------
(* Deletions: what the syncer knows of them.                               *)

\* What a worker that goes on with its item does to the workers.
LEMMA WorkEffect ==
    ASSUME Typed, NEW v \in Workers, NEW pc, NEW o, Work(v, pc, o)
    PROVE  /\ worker'[v] = [pc |-> pc, key |-> worker[v].key, obj |-> o]
           /\ \A w \in Workers : w # v => worker'[w] = worker[w]
BY DEF Work, Typed, TypeOK

\* If every write makes a ready object, nothing else is ever seen.
ReadyOnly ==
    ReadyLabels \subseteq {TRUE} => \A k \in Keys :
        /\ upstream[k] = Absent \/ upstream[k].ready
        /\ cache[k] = Absent \/ cache[k].ready
        /\ \A i \in 1..Len(stream[k]) : stream[k][i].obj.ready

\* Only a broken watch makes the informer hand a tombstone to the handler.
NoTombstones ==
    relists = 0 => \A k \in Keys :
        /\ \A i \in 1..Len(stream[k]) : stream[k][i].type # "gone"
        /\ \A i \in 1..Len(notify[k]) : notify[k][i].type # "tombstone"

\* Nothing was copied before the first start.
NothingYet ==
    ~running /\ NothingMissed => downstream = [k \in Keys |-> Absent]

\* A worker about to delete an object did not find it in the cache.
DeletesAbsent ==
    \A w \in Workers : worker[w].pc = "delete" => worker[w].obj = Absent

\* What an append does to the elements of a sequence.
LEMMA AppendElements ==
    ASSUME NEW S, NEW s \in Seq(S), NEW e \in S
    PROVE  /\ Len(s) \in Nat
           /\ Len(Append(s, e)) = Len(s) + 1
           /\ \A i \in 1..Len(s) : Append(s, e)[i] = s[i]
           /\ Append(s, e)[Len(s) + 1] = e
BY AppendProperties, LenProperties

\* The elements of a sequence without its head.
LEMMA TailElements ==
    ASSUME NEW S, NEW s \in Seq(S), s # <<>>
    PROVE  /\ Tail(s) \in Seq(S)
           /\ Len(s) \in Nat \ {0}
           /\ Len(Tail(s)) = Len(s) - 1
           /\ \A i \in 1..Len(s) - 1 : Tail(s)[i] = s[i + 1]
           /\ Head(s) = s[1]
<1>1. Len(s) \in Nat /\ Len(s) # 0
  BY EmptySeq, LenProperties
<1> QED BY <1>1, HeadTailProperties

DeletionsKnown == ReadyOnly /\ NoTombstones /\ NothingYet /\ DeletesAbsent

\* A deletion that may have been missed stays so.
LEMMA MissedForGood ==
    ASSUME Typed, [Next]_vars PROVE NothingMissed' => NothingMissed
<1>1. relists \in Nat /\ crashes \in Nat
  BY SyncerAssumption DEF Typed, TypeOK
<1>2. relists' \in {relists, relists + 1} /\ crashes' \in {crashes, crashes + 1}
  BY DEF Next, vars, counters, WorkerStep, UpstreamWrite, UpstreamStatusWrite,
         UpstreamDelete, InformerStep, Handle, HandleTombstone, Backoff, GetItem, Process,
         ensureDownstreamNamespaceExists, applyToDownstream, deleteFromDownstream,
         FinishItem, RequestFails, Relist, Crash, Start
<1> QED BY <1>1, <1>2 DEF NothingMissed

\* The watch only adds an event at the end of one stream.
LEMMA WatchEvents ==
    ASSUME Typed, NEW k \in Keys, NEW t \in I!EventTypes, NEW o \in Objects,
           Watch(k, t, o), NEW j \in Keys
    PROVE  /\ Len(stream[j]) \in Nat
           /\ \/ stream'[j] = stream[j]
              \/ /\ j = k
                 /\ Len(stream'[k]) = Len(stream[k]) + 1
                 /\ \A i \in 1..Len(stream[k]) : stream'[k][i] = stream[k][i]
                 /\ stream'[k][Len(stream[k]) + 1] = [type |-> t, obj |-> o]
<1> DEFINE e == [type |-> t, obj |-> o]
<1>1. stream \in [Keys -> Seq(I!Events(Objects))] /\ e \in I!Events(Objects)
  BY DEF Typed, TypeOK, I!Events
<1>2. Len(stream[j]) \in Nat
  BY <1>1, LenProperties
<1>3. CASE running /\ j = k
  <2>1. stream'[k] = Append(stream[k], e)
    BY <1>1, <1>3 DEF Watch
  <2> HIDE DEF e
  <2>2. /\ Len(stream'[k]) = Len(stream[k]) + 1
        /\ \A i \in 1..Len(stream[k]) : stream'[k][i] = stream[k][i]
        /\ stream'[k][Len(stream[k]) + 1] = e
    BY <1>1, <2>1, AppendElements
  <2> QED BY <1>2, <1>3, <2>2 DEF e
<1>4. CASE ~(running /\ j = k)
  <2>1. stream'[j] = stream[j]
    BY <1>1, <1>4 DEF Watch
  <2> QED BY <1>2, <2>1
<1> QED BY <1>3, <1>4

\* The informer only takes the first event of one stream.
LEMMA InformerEvents ==
    ASSUME Typed, NEW k \in Keys, InformerStep(k)
    PROVE  /\ \A j \in Keys : j # k => stream'[j] = stream[j] /\ cache'[j] = cache[j]
           /\ Len(stream[k]) \in Nat \ {0}
           /\ cache'[k] = I!CacheAfter(stream[k][1])
           /\ stream'[k] = Tail(stream[k])
           /\ Len(stream'[k]) = Len(stream[k]) - 1
           /\ \A i \in 1..Len(stream[k]) - 1 : stream'[k][i] = stream[k][i + 1]
<1>1. stream[k] \in Seq(I!Events(Objects)) /\ stream[k] # <<>>
  BY DEF InformerStep, Typed, TypeOK
<1>2. stream' = [stream EXCEPT ![k] = Tail(stream[k])]
  BY DEF InformerStep
<1>3. cache' = [cache EXCEPT ![k] = I!CacheAfter(Head(stream[k]))]
  BY DEF InformerStep
<1>4. stream'[k] = Tail(stream[k]) /\ cache'[k] = I!CacheAfter(Head(stream[k]))
  BY <1>2, <1>3 DEF Typed, TypeOK
<1>5. \A j \in Keys : j # k => stream'[j] = stream[j] /\ cache'[j] = cache[j]
  BY <1>2, <1>3 DEF Typed, TypeOK
<1> QED BY <1>1, <1>4, <1>5, TailElements

\* The first list of an object produces at most one event.
LEMMA FirstListEvents ==
    ASSUME NEW o \in Objects, NEW i \in 1..Len(I!FirstList(o))
    PROVE  i = 1 /\ o # Absent /\ I!FirstList(o)[i] = [type |-> "initial", obj |-> o]
BY DEF I!FirstList

\* A re-list of an object produces at most one event.
LEMMA ReListEvents ==
    ASSUME NEW o \in Objects, NEW c \in Objects, NEW i \in 1..Len(I!ReList(o, c))
    PROVE  /\ i = 1
           /\ o # Absent => I!ReList(o, c)[i] = [type |-> "replaced", obj |-> o]
           /\ o = Absent =>
                 c # Absent /\ I!ReList(o, c)[i] = [type |-> "gone", obj |-> c]
BY DEF I!ReList

\* No step makes an object that is not ready, if no write does.
LEMMA NextReadyOnly == Typed /\ StoppedIsEmpty /\ ReadyOnly /\ [Next]_vars => ReadyOnly'
<1> SUFFICES ASSUME Typed, StoppedIsEmpty, ReadyOnly, [Next]_vars,
                    ReadyLabels \subseteq {TRUE}, NEW k \in Keys
             PROVE  /\ upstream'[k] = Absent \/ upstream'[k].ready
                    /\ cache'[k] = Absent \/ cache'[k].ready
                    /\ \A i \in 1..Len(stream'[k]) : stream'[k][i].obj.ready
  BY DEF ReadyOnly
<1> DEFINE Goal == /\ upstream'[k] = Absent \/ upstream'[k].ready
                   /\ cache'[k] = Absent \/ cache'[k].ready
                   /\ \A i \in 1..Len(stream'[k]) : stream'[k][i].obj.ready
<1>t. /\ upstream \in [Keys -> Objects]
      /\ cache \in [Keys -> Objects]
      /\ stream \in [Keys -> Seq(I!Events(Objects))]
  BY DEF Typed, TypeOK
<1>r. \A j \in Keys :
         /\ upstream[j] = Absent \/ upstream[j].ready
         /\ cache[j] = Absent \/ cache[j].ready
         /\ \A i \in 1..Len(stream[j]) : stream[j][i].obj.ready
  BY DEF ReadyOnly
<1>w. ASSUME NEW j \in Keys, NEW t \in I!EventTypes, NEW o \in Objects, Watch(j, t, o), o.ready
      PROVE  \A i \in 1..Len(stream'[k]) : stream'[k][i].obj.ready
  <2>1. CASE stream'[k] = stream[k]
    BY <1>r, <2>1
  <2>2. CASE stream'[k] # stream[k]
    <3> DEFINE n == Len(stream[k])
    <3>1. /\ n \in Nat
          /\ Len(stream'[k]) = n + 1
          /\ \A i \in 1..n : stream'[k][i] = stream[k][i]
          /\ stream'[k][n + 1] = [type |-> t, obj |-> o]
      BY <1>w, <2>2, WatchEvents
    <3>2. \A i \in 1..n : stream[k][i].obj.ready
      BY <1>r
    <3> HIDE DEF n
    <3> SUFFICES ASSUME NEW i \in 1..n + 1 PROVE stream'[k][i].obj.ready
      BY <3>1
    <3>3. i \in 1..n \/ i = n + 1
      BY <3>1
    <3> QED BY <1>w, <3>1, <3>2, <3>3
  <2> QED BY <2>1, <2>2
<1>1. ASSUME NEW j \in Keys, NEW ready \in ReadyLabels, UpstreamWrite(j, ready)
      PROVE  Goal
  <2> DEFINE o == [gen |-> writes + 1, ready |-> ready]
  <2>0. ready = TRUE
    OBVIOUS
  <2>1. o \in Objects /\ o.ready /\ "modified" \in I!EventTypes
    BY <2>0, SyncerAssumption DEF Typed, TypeOK, Objects, I!EventTypes
  <2>2. cache' = cache /\ upstream' = [upstream EXCEPT ![j] = o] /\ Watch(j, "modified", o)
    BY <1>1 DEF UpstreamWrite
  <2> HIDE DEF o
  <2>3. upstream'[k] = upstream[k] \/ upstream'[k] = o
    BY <1>t, <2>2
  <2>4. \A i \in 1..Len(stream'[k]) : stream'[k][i].obj.ready
    BY <1>w, <2>1, <2>2
  <2> QED BY <1>r, <2>1, <2>2, <2>3, <2>4
<1>2. ASSUME NEW j \in Keys, UpstreamStatusWrite(j) \/ UpstreamDelete(j)
      PROVE  Goal
  <2>1. /\ upstream[j] \in Objects /\ upstream[j].ready
        /\ {"modified", "deleted"} \subseteq I!EventTypes
    BY <1>2, <1>t, <1>r DEF UpstreamStatusWrite, UpstreamDelete, I!EventTypes
  <2>2. Watch(j, "modified", upstream[j]) \/ Watch(j, "deleted", upstream[j])
    BY <1>2 DEF UpstreamStatusWrite, UpstreamDelete
  <2>3. cache' = cache /\ (upstream'[k] = upstream[k] \/ upstream'[k] = Absent)
    BY <1>2, <1>t DEF UpstreamStatusWrite, UpstreamDelete
  <2>4. \A i \in 1..Len(stream'[k]) : stream'[k][i].obj.ready
    BY <1>w, <2>1, <2>2
  <2> QED BY <1>r, <2>3, <2>4
<1>3. ASSUME NEW j \in Keys, InformerStep(j)
      PROVE  Goal
  <2>1. upstream' = upstream
    BY <1>3 DEF InformerStep, external
  <2>2. CASE j # k
    BY <1>3, <1>r, <2>1, <2>2, InformerEvents
  <2>3. CASE j = k
    <3>1. /\ Len(stream[k]) \in Nat \ {0}
          /\ cache'[k] = I!CacheAfter(stream[k][1])
          /\ Len(stream'[k]) = Len(stream[k]) - 1
          /\ \A i \in 1..Len(stream[k]) - 1 : stream'[k][i] = stream[k][i + 1]
      BY <1>3, <2>3, InformerEvents
    <3>2. 1 \in 1..Len(stream[k])
      BY <3>1
    <3>3. cache'[k] = Absent \/ cache'[k].ready
      BY <1>r, <3>1, <3>2 DEF I!CacheAfter
    <3>4. \A i \in 1..Len(stream'[k]) : stream'[k][i].obj.ready
      BY <1>r, <3>1
    <3> QED BY <1>r, <2>1, <3>3, <3>4
  <2> QED BY <2>2, <2>3
<1>4. CASE NoProcess /\ upstream' = upstream
  <2>1. cache'[k] = Absent /\ stream'[k] = <<>>
    BY <1>4 DEF NoProcess
  <2> QED BY <1>4, <1>r, <2>1
<1>5. CASE Relist
  <2>1. /\ stream'[k] = I!ReList(upstream[k], cache[k])
        /\ cache' = cache /\ upstream' = upstream
    BY <1>5 DEF Relist, external
  <2>2. upstream[k] \in Objects /\ cache[k] \in Objects
    BY <1>t
  <2>3. ASSUME NEW i \in 1..Len(stream'[k]) PROVE stream'[k][i].obj.ready
    <3> DEFINE s == I!ReList(upstream[k], cache[k])
    <3>1. \A m \in 1..Len(s) :
             \/ upstream[k] # Absent /\ s[m] = [type |-> "replaced", obj |-> upstream[k]]
             \/ cache[k] # Absent /\ s[m] = [type |-> "gone", obj |-> cache[k]]
      BY <2>2, ReListEvents
    <3> HIDE DEF s
    <3>2. stream'[k] = s
      BY <2>1 DEF s
    <3> QED BY <1>r, <3>1, <3>2
  <2> QED BY <1>r, <2>1, <2>3
<1>6. CASE Start
  <2>1. /\ stream'[k] = I!FirstList(upstream[k])
        /\ cache' = cache /\ upstream' = upstream
    BY <1>6 DEF Start, external
  <2>2. upstream[k] \in Objects
    BY <1>t
  <2>3. ASSUME NEW i \in 1..Len(stream'[k]) PROVE stream'[k][i].obj.ready
    <3> DEFINE s == I!FirstList(upstream[k])
    <3>1. \A m \in 1..Len(s) :
             upstream[k] # Absent /\ s[m] = [type |-> "initial", obj |-> upstream[k]]
      BY <2>2, FirstListEvents
    <3> HIDE DEF s
    <3>2. stream'[k] = s
      BY <2>1 DEF s
    <3> QED BY <1>r, <3>1, <3>2
  <2> QED BY <1>r, <2>1, <2>3
<1>7. CASE UNCHANGED <<upstream, stream, cache>>
  BY <1>7, <1>r
<1> QED BY <1>1, <1>2, <1>3, <1>4, <1>5, <1>6, <1>7
        DEF Next, vars, external, WorkerStep, Handle, HandleTombstone, Backoff,
            GetItem, Process, ensureDownstreamNamespaceExists, applyToDownstream,
            deleteFromDownstream, FinishItem, RequestFails, Crash

\* No step but a re-list makes a tombstone.
LEMMA NextNoTombstones == Typed /\ NoTombstones /\ [Next]_vars => NoTombstones'
<1> SUFFICES ASSUME Typed, NoTombstones, [Next]_vars, relists' = 0, NEW k \in Keys
             PROVE  /\ \A i \in 1..Len(stream'[k]) : stream'[k][i].type # "gone"
                    /\ \A i \in 1..Len(notify'[k]) : notify'[k][i].type # "tombstone"
  BY DEF NoTombstones
<1> DEFINE Events == \A i \in 1..Len(stream'[k]) : stream'[k][i].type # "gone"
           Notes == \A i \in 1..Len(notify'[k]) : notify'[k][i].type # "tombstone"
<1>t. /\ upstream \in [Keys -> Objects]
      /\ cache \in [Keys -> Objects]
      /\ stream \in [Keys -> Seq(I!Events(Objects))]
      /\ notify \in [Keys -> Seq(I!Notifications(Objects))]
      /\ relists \in Nat
  BY SyncerAssumption DEF Typed, TypeOK
<1>r. ASSUME relists = 0, NEW j \in Keys
      PROVE  /\ \A i \in 1..Len(stream[j]) : stream[j][i].type # "gone"
             /\ \A i \in 1..Len(notify[j]) : notify[j][i].type # "tombstone"
  BY <1>r DEF NoTombstones
<1>w. ASSUME relists = 0, NEW j \in Keys, NEW t \in I!EventTypes, NEW o \in Objects,
             Watch(j, t, o), t # "gone"
      PROVE  Events
  <2>1. CASE stream'[k] = stream[k]
    BY <1>r, <1>w, <2>1
  <2>2. CASE stream'[k] # stream[k]
    <3> DEFINE n == Len(stream[k])
    <3>1. /\ n \in Nat
          /\ Len(stream'[k]) = n + 1
          /\ \A i \in 1..n : stream'[k][i] = stream[k][i]
          /\ stream'[k][n + 1] = [type |-> t, obj |-> o]
      BY <1>w, <2>2, WatchEvents
    <3>2. \A i \in 1..n : stream[k][i].type # "gone"
      BY <1>r, <1>w
    <3> HIDE DEF n
    <3> SUFFICES ASSUME NEW i \in 1..n + 1 PROVE stream'[k][i].type # "gone"
      BY <3>1
    <3>3. i \in 1..n \/ i = n + 1
      BY <3>1
    <3> QED BY <1>w, <3>1, <3>2, <3>3
  <2> QED BY <2>1, <2>2
<1>1. ASSUME NEW j \in Keys, NEW ready \in ReadyLabels, UpstreamWrite(j, ready)
      PROVE  Events /\ Notes
  <2> DEFINE o == [gen |-> writes + 1, ready |-> ready]
  <2>1. o \in Objects /\ "modified" \in I!EventTypes
    BY SyncerAssumption DEF Typed, TypeOK, Objects, I!EventTypes
  <2>2. notify' = notify /\ relists = 0 /\ Watch(j, "modified", o)
    BY <1>1 DEF UpstreamWrite
  <2> HIDE DEF o
  <2> QED BY <1>r, <1>w, <2>1, <2>2
<1>2. ASSUME NEW j \in Keys, UpstreamStatusWrite(j) \/ UpstreamDelete(j)
      PROVE  Events /\ Notes
  <2>1. upstream[j] \in Objects /\ {"modified", "deleted"} \subseteq I!EventTypes
    BY <1>t DEF I!EventTypes
  <2>2. /\ Watch(j, "modified", upstream[j]) \/ Watch(j, "deleted", upstream[j])
        /\ notify' = notify /\ relists = 0
    BY <1>2 DEF UpstreamStatusWrite, UpstreamDelete, counters
  <2> QED BY <1>r, <1>w, <2>1, <2>2
<1>3. ASSUME NEW j \in Keys, InformerStep(j)
      PROVE  Events /\ Notes
  <2>0. relists = 0
    BY <1>3 DEF InformerStep, counters
  <2>1. CASE j # k
    <3>1. stream'[k] = stream[k]
      BY <1>3, <2>1, InformerEvents
    <3>2. notify'[k] = notify[k]
      BY <1>3, <1>t, <2>1 DEF InformerStep
    <3> QED BY <1>r, <2>0, <3>1, <3>2
  <2>2. CASE j = k
    <3> DEFINE e == Head(stream[k])
               m == I!NotificationOf(e, cache[k])
               n == Len(notify[k])
    <3>1. /\ stream[k] \in Seq(I!Events(Objects)) /\ stream[k] # <<>>
          /\ e \in I!Events(Objects)
      BY <1>3, <1>t, <2>2 DEF InformerStep
    <3>2. Len(stream[k]) \in Nat \ {0} /\ e = stream[k][1]
      BY <3>1, TailElements
    <3>3. e.type # "gone"
      BY <1>r, <2>0, <3>2
    <3>4. m \in I!Notifications(Objects)
      BY <1>t, <3>1, InformerTypes
    <3>5. m.type # "tombstone"
      BY <3>3 DEF I!NotificationOf
    <3>6. notify'[k] = Append(notify[k], m)
      BY <1>3, <1>t, <2>2 DEF InformerStep
    <3> HIDE DEF m
    <3>7. /\ n \in Nat
          /\ Len(notify'[k]) = n + 1
          /\ \A i \in 1..n : notify'[k][i] = notify[k][i]
          /\ notify'[k][n + 1] = m
      BY <1>t, <3>4, <3>6, AppendElements
    <3>8. \A i \in 1..n : notify[k][i].type # "tombstone"
      BY <1>r, <2>0
    <3> HIDE DEF n
    <3>9. ASSUME NEW i \in 1..n + 1 PROVE notify'[k][i].type # "tombstone"
      <4>1. i \in 1..n \/ i = n + 1
        BY <3>7
      <4> QED BY <3>5, <3>7, <3>8, <4>1
    <3>10. Notes
      BY <3>7, <3>9
    <3>11. /\ Len(stream'[k]) = Len(stream[k]) - 1
           /\ \A i \in 1..Len(stream[k]) - 1 : stream'[k][i] = stream[k][i + 1]
      BY <1>3, <2>2, InformerEvents
    <3>12. Events
      BY <1>r, <2>0, <3>2, <3>11
    <3> QED BY <3>10, <3>12
  <2> QED BY <2>1, <2>2
<1>4. ASSUME NEW j \in Keys, Handle(j)
      PROVE  Events /\ Notes
  <2>1. /\ stream' = stream /\ relists = 0
        /\ notify' = [notify EXCEPT ![j] = Tail(notify[j])]
        /\ notify[j] # <<>>
    BY <1>4 DEF Handle, counters
  <2>2. CASE j # k
    <3>1. notify'[k] = notify[k]
      BY <1>t, <2>1, <2>2
    <3> QED BY <1>r, <2>1, <3>1
  <2>3. CASE j = k
    <3>1. notify'[k] = Tail(notify[k])
      BY <1>t, <2>1, <2>3
    <3>2. /\ Len(notify[k]) \in Nat \ {0}
          /\ Len(notify'[k]) = Len(notify[k]) - 1
          /\ \A i \in 1..Len(notify[k]) - 1 : notify'[k][i] = notify[k][i + 1]
      BY <1>t, <2>1, <2>3, <3>1, TailElements
    <3>3. Notes
      BY <1>r, <2>1, <3>2
    <3> QED BY <1>r, <2>1, <3>3
  <2> QED BY <2>2, <2>3
<1>5. CASE NoProcess
  <2>1. stream'[k] = <<>> /\ notify'[k] = <<>>
    BY <1>5 DEF NoProcess
  <2> QED BY <2>1
<1>6. CASE Start
  <2>1. /\ stream'[k] = I!FirstList(upstream[k])
        /\ notify' = notify /\ relists = 0
    BY <1>6 DEF Start, counters
  <2> DEFINE s == I!FirstList(upstream[k])
  <2>2. \A i \in 1..Len(s) : s[i] = [type |-> "initial", obj |-> upstream[k]]
    BY <1>t, FirstListEvents
  <2> HIDE DEF s
  <2>3. stream'[k] = s
    BY <2>1 DEF s
  <2>4. Events
    BY <2>2, <2>3
  <2> QED BY <1>r, <2>1, <2>4
<1>7. CASE ~Relist /\ UNCHANGED <<stream, notify, relists>>
  BY <1>7, <1>r
<1>8. ~Relist
  BY <1>t DEF Relist
<1> QED BY <1>1, <1>2, <1>3, <1>4, <1>5, <1>6, <1>7, <1>8
        DEF Next, vars, counters, WorkerStep, HandleTombstone, Backoff,
            GetItem, Process, ensureDownstreamNamespaceExists, applyToDownstream,
            deleteFromDownstream, FinishItem, RequestFails, Crash

\* A syncer that is down has either never run, or may have missed a deletion.
LEMMA NextNothingYet ==
    Typed /\ StoppedIsEmpty /\ NoTombstones /\ NothingYet /\ [Next]_vars => NothingYet'
<1> SUFFICES ASSUME Typed, StoppedIsEmpty, NoTombstones, NothingYet, [Next]_vars,
                    ~running', NothingMissed'
             PROVE  downstream' = [k \in Keys |-> Absent]
  BY DEF NothingYet
<1>1. NothingMissed /\ crashes \in Nat
  BY MissedForGood, SyncerAssumption DEF Typed, TypeOK
<1>2. ASSUME NEW k \in Keys, HandleTombstone(k) PROVE FALSE
  <2>1. notify[k] \in Seq(I!Notifications(Objects)) /\ notify[k] # <<>>
    BY <1>2 DEF HandleTombstone, Typed, TypeOK
  <2>2. 1 \in 1..Len(notify[k]) /\ Head(notify[k]) = notify[k][1]
    BY <2>1, TailElements
  <2> QED BY <1>1, <1>2, <2>2 DEF HandleTombstone, NoTombstones, NothingMissed
<1>3. ~Crash
  BY <1>1 DEF Crash, NothingMissed
<1>4. ~running
  BY <1>2, <1>3 DEF Next, vars, WorkerStep, UpstreamWrite, UpstreamStatusWrite,
         UpstreamDelete, InformerStep, Handle, Backoff, GetItem, Process,
         ensureDownstreamNamespaceExists, applyToDownstream, deleteFromDownstream,
         FinishItem, RequestFails, Relist, Start
<1>5. \A w \in Workers : worker[w].pc = "idle"
  BY <1>4 DEF StoppedIsEmpty, IdleWorker
<1>6. downstream' = downstream
  BY <1>2, <1>3, <1>5 DEF Next, vars, external, WorkerStep, UpstreamWrite,
         UpstreamStatusWrite, UpstreamDelete, InformerStep, Handle, Backoff, GetItem,
         Process, ensureDownstreamNamespaceExists, applyToDownstream,
         deleteFromDownstream, FinishItem, RequestFails, Relist, Start
<1> QED BY <1>1, <1>4, <1>6 DEF NothingYet

\* A worker goes to delete an object only when it is not in the cache.
LEMMA NextDeletesAbsent == Typed /\ DeletesAbsent /\ [Next]_vars => DeletesAbsent'
<1> SUFFICES ASSUME Typed, DeletesAbsent, [Next]_vars PROVE DeletesAbsent'
  OBVIOUS
<1>1. CASE worker' = worker
  BY <1>1 DEF DeletesAbsent
<1>2. CASE NoProcess
  BY <1>2 DEF NoProcess, DeletesAbsent, IdleWorker
<1>3. ASSUME NEW v \in Workers, NEW pc, NEW o, Work(v, pc, o), pc = "delete" => o = Absent
      PROVE  DeletesAbsent'
  <2>1. /\ worker'[v] = [pc |-> pc, key |-> worker[v].key, obj |-> o]
        /\ \A w \in Workers : w # v => worker'[w] = worker[w]
    BY <1>3, WorkEffect
  <2> QED BY <1>3, <2>1 DEF DeletesAbsent
<1>4. ASSUME NEW v \in Workers, Process(v)
      PROVE  DeletesAbsent'
  <2> DEFINE o == cache[worker[v].key]
  <2>1. Work(v, IF o = Absent THEN "delete" ELSE "ensure", o)
    BY <1>4 DEF Process
  <2> QED BY <1>3, <2>1
<1>5. ASSUME NEW v \in Workers, FinishItem(v)
      PROVE  DeletesAbsent'
  BY <1>5 DEF FinishItem, DeletesAbsent, IdleWorker, Typed, TypeOK
<1>6. ASSUME NEW v \in Workers, NEW k \in Keys, GetItem(v, k)
      PROVE  DeletesAbsent'
  BY <1>6 DEF GetItem, DeletesAbsent, Typed, TypeOK
<1>7. ASSUME NEW v \in Workers,
             \/ ensureDownstreamNamespaceExists(v)
             \/ applyToDownstream(v)
             \/ deleteFromDownstream(v)
             \/ \E done \in BOOLEAN : RequestFails(v, done)
      PROVE  DeletesAbsent'
  <2>1. \E pc \in {"patch", "done", "failed"} : Work(v, pc, worker[v].obj)
    BY <1>7 DEF ensureDownstreamNamespaceExists, applyToDownstream,
           deleteFromDownstream, RequestFails, Move
  <2> QED BY <1>3, <2>1
<1> QED BY <1>1, <1>2, <1>4, <1>5, <1>6, <1>7
        DEF Next, vars, WorkerStep, UpstreamWrite, UpstreamStatusWrite, UpstreamDelete,
            InformerStep, Handle, HandleTombstone, Backoff, Relist, Crash, Start

\* Every step keeps what the syncer knows of deletions.
LEMMA NextDeletions ==
    Typed /\ StoppedIsEmpty /\ DeletionsKnown /\ [Next]_vars => DeletionsKnown'
BY NextReadyOnly, NextNoTombstones, NextNothingYet, NextDeletesAbsent DEF DeletionsKnown

-------------------------------------------------------------------------------
(* Nothing is forgotten.                                                   *)

\* A step of worker v that concerns another object leaves k pending.
LEMMA OtherKeyPending ==
    ASSUME NEW v \in Workers, NEW k \in Keys, Pending(k),
           worker[v].key # k, worker'[v].key # k,
           \A w \in Workers : w # v => worker'[w] = worker[w],
           cache'[k] = cache[k], notify'[k] = notify[k],
           downstream'[k] = downstream[k],
           k \in queue.dirty \cup queue.delayed =>
               k \in queue'.dirty \cup queue'.delayed
    PROVE  Pending(k)'
<1>1. ASSUME Notified(k) PROVE Notified(k)'
  BY <1>1 DEF Notified
<1>2. ASSUME NEW w \in Workers, WillApply(w, k) PROVE WillApply(w, k)'
  <2>1. w # v
    BY <1>2 DEF WillApply
  <2> QED BY <1>2, <2>1 DEF WillApply
<1>3. ASSUME Applied(k) PROVE Applied(k)'
  BY <1>3 DEF Applied
<1> QED BY <1>1, <1>2, <1>3 DEF Pending

\* An event that changes a cached object to a ready one, or deletes a ready one,
\* is queued when handled; one that changes nothing leaves what was pending.
LEMMA InformerPending ==
    ASSUME Typed, ReadyOnly, NoTombstones, NEW k \in Keys, InformerStep(k), Due(k)',
           Due(k) => Pending(k)
    PROVE  Pending(k)'
<1> DEFINE e == Head(stream[k])
           n == I!NotificationOf(e, cache[k])
           s == notify[k]
<1>1. /\ e \in I!Events(Objects)
      /\ s \in Seq(I!Notifications(Objects))
      /\ cache[k] \in Objects
  BY DEF InformerStep, Typed, TypeOK
<1>2. n \in I!Notifications(Objects)
  BY <1>1, InformerTypes
<1>3. cache'[k] = I!CacheAfter(e) /\ notify'[k] = Append(s, n)
  BY DEF InformerStep, Typed, TypeOK
<1> HIDE DEF n, s
<1>4. /\ Len(s) \in Nat
      /\ Len(notify'[k]) = Len(s) + 1
      /\ \A i \in 1..Len(s) : notify'[k][i] = s[i]
      /\ notify'[k][Len(s) + 1] = n
  BY <1>1, <1>2, <1>3, AppendElements
<1>5. ASSUME ShouldEnqueue(n) PROVE Pending(k)'
  <2>1. Len(s) + 1 \in 1..Len(notify'[k])
    BY <1>4
  <2>2. Notified(k)'
    BY <1>4, <1>5, <2>1 DEF Notified
  <2> QED BY <2>2 DEF Pending
<1>6. CASE cache'[k].ready
  <2>1. e.type \notin {"deleted", "gone"} /\ e.obj = cache'[k]
    BY <1>3, <1>6, AbsentType DEF I!CacheAfter
  <2>2. n = [type |-> IF cache[k] = Absent THEN "add" ELSE "update",
             old |-> cache[k], new |-> cache'[k]]
    BY <2>1 DEF I!NotificationOf, n
  <2>3. CASE cache'[k] # cache[k]
    <3>1. ShouldEnqueue(n)
      BY <1>6, <2>2, <2>3 DEF ShouldEnqueue, deepEqualApartFromStatus
    <3> QED BY <1>5, <3>1
  <2>4. CASE cache'[k] = cache[k]
    <3>1. Pending(k)
      BY <1>6, <2>4 DEF Due
    <3>2. ASSUME Notified(k) PROVE Notified(k)'
      <4>1. PICK i \in 1..Len(s) : ShouldEnqueue(s[i])
        BY <3>2 DEF Notified, s
      <4>2. i \in 1..Len(notify'[k]) /\ notify'[k][i] = s[i]
        BY <1>4
      <4> QED BY <4>1, <4>2 DEF Notified
    <3>3. UNCHANGED <<queue, worker, downstream>>
      BY DEF InformerStep, external
    <3> QED BY <2>4, <3>1, <3>2, <3>3 DEF Pending, WillApply, Applied
  <2> QED BY <2>3, <2>4
<1>7. CASE ~cache'[k].ready
  <2>1. relists = 0 /\ ReadyLabels \subseteq {TRUE}
    BY <1>7 DEF Due, NothingMissed, InformerStep, counters
  <2>2. stream[k] \in Seq(I!Events(Objects)) /\ stream[k] # <<>>
    BY DEF InformerStep, Typed, TypeOK
  <2>3. e = stream[k][1] /\ 1 \in 1..Len(stream[k])
    BY <2>2, TailElements
  <2>4. e.obj.ready /\ e.type # "gone"
    BY <2>1, <2>3 DEF ReadyOnly, NoTombstones
  <2>5. e.type = "deleted"
    BY <1>3, <1>7, <2>4 DEF I!CacheAfter
  <2>6. n = [type |-> "delete", old |-> e.obj, new |-> Absent]
    BY <2>5 DEF I!NotificationOf, n
  <2>7. ShouldEnqueue(n)
    BY <2>4, <2>6 DEF ShouldEnqueue
  <2> QED BY <1>5, <2>7
<1> QED BY <1>6, <1>7

\* What the handlers do to the queue.
LEMMA HandleQueue ==
    ASSUME Typed, NEW k \in Keys, Handle(k)
    PROVE  /\ queue'.delayed = queue.delayed
           /\ queue.dirty \subseteq queue'.dirty
           /\ ShouldEnqueue(Head(notify[k])) => k \in queue'.dirty
<1>1. queue \in Queues(Keys)
  BY DEF Typed, TypeOK
<1>2. /\ Add(queue, k).dirty = queue.dirty \cup {k}
      /\ Add(queue, k).delayed = queue.delayed
  BY <1>1, QueueOperations
<1>3. queue' = IF ShouldEnqueue(Head(notify[k])) THEN Add(queue, k) ELSE queue
  BY DEF Handle
<1> QED BY <1>2, <1>3

\* A handled notification is queued if it has to be.
LEMMA HandlePending ==
    ASSUME Typed, NEW k \in Keys, Handle(k), Pending(k)
    PROVE  Pending(k)'
<1> DEFINE s == notify[k]
           t == Tail(s)
<1>1. /\ s \in Seq(I!Notifications(Objects)) /\ s # <<>>
      /\ queue \in Queues(Keys)
  BY DEF Handle, Typed, TypeOK
<1>2. notify'[k] = t
  BY DEF Handle, Typed, TypeOK
<1>3. UNCHANGED <<cache, worker, downstream>>
  BY DEF Handle, external
<1>4. queue'.delayed = queue.delayed /\ queue.dirty \subseteq queue'.dirty
  BY HandleQueue
<1>5. CASE ShouldEnqueue(Head(s))
  <2>1. k \in queue'.dirty
    BY <1>5, HandleQueue
  <2> QED BY <2>1 DEF Pending
<1>6. CASE ~ShouldEnqueue(Head(s))
  <2>1. /\ t \in Seq(I!Notifications(Objects))
        /\ Len(t) = Len(s) - 1
        /\ \A i \in 1..Len(t) : t[i] = s[i + 1]
    BY <1>1, HeadTailProperties
  <2>2. Len(s) \in Nat /\ Len(s) # 0 /\ Head(s) = s[1]
    BY <1>1, EmptySeq, LenProperties
  <2> HIDE DEF s, t
  <2>3. ASSUME Notified(k) PROVE Notified(k)'
    <3>1. PICK i \in 1..Len(s) : ShouldEnqueue(s[i])
      BY <2>3 DEF Notified, s
    <3>2. i # 1
      BY <1>6, <2>2, <3>1
    <3>3. i - 1 \in 1..Len(t) /\ t[i - 1] = s[i]
      BY <2>1, <2>2, <3>2
    <3> QED BY <1>2, <3>1, <3>3 DEF Notified
  <2> QED BY <1>3, <1>4, <2>3 DEF Pending, WillApply, Applied
<1> QED BY <1>5, <1>6

\* A worker's step on k leaves k pending: the worker that read the cache will
\* write what it read, unless the cache has changed and k is queued again.
LEMMA WorkerPending ==
    ASSUME Typed, WorkSerialised, DeletesAbsent, NEW k \in Keys, NEW v \in Workers,
           WorkerStep(v) \/ \E done \in BOOLEAN : RequestFails(v, done),
           worker[v].key = k, Pending(k)
    PROVE  Pending(k)'
<1>k. k # NoKey /\ \A w \in Workers : worker[w].key = k => w = v
  BY SyncerAssumption DEF WorkSerialised
<1>s. cache' = cache /\ notify' = notify
  BY DEF WorkerStep, Process, ensureDownstreamNamespaceExists, applyToDownstream,
         deleteFromDownstream, FinishItem, RequestFails
<1>n. Notified(k) => Pending(k)'
  BY <1>s DEF Pending, Notified
<1>q. ASSUME queue' = queue, k \in queue.dirty \cup queue.delayed
      PROVE  Pending(k)'
  BY <1>q DEF Pending
<1>1. CASE Process(v)
  <2> DEFINE pc == IF cache[k] = Absent THEN "delete" ELSE "ensure"
  <2>1. Work(v, pc, cache[k])
    BY <1>1 DEF Process
  <2>2. worker'[v] = [pc |-> pc, key |-> k, obj |-> cache[k]]
    BY <2>1, WorkEffect
  <2>3. WillApply(v, k)'
    BY <1>s, <2>2 DEF WillApply
  <2> QED BY <2>3 DEF Pending
<1>2. CASE ensureDownstreamNamespaceExists(v)
  <2>1. Work(v, "patch", worker[v].obj) /\ queue' = queue /\ worker[v].pc = "ensure"
    BY <1>2 DEF ensureDownstreamNamespaceExists, Move
  <2>2. ~Applied(k)
    BY <2>1 DEF Applied
  <2>e. worker'[v] = [pc |-> "patch", key |-> k, obj |-> worker[v].obj]
    BY <2>1, WorkEffect
  <2>3. WillApply(v, k) => WillApply(v, k)'
    BY <1>s, <2>1, <2>e DEF WillApply
  <2>4. (\E w \in Workers : WillApply(w, k)) => WillApply(v, k)
    BY <1>k DEF WillApply
  <2> QED BY <1>n, <1>q, <2>1, <2>2, <2>3, <2>4 DEF Pending
<1>3. CASE applyToDownstream(v)
  <2>1. Work(v, "done", worker[v].obj) /\ queue' = queue /\ worker[v].pc = "patch"
    BY <1>3 DEF applyToDownstream, Move
  <2>2. ~Applied(k)
    BY <2>1 DEF Applied
  <2>3. downstream'[k] = worker[v].obj
    BY <1>3 DEF applyToDownstream, Typed, TypeOK
  <2>e. /\ worker'[v] = [pc |-> "done", key |-> k, obj |-> worker[v].obj]
        /\ \A w \in Workers : w # v => worker'[w] = worker[w]
    BY <2>1, WorkEffect
  <2>4. WillApply(v, k) => Applied(k)'
    BY <1>k, <1>s, <2>1, <2>3, <2>e DEF WillApply, Applied
  <2>5. (\E w \in Workers : WillApply(w, k)) => WillApply(v, k)
    BY <1>k DEF WillApply
  <2> QED BY <1>n, <1>q, <2>1, <2>2, <2>4, <2>5 DEF Pending
<1>4. CASE deleteFromDownstream(v)
  <2> DEFINE pc == IF downstream[k] = Absent THEN "failed" ELSE "done"
  <2>1. Work(v, pc, worker[v].obj) /\ queue' = queue /\ worker[v].pc = "delete"
    BY <1>4 DEF deleteFromDownstream, Move
  <2>2. worker[v].obj = Absent
    BY <2>1 DEF DeletesAbsent
  <2>3. ~Applied(k)
    BY <2>1 DEF Applied
  <2>4. downstream'[k] = Absent
    BY <1>4 DEF deleteFromDownstream, Typed, TypeOK
  <2>e. /\ worker'[v] = [pc |-> pc, key |-> k, obj |-> Absent]
        /\ \A w \in Workers : w # v => worker'[w] = worker[w]
    BY <2>1, <2>2, WorkEffect
  <2>5. ASSUME WillApply(v, k) PROVE Pending(k)'
    <3>1. cache'[k] = Absent
      BY <1>s, <2>1, <2>2, <2>5 DEF WillApply
    <3>2. CASE pc = "failed"
      BY <2>e, <3>2 DEF Pending, WillApply
    <3>3. CASE pc = "done"
      BY <1>k, <2>4, <2>e, <3>1, <3>3 DEF Pending, Applied
    <3> QED BY <3>2, <3>3
  <2>6. (\E w \in Workers : WillApply(w, k)) => WillApply(v, k)
    BY <1>k DEF WillApply
  <2> QED BY <1>n, <1>q, <2>1, <2>3, <2>5, <2>6 DEF Pending
<1>5. ASSUME NEW done \in BOOLEAN, RequestFails(v, done)
      PROVE  Pending(k)'
  <2>1. Work(v, "failed", worker[v].obj)
    BY <1>5 DEF RequestFails, Move
  <2>e. worker'[v] = [pc |-> "failed", key |-> k, obj |-> worker[v].obj]
    BY <2>1, WorkEffect
  <2>2. WillApply(v, k)'
    BY <2>e DEF WillApply
  <2> QED BY <2>2 DEF Pending
<1>6. CASE FinishItem(v)
  <2>1. /\ queue'.dirty = queue.dirty
        /\ queue'.delayed = IF worker[v].pc = "failed"
                            THEN queue.delayed \cup {k} ELSE queue.delayed
    BY <1>6, FinishQueue
  <2>2. CASE worker[v].pc = "failed"
    BY <2>1, <2>2 DEF Pending
  <2>3. CASE worker[v].pc # "failed"
    <3>1. worker[v].pc = "done"
      BY <1>6, <2>3 DEF FinishItem
    <3>2. \A w \in Workers : ~WillApply(w, k)
      BY <1>k, <3>1 DEF WillApply
    <3>3. \A w \in Workers : worker'[w].key # k
      BY <1>6, <1>k DEF FinishItem, IdleWorker, Typed, TypeOK
    <3>4. Applied(k) => Applied(k)'
      BY <1>6, <1>s, <3>3 DEF Applied, FinishItem, external
    <3>5. k \in queue.dirty \cup queue.delayed => Pending(k)'
      BY <2>1, <2>3 DEF Pending
    <3>6. Applied(k)' => Pending(k)'
      BY DEF Pending
    <3> QED BY <1>n, <3>2, <3>4, <3>5, <3>6 DEF Pending
  <2> QED BY <2>2, <2>3
<1> QED BY <1>1, <1>2, <1>3, <1>4, <1>5, <1>6 DEF WorkerStep

\* Every step leaves what is due pending.
LEMMA NextForgotten ==
    Typed /\ WorkSerialised /\ StoppedIsEmpty /\ DeletionsKnown /\ NothingForgotten
          /\ [Next]_vars
        => NothingForgotten'
<1> SUFFICES ASSUME Typed, WorkSerialised, StoppedIsEmpty, DeletionsKnown,
                    NothingForgotten, [Next]_vars,
                    running', NEW k \in Keys, Due(k)'
             PROVE  Pending(k)'
  BY DEF NothingForgotten
<1>q. queue \in Queues(Keys)
  BY DEF Typed, TypeOK
<1>d. ReadyOnly /\ NoTombstones /\ NothingYet /\ DeletesAbsent
  BY DEF DeletionsKnown
<1>m. NothingMissed' => NothingMissed
  BY MissedForGood
<1>r. ASSUME running, cache'[k] = cache[k] PROVE Pending(k)
  <2>1. Due(k)
    BY <1>m, <1>r DEF Due
  <2> QED BY <1>r, <2>1 DEF NothingForgotten
<1>1. CASE Start
  <2>1. /\ cache' = cache /\ worker' = worker /\ downstream' = downstream
        /\ ~running
    BY <1>1 DEF Start, external
  <2>2. cache[k] = Absent /\ \A w \in Workers : worker[w].key = NoKey
    BY <2>1 DEF StoppedIsEmpty, IdleWorker
  <2>3. NothingMissed
    BY <1>m, <2>1, <2>2, AbsentType DEF Due
  <2>4. downstream[k] = Absent
    BY <1>d, <2>1, <2>3 DEF NothingYet
  <2>5. Applied(k)'
    BY <2>1, <2>2, <2>4, SyncerAssumption DEF Applied
  <2> QED BY <2>5 DEF Pending
<1>2. CASE running /\ UNCHANGED <<cache, notify, queue, worker, downstream>>
  BY <1>2, <1>r DEF Pending, Notified, WillApply, Applied
<1>3. ASSUME NEW j \in Keys, InformerStep(j)
      PROVE  Pending(k)'
  <2>0. running
    BY <1>3 DEF InformerStep, StoppedIsEmpty
  <2>1. CASE j = k
    <3>1. Due(k) => Pending(k)
      BY <2>0 DEF NothingForgotten
    <3> QED BY <1>3, <1>d, <2>1, <3>1, InformerPending
  <2>2. CASE j # k
    <3>1. cache'[k] = cache[k] /\ notify'[k] = notify[k]
      BY <1>3, <2>2 DEF InformerStep, Typed, TypeOK
    <3>2. UNCHANGED <<queue, worker, downstream>>
      BY <1>3 DEF InformerStep, external
    <3>3. Pending(k)
      BY <1>r, <2>0, <3>1
    <3> QED BY <3>1, <3>2, <3>3 DEF Pending, Notified, WillApply, Applied
  <2> QED BY <2>1, <2>2
<1>4. ASSUME NEW j \in Keys, Handle(j)
      PROVE  Pending(k)'
  <2>1. running /\ UNCHANGED <<cache, worker, downstream>>
    BY <1>4 DEF Handle, StoppedIsEmpty, external
  <2>2. Pending(k)
    BY <1>r, <2>1
  <2>3. CASE j = k
    BY <1>4, <2>2, <2>3, HandlePending
  <2>4. CASE j # k
    <3>1. notify'[k] = notify[k]
      BY <1>4, <2>4 DEF Handle, Typed, TypeOK
    <3>2. queue'.delayed = queue.delayed /\ queue.dirty \subseteq queue'.dirty
      BY <1>4, HandleQueue
    <3> QED BY <2>1, <2>2, <3>1, <3>2 DEF Pending, Notified, WillApply, Applied
  <2> QED BY <2>3, <2>4
<1>5. ASSUME NEW j \in Keys, Backoff(j)
      PROVE  Pending(k)'
  <2>1. UNCHANGED <<cache, notify, worker, downstream>>
    BY <1>5 DEF Backoff, external
  <2>2. running
    BY <1>5 DEF Backoff, StoppedIsEmpty, EmptyQueue, Queue
  <2>3. queue.dirty \cup queue.delayed \subseteq queue'.dirty \cup queue'.delayed
    <3>1. /\ BackoffOver(queue, j).dirty = queue.dirty \cup {j}
          /\ BackoffOver(queue, j).delayed = queue.delayed \ {j}
      BY DEF BackoffOver, Queue
    <3>2. queue' = BackoffOver(queue, j)
      BY <1>5 DEF Backoff
    <3> QED BY <3>1, <3>2
  <2>4. Pending(k)
    BY <1>r, <2>1, <2>2
  <2> QED BY <2>1, <2>3, <2>4 DEF Pending, Notified, WillApply, Applied
<1>6. ASSUME NEW j \in Keys, NEW v \in Workers, GetItem(v, j)
      PROVE  Pending(k)'
  <2>1. UNCHANGED <<cache, notify, downstream>> /\ running
    BY <1>6 DEF GetItem, external
  <2>2. /\ worker'[v] = [pc |-> "process", key |-> j, obj |-> Absent]
        /\ \A w \in Workers : w # v => worker'[w] = worker[w]
    BY <1>6 DEF GetItem, Typed, TypeOK
  <2>3. CASE j = k
    <3>1. WillApply(v, k)'
      BY <2>2, <2>3 DEF WillApply
    <3> QED BY <3>1 DEF Pending
  <2>4. CASE j # k
    <3>1. worker[v].key # k
      BY <1>6, SyncerAssumption DEF GetItem, Typed, WorkersKeyed
    <3>2. queue'.dirty = queue.dirty \ {j} /\ queue'.delayed = queue.delayed
      BY <1>6, <1>q, QueueOperations DEF GetItem
    <3>3. Pending(k)
      BY <1>r, <2>1
    <3>4. worker'[v].key # k
      BY <2>2, <2>4
    <3> QED BY <2>1, <2>2, <2>4, <3>1, <3>2, <3>3, <3>4, OtherKeyPending
  <2> QED BY <2>3, <2>4
<1>7. ASSUME NEW v \in Workers,
             WorkerStep(v) \/ \E done \in BOOLEAN : RequestFails(v, done)
      PROVE  Pending(k)'
  <2>1. UNCHANGED <<cache, notify>>
    BY <1>7 DEF WorkerStep, Process, ensureDownstreamNamespaceExists,
           applyToDownstream, deleteFromDownstream, FinishItem, RequestFails
  <2>2. worker[v].pc # "idle"
    BY <1>7 DEF WorkerStep, Process, ensureDownstreamNamespaceExists,
           applyToDownstream, deleteFromDownstream, FinishItem, RequestFails
  <2>3. running
    BY <2>2 DEF StoppedIsEmpty, IdleWorker
  <2>4. Pending(k)
    BY <1>r, <2>1, <2>3
  <2>5. CASE worker[v].key = k
    BY <1>7, <1>d, <2>1, <2>4, <2>5, WorkerPending
  <2>6. CASE worker[v].key # k
    <3>1. worker[v].key \in Keys
      BY <2>2, BusyWorker DEF Typed
    <3>2. downstream'[k] = downstream[k]
      BY <1>7, <2>6, <3>1 DEF WorkerStep, Process, ensureDownstreamNamespaceExists,
             applyToDownstream, deleteFromDownstream, FinishItem, RequestFails,
             external, Typed, TypeOK
    <3>3. ASSUME FinishItem(v)
          PROVE  /\ worker'[v].key # k
                 /\ \A w \in Workers : w # v => worker'[w] = worker[w]
                 /\ k \in queue.dirty \cup queue.delayed =>
                        k \in queue'.dirty \cup queue'.delayed
      <4>1. k # NoKey
        BY SyncerAssumption
      <4>2. queue.dirty \cup queue.delayed \subseteq queue'.dirty \cup queue'.delayed
        BY <3>3, FinishQueue
      <4> QED BY <3>3, <4>1, <4>2 DEF FinishItem, IdleWorker, Typed, TypeOK
    <3>4. ASSUME ~FinishItem(v)
          PROVE  queue' = queue /\ \E pc, o : Work(v, pc, o)
      BY <1>7, <3>4 DEF WorkerStep, Process, ensureDownstreamNamespaceExists,
             applyToDownstream, deleteFromDownstream, RequestFails, Move
    <3>5. ASSUME ~FinishItem(v)
          PROVE  /\ worker'[v].key # k
                 /\ \A w \in Workers : w # v => worker'[w] = worker[w]
                 /\ k \in queue.dirty \cup queue.delayed =>
                        k \in queue'.dirty \cup queue'.delayed
      <4>1. PICK pc, o : Work(v, pc, o)
        BY <3>4, <3>5
      <4>2. /\ worker'[v] = [pc |-> pc, key |-> worker[v].key, obj |-> o]
            /\ \A w \in Workers : w # v => worker'[w] = worker[w]
        BY <4>1, WorkEffect
      <4> QED BY <2>6, <3>4, <3>5, <4>2
    <3> QED BY <2>1, <2>4, <2>6, <3>2, <3>3, <3>5, OtherKeyPending
  <2> QED BY <2>5, <2>6
<1>8. CASE NoProcess
  BY <1>8 DEF NoProcess
<1> QED BY <1>1, <1>2, <1>3, <1>4, <1>5, <1>6, <1>7, <1>8
        DEF Next, vars, external, UpstreamWrite, UpstreamStatusWrite, UpstreamDelete,
            HandleTombstone, Relist, Crash, Start

-------------------------------------------------------------------------------

\* The inductive invariant behind ReadyInSync and DeletedInSync.
SyncInv ==
    /\ Typed
    /\ WorkSerialised
    /\ StoppedIsEmpty
    /\ CacheFollows
    /\ DeletionsKnown
    /\ NothingForgotten

\* With nothing on its way, the cache is the global hub, and what is due of it
\* has been applied.
LEMMA QuietApplied ==
    ASSUME SyncInv, running, NEW k \in Keys, Quiet(k), Due(k)
    PROVE  downstream[k] = upstream[k]
<1>1. cache[k] = upstream[k]
  BY DEF SyncInv, CacheFollows, Quiet
<1>2. Pending(k)
  BY DEF SyncInv, NothingForgotten
<1>3. k \notin queue.dirty /\ k \notin queue.delayed /\ k \notin queue.processing
  BY DEF Quiet, Idle
<1>4. ~Notified(k)
  <2>1. Len(notify[k]) = 0
    BY DEF Quiet
  <2> QED BY <2>1 DEF Notified
<1>5. \A w \in Workers : worker[w].key # k
  BY <1>3, SyncerAssumption DEF SyncInv, WorkSerialised
<1>6. Applied(k)
  BY <1>2, <1>3, <1>4, <1>5 DEF Pending, WillApply
<1> QED BY <1>1, <1>6 DEF Applied

\* SyncInv is an inductive invariant of the spec syncer.
LEMMA SyncInvariant == Spec => []SyncInv
<1>1. Init => SyncInv
  <2> SUFFICES ASSUME Init PROVE SyncInv
    OBVIOUS
  <2>1. Typed
    BY InitType DEF Typed, Init, WorkersKeyed, IdleWorker
  <2>2. WorkSerialised
    BY EmptyQueueType DEF Init, WorkSerialised, IdleWorker
  <2>3. DeletionsKnown
    BY DEF Init, DeletionsKnown, ReadyOnly, NoTombstones, NothingYet, DeletesAbsent,
           IdleWorker
  <2> QED BY <2>1, <2>2, <2>3
          DEF SyncInv, Init, StoppedIsEmpty, CacheFollows, NothingForgotten
<1>2. SyncInv /\ [Next]_vars => SyncInv'
  BY NextTyped, NextSerialised, NextStopped, NextFollows, NextDeletions, NextForgotten
     DEF SyncInv
<1> QED BY <1>1, <1>2, PTL DEF Spec

\* No update of a ready object is lost: whenever the spec syncer has nothing
\* left to do for it, the regional hub has the content of the global hub,
\* for any number of objects, workers, failed requests, broken watches,
\* panics and restarts.
THEOREM ReadyObjectsInSync == Spec => []ReadyInSync
<1>1. SyncInv => ReadyInSync
  <2> SUFFICES ASSUME SyncInv, running, NEW k \in Keys, Quiet(k), upstream[k].ready
               PROVE  downstream[k] = upstream[k]
    BY DEF ReadyInSync
  <2>1. cache[k] = upstream[k]
    BY DEF SyncInv, CacheFollows, Quiet
  <2> QED BY <2>1, QuietApplied DEF Due
<1> QED BY <1>1, SyncInvariant, PTL

\* No deletion is lost as long as the watch does not break and the syncer does
\* not crash, however many requests fail and however often an object is created
\* again meanwhile.  The objects must be ready: DeleteFunc skips the deletion of
\* one that lost its label.
THEOREM DeletionsInSync ==
    ASSUME ReadyLabels \subseteq {TRUE}
    PROVE  Spec => []DeletedInSync
<1>1. SyncInv => DeletedInSync
  <2> SUFFICES ASSUME SyncInv, running, NothingMissed, NEW k \in Keys, Quiet(k),
                      upstream[k] = Absent
               PROVE  downstream[k] = Absent
    BY DEF DeletedInSync
  <2> QED BY QuietApplied DEF Due
<1> QED BY <1>1, SyncInvariant, PTL
===============================================================================
