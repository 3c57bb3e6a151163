-------------------------- MODULE StatusSyncerProofs --------------------------
(***************************************************************************)
(* Proofs about StatusSyncer, for any number of policies, managed clusters *)
(* and workers and any bound on writes, faults, broken watches and crashes.*)
(***************************************************************************)
EXTENDS StatusSyncer, SequenceTheorems, TLAPS

\* The last element of a sequence after an append.
LEMMA AppendLast ==
    ASSUME NEW S, NEW s \in Seq(S), NEW e \in S
    PROVE  /\ Append(s, e) # <<>>
           /\ Append(s, e)[Len(Append(s, e))] = e
BY AppendProperties

\* The last element of a sequence stays when its head is taken.
LEMMA TailLast ==
    ASSUME NEW S, NEW s \in Seq(S), s # <<>>
    PROVE  /\ Tail(s) = <<>> => Head(s) = s[Len(s)]
           /\ Tail(s) # <<>> => Tail(s)[Len(Tail(s))] = s[Len(s)]
<1> DEFINE t == Tail(s)
<1>1. /\ t \in Seq(S)
      /\ Len(t) = Len(s) - 1
      /\ \A i \in 1..Len(t) : t[i] = s[i + 1]
  BY HeadTailProperties
<1>2. Len(s) \in Nat /\ Len(s) # 0
  BY EmptySeq, LenProperties
<1> HIDE DEF t
<1>3. ASSUME t = <<>>
      PROVE  Head(s) = s[Len(s)]
  <2>1. Len(s) = 1
    BY <1>1, <1>2, <1>3
  <2> QED BY <2>1
<1>4. ASSUME t # <<>>
      PROVE  t[Len(t)] = s[Len(s)]
  <2>1. Len(t) \in 1..Len(t)
    BY <1>1, <1>2, <1>4, EmptySeq
  <2> QED BY <1>1, <1>2, <2>1
<1> QED BY <1>3, <1>4 DEF t

\* What an append does to the elements of a sequence.
LEMMA AppendElements ==
    ASSUME NEW S, NEW s \in Seq(S), NEW e \in S
    PROVE  /\ Len(s) \in Nat
           /\ Len(Append(s, e)) = Len(s) + 1
           /\ \A i \in 1..Len(s) : Append(s, e)[i] = s[i]
           /\ Append(s, e)[Len(s) + 1] = e
BY AppendProperties, LenProperties

\* The elements of a sequence without its head.
LEMMA TailElements ==
    ASSUME NEW S, NEW s \in Seq(S), s # <<>>
    PROVE  /\ Tail(s) \in Seq(S)
           /\ Len(s) \in Nat \ {0}
           /\ Len(Tail(s)) = Len(s) - 1
           /\ \A i \in 1..Len(s) - 1 : Tail(s)[i] = s[i + 1]
           /\ Head(s) = s[1]
<1>1. Len(s) \in Nat /\ Len(s) # 0
  BY EmptySeq, LenProperties
<1> QED BY <1>1, HeadTailProperties

\* What the operations of the queue do to its three sets.
LEMMA QueueOperations ==
    ASSUME NEW q \in Queues(Keys), NEW k \in Keys
    PROVE  /\ Add(q, k) \in Queues(Keys)
           /\ Add(q, k).dirty = q.dirty \cup {k}
           /\ Add(q, k).processing = q.processing
           /\ Add(q, k).delayed = q.delayed
           /\ Get(q, k) \in Queues(Keys)
           /\ Get(q, k).dirty = q.dirty \ {k}
           /\ Get(q, k).processing = q.processing \cup {k}
           /\ Get(q, k).delayed = q.delayed
           /\ Done(q, k) \in Queues(Keys)
           /\ Done(q, k).dirty = q.dirty
           /\ Done(q, k).processing = q.processing \ {k}
           /\ Done(q, k).delayed = q.delayed
           /\ AddRateLimited(q, k) \in Queues(Keys)
           /\ AddRateLimited(q, k).dirty = q.dirty
           /\ AddRateLimited(q, k).processing = q.processing
           /\ AddRateLimited(q, k).delayed = q.delayed \cup {k}
           /\ BackoffOver(q, k) \in Queues(Keys)
           /\ BackoffOver(q, k).dirty = q.dirty \cup {k}
           /\ BackoffOver(q, k).processing = q.processing
           /\ BackoffOver(q, k).delayed = q.delayed \ {k}
BY DEF Queues, Queue, Add, Get, Done, AddRateLimited, BackoffOver

\* The empty queue is a queue with nothing in it.
LEMMA EmptyQueueType ==
    /\ EmptyQueue \in Queues(Keys)
    /\ EmptyQueue.dirty = {}
    /\ EmptyQueue.processing = {}
    /\ EmptyQueue.delayed = {}
BY DEF Queues, Queue, EmptyQueue

\* The absent object is an object.
LEMMA AbsentType == Absent \in Objects
BY DEF Absent, Objects, AllAvailabilities

\* What the informer makes of an event are objects and notifications.
LEMMA InformerTypes ==
    ASSUME NEW e \in I!Events(Objects), NEW o \in Objects
    PROVE  /\ I!CacheAfter(e) \in Objects
           /\ I!NotificationOf(e, o) \in I!Notifications(Objects)
<1>1. e.obj \in Objects /\ e.type \in I!EventTypes
  BY DEF I!Events
<1>2. I!CacheAfter(e) \in Objects
  BY <1>1, AbsentType DEF I!CacheAfter
<1>3. I!NotificationOf(e, o) \in I!Notifications(Objects)
  BY <1>1, AbsentType DEF I!NotificationOf, I!Notifications, I!NotificationTypes, I!EventTypes
<1> QED BY <1>2, <1>3

\* A list makes sequences of events.
LEMMA ListTypes ==
    ASSUME NEW o \in Objects, NEW c \in Objects
    PROVE  /\ I!FirstList(o) \in Seq(I!Events(Objects))
           /\ I!ReList(o, c) \in Seq(I!Events(Objects))
<1>1. \A e \in I!Events(Objects) : <<e>> \in Seq(I!Events(Objects))
  OBVIOUS
<1>2. <<>> \in Seq(I!Events(Objects))
  OBVIOUS
<1>3. \A x \in Objects, t \in I!EventTypes : [type |-> t, obj |-> x] \in I!Events(Objects)
  BY DEF I!Events
<1>4. {"initial", "replaced", "gone"} \subseteq I!EventTypes
  BY DEF I!EventTypes
<1>5. I!FirstList(o) \in Seq(I!Events(Objects))
  BY <1>1, <1>2, <1>3, <1>4 DEF I!FirstList
<1>6. I!ReList(o, c) \in Seq(I!Events(Objects))
  BY <1>1, <1>2, <1>3, <1>4 DEF I!ReList
<1> QED BY <1>5, <1>6

-------------------------------------------------------------------------------
(* Type correctness.                                                       *)

\* What a worker may be.
WorkerTypes == [pc : Phases, key : Keys \cup {NoKey}, obj : Objects,
                hcp : ControlPlanes, rv : Nat]

\* A worker has a key exactly while it processes an item.
WorkersKeyed ==
    \A w \in Workers : worker[w].pc = "idle" <=> worker[w].key = NoKey

Typed == TypeOK /\ WorkersKeyed

\* An idle worker is a worker.
LEMMA IdleWorkerType == IdleWorker \in WorkerTypes
<1>1. EmptyControlPlane \in ControlPlanes
  BY DEF EmptyControlPlane, ControlPlanes
<1> QED BY <1>1, AbsentType DEF IdleWorker, WorkerTypes, Phases

\* A process that went down has well-typed, empty state.
LEMMA NoProcessType ==
    ASSUME NoProcess
    PROVE  /\ running' \in BOOLEAN
           /\ stream' \in [Keys -> Seq(I!Events(Objects))]
           /\ cache' \in [Keys -> Objects]
           /\ notify' \in [Keys -> Seq(I!Notifications(Objects))]
           /\ queue' \in Queues(Keys)
           /\ worker' \in [Workers -> WorkerTypes]
           /\ WorkersKeyed'
           /\ dropped' \subseteq Keys
           /\ contested' \in BOOLEAN
<1>1. <<>> \in Seq(I!Events(Objects)) /\ <<>> \in Seq(I!Notifications(Objects))
  OBVIOUS
<1>2. worker' \in [Workers -> WorkerTypes]
  BY IdleWorkerType DEF NoProcess
<1>3. WorkersKeyed'
  BY DEF NoProcess, WorkersKeyed, IdleWorker
<1> QED BY <1>1, <1>2, <1>3, AbsentType, EmptyQueueType DEF NoProcess

\* An event added by the watch keeps the streams well typed.
LEMMA WatchType ==
    ASSUME TypeOK, NEW k \in Keys, NEW t \in I!EventTypes, NEW o \in Objects,
           Watch(k, t, o)
    PROVE  stream' \in [Keys -> Seq(I!Events(Objects))]
<1>1. [type |-> t, obj |-> o] \in I!Events(Objects)
  BY DEF I!Events
<1>2. Append(stream[k], [type |-> t, obj |-> o]) \in Seq(I!Events(Objects))
  BY <1>1 DEF TypeOK
<1> QED BY <1>2 DEF Watch, TypeOK

\* The states before the first start are well typed.
LEMMA InitType == Init => Typed
<1>1. <<>> \in Seq(I!Events(Objects)) /\ <<>> \in Seq(I!Notifications(Objects))
  OBVIOUS
<1> SUFFICES ASSUME Init PROVE Typed
  OBVIOUS
<1>3. /\ stream \in [Keys -> Seq(I!Events(Objects))]
      /\ notify \in [Keys -> Seq(I!Notifications(Objects))]
  BY <1>1 DEF Init
<1>4. /\ source \in [Keys -> Objects]
      /\ cache \in [Keys -> Objects]
  BY AbsentType DEF Init
<1>5. worker \in [Workers -> WorkerTypes]
  BY IdleWorkerType DEF Init
<1>6. /\ running \in BOOLEAN
      /\ queue \in Queues(Keys)
      /\ hcp \in ControlPlanes
  BY EmptyQueueType DEF Init, EmptyControlPlane, ControlPlanes
<1>7. target \in [Copied -> Copies]
  <2>1. NoCopy \in Copies
    BY DEF NoCopy, Copies
  <2> QED BY <2>1 DEF Init
<1>8. /\ writes \in 0..MaxWrites
      /\ touches \in 0..MaxTouches
      /\ faults \in 0..MaxFaults
      /\ relists \in 0..MaxRelists
      /\ crashes \in 0..MaxCrashes
  BY StatusAssumption DEF Init
<1>9. WorkersKeyed
  BY DEF Init, WorkersKeyed, IdleWorker
<1>10. dropped \subseteq Keys /\ contested \in BOOLEAN
  BY DEF Init
<1> QED BY <1>3, <1>4, <1>5, <1>6, <1>7, <1>8, <1>9, <1>10 DEF TypeOK, Typed, WorkerTypes

\* The key of a worker that has an item is a key.
LEMMA BusyWorker ==
    ASSUME Typed, NEW w \in Workers, worker[w].pc # "idle"
    PROVE  /\ worker[w].key \in Keys
           /\ worker[w].key # NoKey
           /\ worker[w].obj \in Objects
BY KeysAssumption DEF Typed, TypeOK, WorkersKeyed

\* A worker that goes on with an item keeps the workers well typed and keyed.
LEMMA WorkType ==
    ASSUME Typed, NEW v \in Workers, NEW r \in WorkerTypes, worker[v].pc # "idle",
           r.pc # "idle", r.key = worker[v].key, worker' = [worker EXCEPT ![v] = r]
    PROVE  /\ worker' \in [Workers -> WorkerTypes]
           /\ WorkersKeyed'
           /\ worker'[v] = r
           /\ \A w \in Workers : w # v => worker'[w] = worker[w]
<1>1. worker \in [Workers -> WorkerTypes]
  BY DEF Typed, TypeOK, WorkerTypes
<1>2. r.key # NoKey
  BY BusyWorker
<1>3. /\ worker' \in [Workers -> WorkerTypes]
      /\ worker'[v] = r
      /\ \A w \in Workers : w # v => worker'[w] = worker[w]
  BY <1>1
<1> QED BY <1>2, <1>3 DEF WorkersKeyed, Typed

\* A step of a worker that does not end its item.
CarriesOn(v) ==
    \/ WorkerStep(v) /\ ~FinishItem(v)
    \/ \E done \in BOOLEAN : RequestFails(v, done)

\* What the HubControlPlane lists are managed clusters and addons.
LEMMA HubControlPlaneType == HubControlPlane \in ControlPlanes
BY DEF HubControlPlane, Listed, ControlPlanes

\* A worker that carries on changes nothing but what it does itself, and keeps
\* its key.
LEMMA CarryOn ==
    ASSUME Typed, NEW v \in Workers, CarriesOn(v)
    PROVE  /\ UNCHANGED <<source, informer, queue>>
           /\ worker[v].pc # "idle"
           /\ worker' \in [Workers -> WorkerTypes]
           /\ WorkersKeyed'
           /\ worker'[v].key = worker[v].key
           /\ worker'[v].pc # "idle"
           /\ \A w \in Workers : w # v => worker'[w] = worker[w]
<1>1. UNCHANGED <<source, informer, queue>> /\ worker[v].pc # "idle"
  BY StatusAssumption DEF CarriesOn, WorkerStep, Process, ComputeHubControlPlane, ApplyHubControlPlane,
     ApplyHubControlPlaneStatus, GetCopy, UpdateStatus, ApplyMain, ApplyStatus,
     RequestFails, external, Requests
<1>2. /\ worker[v] \in WorkerTypes
      /\ worker[v] = [pc |-> worker[v].pc, key |-> worker[v].key, obj |-> worker[v].obj,
                      hcp |-> worker[v].hcp, rv |-> worker[v].rv]
  BY DEF Typed, TypeOK, WorkerTypes
<1> DEFINE Next1 == \E r \in WorkerTypes :
                       /\ r.pc # "idle" /\ r.key = worker[v].key
                       /\ worker' = [worker EXCEPT ![v] = r]
<1>g. ASSUME NEW x \in WorkerTypes, x.pc # "idle", x.key = worker[v].key,
             worker' = [worker EXCEPT ![v] = x]
      PROVE  Next1
  BY <1>g
<1> HIDE DEF Next1
<1>3. ASSUME NEW pc \in Phases \ {"idle"}, Move(v, pc) PROVE Next1
  <2> DEFINE r == [worker[v] EXCEPT !.pc = pc]
  <2>1. r \in WorkerTypes /\ r.pc # "idle" /\ r.key = worker[v].key
    BY <1>2 DEF WorkerTypes
  <2>2. worker' = [worker EXCEPT ![v] = r]
    BY <1>3 DEF Move
  <2> HIDE DEF r
  <2> QED BY <1>g, <2>1, <2>2
<1>4. ASSUME Process(v) PROVE Next1
  <2> DEFINE k == worker[v].key
             pc == IF cache[k] = Absent THEN "failed"
                   ELSE IF k \in Policies THEN "get" ELSE "hcp"
             r == [worker[v] EXCEPT !.obj = cache[k], !.pc = pc]
  <2>1. cache[k] \in Objects
    BY <1>1, BusyWorker DEF Typed, TypeOK
  <2>2. r \in WorkerTypes /\ r.pc = pc /\ r.key = k
    BY <1>2, <2>1 DEF WorkerTypes, Phases, Requests
  <2>3. worker' = [worker EXCEPT ![v] = r]
    BY <1>4 DEF Process
  <2>4. pc # "idle"
    OBVIOUS
  <2> HIDE DEF r, pc
  <2> QED BY <1>g, <2>2, <2>3, <2>4
<1>5. ASSUME ComputeHubControlPlane(v) PROVE Next1
  <2>1. CASE PodNamespace
    <3> DEFINE r == [worker[v] EXCEPT !.pc = "hcpMain", !.hcp = HubControlPlane]
    <3>1. r \in WorkerTypes /\ r.pc = "hcpMain" /\ r.key = worker[v].key
      BY <1>2, HubControlPlaneType DEF WorkerTypes, Phases, Requests
    <3>2. worker' = [worker EXCEPT ![v] = r]
      BY <1>5, <2>1 DEF ComputeHubControlPlane
    <3> HIDE DEF r
    <3> QED BY <1>g, <3>1, <3>2
  <2>2. CASE ~PodNamespace
    <3>1. \E pc \in {"get", "failed"} : Move(v, pc)
      BY <1>5, <2>2 DEF ComputeHubControlPlane, Move
    <3> QED BY <1>3, <3>1 DEF Phases, Requests
  <2> QED BY <2>1, <2>2
<1>6. ASSUME GetCopy(v) PROVE Next1
  <2> DEFINE k == worker[v].key
  <2>1. CASE k \in Policies /\ target[k].exists
    <3> DEFINE r == [worker[v] EXCEPT !.pc = "update", !.rv = target[k].rv]
    <3>0. target[k].rv \in Nat
      BY <2>1 DEF Typed, TypeOK, Copied, Copies
    <3>1. r \in WorkerTypes /\ r.pc = "update" /\ r.key = worker[v].key
      BY <1>2, <3>0 DEF WorkerTypes, Phases, Requests
    <3>2. worker' = [worker EXCEPT ![v] = r]
      BY <1>6, <2>1 DEF GetCopy
    <3> HIDE DEF r
    <3> QED BY <1>g, <3>1, <3>2
  <2>2. CASE ~(k \in Policies /\ target[k].exists)
    <3>1. Move(v, "applyMain")
      BY <1>6, <2>2 DEF GetCopy, Move
    <3> QED BY <1>3, <3>1 DEF Phases, Requests
  <2> QED BY <2>1, <2>2
<1>7. ASSUME \/ ApplyHubControlPlane(v)
             \/ ApplyHubControlPlaneStatus(v)
             \/ UpdateStatus(v)
             \/ ApplyMain(v)
             \/ ApplyStatus(v)
             \/ \E done \in BOOLEAN : RequestFails(v, done)
      PROVE  Next1
  <2>1. \E pc \in {"hcpStatus", "get", "done", "failed", "applyStatus"} : Move(v, pc)
    BY <1>7 DEF ApplyHubControlPlane, ApplyHubControlPlaneStatus, UpdateStatus,
       ApplyMain, ApplyStatus, RequestFails, AfterHubControlPlane
  <2> QED BY <1>3, <2>1 DEF Phases, Requests
<1>8. Next1
  BY <1>4, <1>5, <1>6, <1>7 DEF CarriesOn, WorkerStep
<1>9. PICK r \in WorkerTypes : /\ r.pc # "idle" /\ r.key = worker[v].key
                              /\ worker' = [worker EXCEPT ![v] = r]
  BY <1>8 DEF Next1
<1> QED BY <1>1, <1>9, WorkType

\* What the requests make of a copy is a copy.
LEMMA CopyTypes ==
    ASSUME NEW c \in Copies, NEW g \in Nat
    PROVE  /\ [c EXCEPT !.rv = c.rv + 1] \in Copies
           /\ [c EXCEPT !.rv = c.rv + 1].gen = c.gen
           /\ [c EXCEPT !.gen = g, !.rv = c.rv + 1] \in Copies
           /\ [c EXCEPT !.gen = g, !.rv = c.rv + 1].gen = g
           /\ [c EXCEPT !.exists = TRUE, !.rv = c.rv + 1] \in Copies
           /\ [c EXCEPT !.exists = TRUE, !.rv = c.rv + 1].gen = c.gen
<1>1. c.rv + 1 \in Nat
  BY DEF Copies
<1> DEFINE n == c.rv + 1
<1> HIDE DEF n
<1>2. n \in Nat
  BY <1>1 DEF n
<1>3. /\ [c EXCEPT !.rv = n] \in Copies
      /\ [c EXCEPT !.rv = n].gen = c.gen
      /\ [c EXCEPT !.gen = g, !.rv = n] \in Copies
      /\ [c EXCEPT !.gen = g, !.rv = n].gen = g
      /\ [c EXCEPT !.exists = TRUE, !.rv = n] \in Copies
      /\ [c EXCEPT !.exists = TRUE, !.rv = n].gen = c.gen
  BY <1>2 DEF Copies
<1> QED BY <1>3 DEF n

\* A worker that carries on writes at most the copy of its own object.
LEMMA CarryOnCopies ==
    ASSUME Typed, NEW v \in Workers, CarriesOn(v)
    PROVE  /\ target' \in [Copied -> Copies]
           /\ \A k \in Copied : k # worker[v].key => target'[k] = target[k]
           /\ hcp' \in ControlPlanes
           /\ faults' \in 0..MaxFaults
           /\ UNCHANGED <<writes, touches, relists, crashes>>
<1>t. /\ target \in [Copied -> Copies] /\ hcp \in ControlPlanes
      /\ worker[v] \in WorkerTypes
      /\ faults \in 0..MaxFaults /\ MaxFaults \in Nat
  BY StatusAssumption DEF Typed, TypeOK, WorkerTypes
<1>1. ASSUME WriteCopy(v), worker[v].pc \in {"update", "applyMain", "applyStatus"}
      PROVE  /\ target' \in [Copied -> Copies]
             /\ \A k \in Copied : k # worker[v].key => target'[k] = target[k]
  <2> DEFINE k == worker[v].key
  <2>1. ASSUME k \in Copied PROVE CopyAfter(v) \in Copies
    <3>1. target[k] \in Copies /\ worker[v].obj.gen \in Nat
      BY <1>t, <2>1 DEF WorkerTypes, Objects
    <3>2. /\ [target[k] EXCEPT !.gen = worker[v].obj.gen, !.rv = @ + 1] \in Copies
          /\ [target[k] EXCEPT !.exists = TRUE, !.rv = @ + 1] \in Copies
      BY <3>1, CopyTypes
    <3>3. CASE worker[v].pc = "update"
      BY <3>1, <3>2, <3>3 DEF CopyAfter
    <3>4. CASE worker[v].pc = "applyMain"
      BY <3>2, <3>4 DEF CopyAfter
    <3>5. CASE worker[v].pc = "applyStatus"
      BY <3>2, <3>5 DEF CopyAfter
    <3> QED BY <1>1, <3>3, <3>4, <3>5
  <2>2. target' = [target EXCEPT ![k] = CopyAfter(v)]
    BY <1>1 DEF WriteCopy
  <2> QED BY <1>t, <2>1, <2>2
<1>2. ASSUME target' = target
      PROVE  /\ target' \in [Copied -> Copies]
             /\ \A k \in Copied : k # worker[v].key => target'[k] = target[k]
  BY <1>t, <1>2
<1>3. \/ target' = target
      \/ WriteCopy(v) /\ worker[v].pc \in {"update", "applyMain", "applyStatus"}
  BY DEF CarriesOn, WorkerStep, Process, ComputeHubControlPlane, ApplyHubControlPlane,
         ApplyHubControlPlaneStatus, GetCopy, UpdateStatus, ApplyMain, ApplyStatus,
         RequestFails, external
<1>4. hcp' = hcp \/ hcp' = worker[v].hcp
  BY DEF CarriesOn, WorkerStep, Process, ComputeHubControlPlane, ApplyHubControlPlane,
         ApplyHubControlPlaneStatus, GetCopy, UpdateStatus, ApplyMain, ApplyStatus,
         RequestFails, external
<1>5. hcp' \in ControlPlanes
  BY <1>t, <1>4 DEF WorkerTypes
<1>6. /\ UNCHANGED <<writes, touches, relists, crashes>>
      /\ faults' = faults \/ (faults < MaxFaults /\ faults' = faults + 1)
  BY DEF CarriesOn, WorkerStep, Process, ComputeHubControlPlane, ApplyHubControlPlane,
         ApplyHubControlPlaneStatus, GetCopy, UpdateStatus, ApplyMain, ApplyStatus,
         RequestFails, counters
<1> QED BY <1>t, <1>1, <1>2, <1>3, <1>5, <1>6

\* What taking an item does to the queue and the workers.
LEMMA GetEffect ==
    ASSUME Typed, NEW v \in Workers, NEW k \in Keys, GetItem(v, k)
    PROVE  /\ queue' \in Queues(Keys)
           /\ queue'.dirty = queue.dirty \ {k}
           /\ queue'.processing = queue.processing \cup {k}
           /\ queue'.delayed = queue.delayed
           /\ k \notin queue.processing
           /\ worker[v].key = NoKey
           /\ worker' \in [Workers -> WorkerTypes]
           /\ worker'[v].pc = "process" /\ worker'[v].key = k
           /\ \A w \in Workers : w # v => worker'[w] = worker[w]
           /\ WorkersKeyed'
<1>1. queue \in Queues(Keys) /\ worker \in [Workers -> WorkerTypes] /\ k # NoKey
  BY KeysAssumption DEF Typed, TypeOK, WorkerTypes
<1>2. /\ queue' = Get(queue, k)
      /\ worker' = [worker EXCEPT ![v].pc = "process", ![v].key = k]
      /\ worker[v].pc = "idle"
      /\ k \notin queue.processing
  BY DEF GetItem, CanGet
<1>3. /\ queue' \in Queues(Keys)
      /\ queue'.dirty = queue.dirty \ {k}
      /\ queue'.processing = queue.processing \cup {k}
      /\ queue'.delayed = queue.delayed
  BY <1>1, <1>2, QueueOperations
<1> DEFINE r == [worker[v] EXCEPT !.pc = "process", !.key = k]
<1>4. r \in WorkerTypes /\ r.pc = "process" /\ r.key = k
  BY <1>1 DEF WorkerTypes, Phases
<1>5. worker' = [worker EXCEPT ![v] = r]
  BY <1>2
<1> HIDE DEF r
<1>6. /\ worker' \in [Workers -> WorkerTypes]
      /\ worker'[v] = r
      /\ \A w \in Workers : w # v => worker'[w] = worker[w]
  BY <1>1, <1>4, <1>5
<1>7. worker[v].key = NoKey /\ WorkersKeyed'
  BY <1>1, <1>2, <1>4, <1>6 DEF Typed, WorkersKeyed
<1> QED BY <1>2, <1>3, <1>4, <1>6, <1>7

\* What the end of an item does to the queue and the workers.
LEMMA FinishEffect ==
    ASSUME Typed, NEW v \in Workers, FinishItem(v)
    PROVE  /\ worker[v].key \in Keys
           /\ queue' \in Queues(Keys)
           /\ queue'.dirty = queue.dirty
           /\ queue'.processing = queue.processing \ {worker[v].key}
           /\ queue'.delayed = IF worker[v].pc = "failed"
                               THEN queue.delayed \cup {worker[v].key}
                               ELSE queue.delayed
           /\ worker' \in [Workers -> WorkerTypes]
           /\ worker'[v].key = NoKey
           /\ \A w \in Workers : w # v => worker'[w] = worker[w]
           /\ WorkersKeyed'
<1> DEFINE k == worker[v].key
           r == AddRateLimited(queue, k)
<1>1. k \in Keys /\ queue \in Queues(Keys) /\ worker \in [Workers -> WorkerTypes]
  BY BusyWorker DEF FinishItem, Typed, TypeOK, WorkerTypes
<1>2. /\ r \in Queues(Keys)
      /\ r.dirty = queue.dirty
      /\ r.processing = queue.processing
      /\ r.delayed = queue.delayed \cup {k}
  BY <1>1, QueueOperations
<1>3. /\ Done(r, k) \in Queues(Keys)
      /\ Done(r, k).dirty = r.dirty
      /\ Done(r, k).processing = r.processing \ {k}
      /\ Done(r, k).delayed = r.delayed
  BY <1>1, <1>2, QueueOperations
<1>4. /\ Done(queue, k) \in Queues(Keys)
      /\ Done(queue, k).dirty = queue.dirty
      /\ Done(queue, k).processing = queue.processing \ {k}
      /\ Done(queue, k).delayed = queue.delayed
  BY <1>1, QueueOperations
<1>5. queue' = IF worker[v].pc = "failed" THEN Done(r, k) ELSE Done(queue, k)
  BY DEF FinishItem
<1>6. /\ worker' \in [Workers -> WorkerTypes]
      /\ worker'[v] = IdleWorker
      /\ \A w \in Workers : w # v => worker'[w] = worker[w]
  BY <1>1, IdleWorkerType DEF FinishItem
<1>7. worker'[v].key = NoKey /\ WorkersKeyed'
  BY <1>6 DEF Typed, WorkersKeyed, IdleWorker
<1> QED BY <1>1, <1>2, <1>3, <1>4, <1>5, <1>6, <1>7

\* What the handlers do to the queue.
LEMMA HandleQueue ==
    ASSUME Typed, NEW k \in Keys, Handle(k)
    PROVE  /\ queue' \in Queues(Keys)
           /\ queue'.processing = queue.processing
           /\ queue'.delayed = queue.delayed
           /\ queue.dirty \subseteq queue'.dirty
           /\ ShouldEnqueue(k, Head(notify[k])) => k \in queue'.dirty
<1>1. queue \in Queues(Keys)
  BY DEF Typed, TypeOK
<1>2. CASE ShouldEnqueue(k, Head(notify[k]))
  <2>1. queue' = Add(queue, k)
    BY <1>2 DEF Handle
  <2>2. /\ queue' \in Queues(Keys)
        /\ queue'.dirty = queue.dirty \cup {k}
        /\ queue'.processing = queue.processing
        /\ queue'.delayed = queue.delayed
    BY <1>1, <2>1, QueueOperations
  <2> QED BY <2>2
<1>3. CASE ~ShouldEnqueue(k, Head(notify[k]))
  <2>1. queue' = queue
    BY <1>3 DEF Handle
  <2> QED BY <1>1, <1>3, <2>1
<1> QED BY <1>2, <1>3

\* What the history keeps of a worker that carries on.
LEMMA CarryOnHistory ==
    ASSUME Typed, NEW v \in Workers, CarriesOn(v)
    PROVE  /\ dropped' \subseteq Keys
           /\ contested' \in BOOLEAN
           /\ \A k \in dropped : k # worker[v].key => k \in dropped'
<1>1. worker[v].key \in Keys
  BY CarryOn, BusyWorker
<1>2. dropped \subseteq Keys /\ contested \in BOOLEAN
  BY DEF Typed, TypeOK
<1>3. CASE Process(v)
  BY <1>2, <1>3 DEF Process
<1>4. CASE ComputeHubControlPlane(v)
  <2>1. dropped' = dropped /\ contested' = (\E u \in Workers : Applying(u))
    BY <1>4 DEF ComputeHubControlPlane
  <2>2. (\E u \in Workers : Applying(u)) \in BOOLEAN
    OBVIOUS
  <2> QED BY <1>2, <2>1, <2>2
<1>5. ASSUME NEW done \in BOOLEAN, RequestFails(v, done)
      PROVE  /\ dropped' \in {dropped, dropped \cup {worker[v].key}}
             /\ contested' \in BOOLEAN
  <2>1. dropped' \in {dropped, dropped \cup {worker[v].key}}
    BY <1>5 DEF RequestFails
  <2>2. contested' = (contested \/ Applying(v))
    BY <1>5 DEF RequestFails
  <2> QED BY <2>1, <2>2
<1>6. CASE UNCHANGED history
  BY <1>2, <1>6 DEF history
<1> QED BY <1>1, <1>2, <1>3, <1>4, <1>5, <1>6
        DEF CarriesOn, WorkerStep, ApplyHubControlPlane, ApplyHubControlPlaneStatus, GetCopy,
            UpdateStatus, ApplyMain, ApplyStatus

\* Every step keeps the state well typed and the workers keyed.
LEMMA NextTyped == Typed /\ [Next]_vars => Typed'
<1> SUFFICES ASSUME Typed, [Next]_vars PROVE Typed'
  OBVIOUS
<1> USE StatusAssumption
<1>a. TypeOK /\ WorkersKeyed
  BY DEF Typed
<1>b. worker' = worker => WorkersKeyed'
  BY <1>a DEF WorkersKeyed
<1>h. UNCHANGED history => dropped' \subseteq Keys /\ contested' \in BOOLEAN
  BY <1>a DEF history, TypeOK
<1>1. ASSUME NEW k \in Keys, NEW avail \in Availabilities, SourceWrite(k, avail)
      PROVE  Typed'
  <2> DEFINE o == [gen |-> writes + 1, avail |-> avail]
  <2>1. o \in Objects
    BY <1>a DEF TypeOK, Objects
  <2>2. "modified" \in I!EventTypes
    BY DEF I!EventTypes
  <2>3. Watch(k, "modified", o) /\ source' = [source EXCEPT ![k] = o]
    BY <1>1 DEF SourceWrite
  <2> HIDE DEF o
  <2>4. stream' \in [Keys -> Seq(I!Events(Objects))]
    BY <1>a, <2>1, <2>2, <2>3, WatchType
  <2>5. source' \in [Keys -> Objects]
    BY <1>a, <2>1, <2>3 DEF TypeOK
  <2>6. writes' \in 0..MaxWrites
    BY <1>1, <1>a DEF SourceWrite, TypeOK
  <2> QED BY <1>1, <1>a, <1>h, <1>b, <2>4, <2>5, <2>6 DEF SourceWrite, TypeOK, Typed
<1>2. ASSUME NEW k \in Keys, SourceSpecWrite(k)
      PROVE  Typed'
  <2>1. source[k] \in Objects /\ "modified" \in I!EventTypes
    BY <1>a DEF TypeOK, I!EventTypes
  <2>2. stream' \in [Keys -> Seq(I!Events(Objects))]
    BY <1>2, <1>a, <2>1, WatchType DEF SourceSpecWrite
  <2>3. writes' \in 0..MaxWrites
    BY <1>2, <1>a DEF SourceSpecWrite, TypeOK
  <2> QED BY <1>2, <1>a, <1>h, <1>b, <2>2, <2>3 DEF SourceSpecWrite, TypeOK, Typed, external
<1>3. ASSUME NEW k \in Keys, SourceDelete(k)
      PROVE  Typed'
  <2>1. source[k] \in Objects /\ "deleted" \in I!EventTypes
    BY <1>a DEF TypeOK, I!EventTypes
  <2>2. stream' \in [Keys -> Seq(I!Events(Objects))]
    BY <1>3, <1>a, <2>1, WatchType DEF SourceDelete
  <2>3. source' \in [Keys -> Objects]
    BY <1>3, <1>a, AbsentType DEF SourceDelete, TypeOK
  <2> QED BY <1>3, <1>a, <1>h, <1>b, <2>2, <2>3 DEF SourceDelete, TypeOK, Typed, counters
<1>4. ASSUME NEW k \in Copied, TargetTouch(k)
      PROVE  Typed'
  <2>1. [target[k] EXCEPT !.rv = target[k].rv + 1] \in Copies
    BY <1>a, CopyTypes DEF TypeOK
  <2>2. target' = [target EXCEPT ![k] = [target[k] EXCEPT !.rv = target[k].rv + 1]]
    BY <1>4 DEF TargetTouch
  <2>3. target' \in [Copied -> Copies]
    BY <1>a, <2>1, <2>2 DEF TypeOK
  <2>4. touches' \in 0..MaxTouches
    BY <1>4, <1>a DEF TargetTouch, TypeOK
  <2> QED BY <1>4, <1>a, <1>h, <1>b, <2>3, <2>4 DEF TargetTouch, TypeOK, Typed, informer
<1>5. ASSUME NEW k \in Keys, InformerStep(k)
      PROVE  Typed'
  <2> DEFINE e == Head(stream[k])
  <2>1. e \in I!Events(Objects) /\ Tail(stream[k]) \in Seq(I!Events(Objects))
    BY <1>5, <1>a DEF InformerStep, TypeOK
  <2>2. /\ I!CacheAfter(e) \in Objects
        /\ I!NotificationOf(e, cache[k]) \in I!Notifications(Objects)
    <3>1. cache[k] \in Objects
      BY <1>a DEF TypeOK
    <3> QED BY <2>1, <3>1, InformerTypes
  <2>3. Append(notify[k], I!NotificationOf(e, cache[k])) \in Seq(I!Notifications(Objects))
    BY <1>a, <2>2 DEF TypeOK
  <2> QED BY <1>5, <1>a, <1>h, <1>b, <2>1, <2>2, <2>3
          DEF InformerStep, TypeOK, Typed, external, counters
<1>6. ASSUME NEW k \in Keys, Handle(k)
      PROVE  Typed'
  <2>1. Tail(notify[k]) \in Seq(I!Notifications(Objects))
    BY <1>6, <1>a DEF Handle, TypeOK
  <2>2. queue' \in Queues(Keys)
    BY <1>6, HandleQueue
  <2> QED BY <1>6, <1>a, <1>h, <1>b, <2>1, <2>2 DEF Handle, TypeOK, Typed, external, counters
<1>7. ASSUME NEW k \in Keys, HandleTombstone(k)
      PROVE  Typed'
  BY <1>7, <1>a, NoProcessType
     DEF HandleTombstone, TypeOK, Typed, WorkerTypes, external, counters
<1>8. ASSUME NEW k \in Keys, Backoff(k)
      PROVE  Typed'
  BY <1>8, <1>a, <1>h, <1>b, QueueOperations
     DEF Backoff, TypeOK, Typed, external, informer, counters
<1>9. ASSUME NEW k \in Keys, NEW w \in Workers, GetItem(w, k)
      PROVE  Typed'
  <2>1. queue' \in Queues(Keys) /\ worker' \in [Workers -> WorkerTypes] /\ WorkersKeyed'
    BY <1>9, GetEffect
  <2> QED BY <1>9, <1>a, <1>h, <2>1
          DEF GetItem, TypeOK, Typed, WorkerTypes, external, informer, counters
<1>10. ASSUME NEW w \in Workers, CarriesOn(w)
      PROVE  Typed'
  <2>1. /\ UNCHANGED <<source, informer, queue>>
        /\ worker' \in [Workers -> WorkerTypes]
        /\ WorkersKeyed'
    BY <1>10, CarryOn
  <2>2. /\ target' \in [Copied -> Copies]
        /\ hcp' \in ControlPlanes
        /\ faults' \in 0..MaxFaults
        /\ UNCHANGED <<writes, touches, relists, crashes>>
    BY <1>10, CarryOnCopies
  <2>3. dropped' \subseteq Keys /\ contested' \in BOOLEAN
    BY <1>10, CarryOnHistory
  <2> QED BY <1>a, <2>1, <2>2, <2>3 DEF TypeOK, Typed, WorkerTypes, informer
<1>11. ASSUME NEW w \in Workers, FinishItem(w)
      PROVE  Typed'
  <2>1. queue' \in Queues(Keys) /\ worker' \in [Workers -> WorkerTypes] /\ WorkersKeyed'
    BY <1>11, FinishEffect
  <2> QED BY <1>11, <1>a, <1>h, <2>1
          DEF FinishItem, TypeOK, Typed, WorkerTypes, external, informer, counters
<1>12. CASE Relist
  <2>1. stream' \in [Keys -> Seq(I!Events(Objects))]
    BY <1>12, <1>a, ListTypes DEF Relist, TypeOK
  <2>2. relists' \in 0..MaxRelists
    BY <1>12, <1>a DEF Relist, TypeOK
  <2> QED BY <1>12, <1>a, <1>h, <1>b, <2>1, <2>2 DEF Relist, TypeOK, Typed, external
<1>13. CASE Crash
  <2>1. crashes' \in 0..MaxCrashes
    BY <1>13, <1>a DEF Crash, TypeOK
  <2> QED BY <1>13, <1>a, <2>1, NoProcessType DEF Crash, TypeOK, Typed, WorkerTypes, external
<1>14. CASE Start
  <2>1. stream' \in [Keys -> Seq(I!Events(Objects))]
    BY <1>14, <1>a, ListTypes DEF Start, TypeOK
  <2> QED BY <1>14, <1>a, <1>h, <1>b, <2>1 DEF Start, TypeOK, Typed, external, counters
<1>15. CASE UNCHANGED vars
  BY <1>15, <1>a DEF vars, TypeOK, Typed, WorkersKeyed
<1> QED BY <1>1, <1>2, <1>3, <1>4, <1>5, <1>6, <1>7, <1>8, <1>9, <1>10, <1>11, <1>12,
           <1>13, <1>14, <1>15 DEF Next, CarriesOn

\* The state of the status syncer always has the types the code declares.
THEOREM StatusTyped == Spec => []TypeOK
<1>1. Typed => TypeOK
  BY DEF Typed
<1> QED BY <1>1, InitType, NextTyped, PTL DEF Spec

-------------------------------------------------------------------------------
(* Serialised work.                                                        *)

\* The queue gives no object to two workers, and exactly the items it believes
\* to be in processing are in a worker's hands.
WorkSerialised ==
    /\ \A v, w \in Workers :
          v # w /\ worker[v].key # NoKey => worker[v].key # worker[w].key
    /\ queue.processing = {worker[w].key : w \in Workers} \ {NoKey}

\* A step that moves no key into or out of a worker's hands keeps the work
\* serialised.
LEMMA SameHands ==
    ASSUME WorkSerialised, queue'.processing = queue.processing,
           \A w \in Workers : worker'[w].key = worker[w].key
    PROVE  WorkSerialised'
BY DEF WorkSerialised

\* No step gives an object to two workers.
LEMMA NextSerialised == Typed /\ WorkSerialised /\ [Next]_vars => WorkSerialised'
<1> SUFFICES ASSUME Typed, WorkSerialised, [Next]_vars PROVE WorkSerialised'
  OBVIOUS
<1>1. CASE queue' = queue /\ worker' = worker
  BY <1>1, SameHands
<1>2. ASSUME NEW k \in Keys, Handle(k)
      PROVE  WorkSerialised'
  <2>1. queue'.processing = queue.processing
    BY <1>2, HandleQueue
  <2>2. worker' = worker
    BY <1>2 DEF Handle
  <2> QED BY <2>1, <2>2, SameHands
<1>3. CASE NoProcess
  BY <1>3, EmptyQueueType DEF NoProcess, WorkSerialised, IdleWorker
<1>4. ASSUME NEW k \in Keys, Backoff(k)
      PROVE  WorkSerialised'
  <2>1. queue'.processing = queue.processing /\ worker' = worker
    BY <1>4, QueueOperations DEF Backoff, Typed, TypeOK
  <2> QED BY <2>1, SameHands
<1>5. ASSUME NEW k \in Keys, NEW v \in Workers, GetItem(v, k)
      PROVE  WorkSerialised'
  <2>1. /\ queue'.processing = queue.processing \cup {k}
        /\ worker[v].key = NoKey
        /\ k \notin queue.processing
        /\ worker'[v].key = k
        /\ \A w \in Workers : w # v => worker'[w] = worker[w]
    BY <1>5, GetEffect
  <2>2. k # NoKey
    BY KeysAssumption
  <2>3. \A w \in Workers : worker'[w].key = IF w = v THEN k ELSE worker[w].key
    BY <2>1
  <2>4. \A w \in Workers : worker[w].key # k
    BY <2>1, <2>2 DEF WorkSerialised
  <2> QED BY <2>1, <2>2, <2>3, <2>4 DEF WorkSerialised
<1>6. ASSUME NEW v \in Workers, FinishItem(v)
      PROVE  WorkSerialised'
  <2> DEFINE k == worker[v].key
  <2>1. /\ k \in Keys
        /\ queue'.processing = queue.processing \ {k}
        /\ worker'[v].key = NoKey
        /\ \A w \in Workers : w # v => worker'[w] = worker[w]
    BY <1>6, FinishEffect
  <2>2. k # NoKey
    BY <2>1, KeysAssumption
  <2>3. \A w \in Workers : worker'[w].key = IF w = v THEN NoKey ELSE worker[w].key
    BY <2>1
  <2>4. \A w \in Workers : w # v => worker[w].key # k
    BY <2>2 DEF WorkSerialised
  <2> QED BY <2>1, <2>2, <2>3, <2>4 DEF WorkSerialised
<1>7. ASSUME NEW v \in Workers, CarriesOn(v)
      PROVE  WorkSerialised'
  <2>1. /\ queue' = queue
        /\ worker'[v].key = worker[v].key
        /\ \A w \in Workers : w # v => worker'[w] = worker[w]
    BY <1>7, CarryOn
  <2>2. \A w \in Workers : worker'[w].key = worker[w].key
    BY <2>1
  <2> QED BY <2>1, <2>2, SameHands
<1> QED BY <1>1, <1>2, <1>3, <1>4, <1>5, <1>6, <1>7
        DEF Next, vars, CarriesOn, SourceWrite, SourceSpecWrite, SourceDelete, TargetTouch,
            InformerStep, HandleTombstone, Relist, Crash, Start

-------------------------------------------------------------------------------
(* The cache follows the regional hub.                                     *)

\* Nothing of the process exists while it is down.
StoppedIsEmpty ==
    ~running => /\ stream = [k \in Keys |-> <<>>]
                /\ cache = [k \in Keys |-> Absent]
                /\ notify = [k \in Keys |-> <<>>]
                /\ queue = EmptyQueue
                /\ worker = [w \in Workers |-> IdleWorker]

\* A process that is down has no state, and one that starts has none but the
\* events of its first list.
LEMMA NextStopped == Typed /\ StoppedIsEmpty /\ [Next]_vars => StoppedIsEmpty'
<1> SUFFICES ASSUME Typed, StoppedIsEmpty, [Next]_vars PROVE StoppedIsEmpty'
  OBVIOUS
<1>1. CASE NoProcess
  BY <1>1 DEF NoProcess, StoppedIsEmpty
<1>2. CASE running /\ running' = running
  BY <1>2 DEF StoppedIsEmpty
<1>3. CASE Start
  BY <1>3 DEF Start, StoppedIsEmpty
<1>4. CASE ~running /\ UNCHANGED <<running, stream, cache, notify, queue, worker>>
  BY <1>4 DEF StoppedIsEmpty
<1>5. ASSUME ~running, NEW k \in Keys
      PROVE  ~InformerStep(k) /\ ~Handle(k) /\ ~HandleTombstone(k) /\ ~Backoff(k)
  BY <1>5 DEF StoppedIsEmpty, InformerStep, Handle, HandleTombstone, Backoff,
              EmptyQueue, Queue
<1>6. ASSUME NEW w \in Workers, CarriesOn(w) \/ FinishItem(w)
      PROVE  running /\ running' = running
  <2>1. worker[w].pc # "idle"
    BY <1>6, CarryOn DEF FinishItem
  <2>2. running
    BY <2>1 DEF StoppedIsEmpty, IdleWorker
  <2> QED BY <1>6, <2>2, CarryOn DEF FinishItem, informer
<1>7. ASSUME NEW k \in Keys, NEW avail \in Availabilities, SourceWrite(k, avail)
      PROVE  StoppedIsEmpty'
  BY <1>7, <1>2, <1>4 DEF SourceWrite, Watch, Typed, TypeOK
<1>8. ASSUME NEW k \in Keys, SourceSpecWrite(k) \/ SourceDelete(k)
      PROVE  StoppedIsEmpty'
  BY <1>8, <1>2, <1>4 DEF SourceSpecWrite, SourceDelete, Watch, Typed, TypeOK
<1>9. ASSUME NEW k \in Keys, InformerStep(k) \/ Handle(k) \/ Backoff(k)
      PROVE  StoppedIsEmpty'
  BY <1>9, <1>2, <1>5 DEF InformerStep, Handle, Backoff, informer
<1>10. ASSUME NEW k \in Keys, NEW w \in Workers, GetItem(w, k)
       PROVE  StoppedIsEmpty'
  BY <1>10, <1>2 DEF GetItem, informer
<1>11. CASE Relist
  BY <1>11, <1>2 DEF Relist
<1>12. CASE UNCHANGED <<running, stream, cache, notify, queue, worker>>
  BY <1>12 DEF StoppedIsEmpty
<1> QED BY <1>1, <1>2, <1>3, <1>6, <1>7, <1>8, <1>9, <1>10, <1>11, <1>12
        DEF Next, vars, informer, CarriesOn, TargetTouch, HandleTombstone, Crash

\* The events on their way lead the cache to what the regional hub has of k.
Follows(k) ==
    IF stream[k] = <<>>
    THEN cache[k] = source[k]
    ELSE I!CacheAfter(stream[k][Len(stream[k])]) = source[k]

CacheFollows == running => \A k \in Keys : Follows(k)

\* The watch adds an event that leads the cache to the new object of the regional hub.
LEMMA WatchFollows ==
    ASSUME Typed, CacheFollows, NEW k \in Keys, NEW t \in I!EventTypes, NEW o \in Objects,
           Watch(k, t, o), cache' = cache, running' = running,
           NEW u \in Objects, source' = [source EXCEPT ![k] = u],
           I!CacheAfter([type |-> t, obj |-> o]) = u
    PROVE  CacheFollows'
<1> SUFFICES ASSUME running, NEW j \in Keys PROVE Follows(j)'
  BY DEF CacheFollows, Follows
<1> DEFINE e == [type |-> t, obj |-> o]
<1>1. stream' = [stream EXCEPT ![k] = Append(stream[k], e)]
  BY DEF Watch
<1>2. stream \in [Keys -> Seq(I!Events(Objects))] /\ e \in I!Events(Objects)
  BY DEF Typed, TypeOK, I!Events
<1>3. CASE j = k
  <2>1. stream'[k] = Append(stream[k], e)
    BY <1>1, <1>2
  <2>2. stream'[k] # <<>> /\ stream'[k][Len(stream'[k])] = e
    BY <1>2, <2>1, AppendLast
  <2>3. source'[k] = u
    BY DEF Typed, TypeOK
  <2> QED BY <1>3, <2>2, <2>3 DEF Follows
<1>4. CASE j # k
  <2>1. stream'[j] = stream[j] /\ source'[j] = source[j]
    BY <1>1, <1>2, <1>4 DEF Typed, TypeOK
  <2> QED BY <2>1 DEF Follows, CacheFollows
<1> QED BY <1>3, <1>4

\* Every step keeps the events on their way leading to the objects of the regional hub.
LEMMA NextFollows ==
    Typed /\ StoppedIsEmpty /\ CacheFollows /\ [Next]_vars => CacheFollows'
<1> SUFFICES ASSUME Typed, StoppedIsEmpty, CacheFollows, [Next]_vars
             PROVE  CacheFollows'
  OBVIOUS
<1>t. /\ stream \in [Keys -> Seq(I!Events(Objects))]
      /\ source \in [Keys -> Objects]
      /\ cache \in [Keys -> Objects]
  BY DEF Typed, TypeOK
<1>1. ASSUME NEW k \in Keys, NEW avail \in Availabilities, SourceWrite(k, avail)
      PROVE  CacheFollows'
  <2> DEFINE o == [gen |-> writes + 1, avail |-> avail]
  <2>1. o \in Objects /\ "modified" \in I!EventTypes
    BY StatusAssumption DEF Typed, TypeOK, Objects, I!EventTypes
  <2>2. I!CacheAfter([type |-> "modified", obj |-> o]) = o
    BY DEF I!CacheAfter
  <2> QED BY <1>1, <2>1, <2>2, WatchFollows DEF SourceWrite
<1>2. ASSUME NEW k \in Keys, SourceSpecWrite(k)
      PROVE  CacheFollows'
  <2>1. source[k] \in Objects /\ "modified" \in I!EventTypes
    BY <1>t DEF I!EventTypes
  <2>2. I!CacheAfter([type |-> "modified", obj |-> source[k]]) = source[k]
    BY DEF I!CacheAfter
  <2>3. source' = [source EXCEPT ![k] = source[k]]
    BY <1>2, <1>t DEF SourceSpecWrite, external
  <2> QED BY <1>2, <2>1, <2>2, <2>3, WatchFollows DEF SourceSpecWrite
<1>3. ASSUME NEW k \in Keys, SourceDelete(k)
      PROVE  CacheFollows'
  <2>1. source[k] \in Objects /\ "deleted" \in I!EventTypes
    BY <1>t DEF I!EventTypes
  <2>2. I!CacheAfter([type |-> "deleted", obj |-> source[k]]) = Absent
    BY DEF I!CacheAfter
  <2> QED BY <1>3, <2>1, <2>2, AbsentType, WatchFollows DEF SourceDelete
<1>4. ASSUME NEW k \in Keys, InformerStep(k)
      PROVE  CacheFollows'
  <2> SUFFICES ASSUME running, NEW j \in Keys PROVE Follows(j)'
    BY <1>4 DEF CacheFollows, Follows, InformerStep
  <2>1. CASE j = k
    <3> DEFINE s == stream[k]
    <3>1. /\ s \in Seq(I!Events(Objects)) /\ s # <<>>
          /\ stream'[k] = Tail(s)
          /\ cache'[k] = I!CacheAfter(Head(s))
          /\ source' = source
      BY <1>4, <1>t DEF InformerStep, external
    <3>2. I!CacheAfter(s[Len(s)]) = source[k]
      BY <3>1 DEF CacheFollows, Follows
    <3>3. /\ Tail(s) = <<>> => Head(s) = s[Len(s)]
          /\ Tail(s) # <<>> => Tail(s)[Len(Tail(s))] = s[Len(s)]
      BY <3>1, TailLast
    <3> QED BY <2>1, <3>1, <3>2, <3>3 DEF Follows
  <2>2. CASE j # k
    BY <1>4, <1>t, <2>2 DEF InformerStep, Follows, CacheFollows, external
  <2> QED BY <2>1, <2>2
<1>5. CASE NoProcess
  BY <1>5 DEF NoProcess, CacheFollows
<1>6. CASE Relist
  <2> SUFFICES ASSUME NEW j \in Keys PROVE Follows(j)'
    BY DEF CacheFollows, Follows
  <2>1. /\ stream'[j] = I!ReList(source[j], cache[j])
        /\ cache' = cache /\ source' = source
    BY <1>6 DEF Relist, external
  <2>2. CASE source[j] # Absent
    <3> DEFINE e == [type |-> "replaced", obj |-> source[j]]
    <3>1. stream'[j] = <<e>>
      BY <2>1, <2>2 DEF I!ReList
    <3>2. stream'[j] # <<>> /\ stream'[j][Len(stream'[j])] = e
      BY <3>1
    <3> QED BY <2>1, <3>2 DEF Follows, I!CacheAfter
  <2>3. CASE source[j] = Absent /\ cache[j] # Absent
    <3> DEFINE e == [type |-> "gone", obj |-> cache[j]]
    <3>1. stream'[j] = <<e>>
      BY <2>1, <2>3 DEF I!ReList
    <3>2. stream'[j] # <<>> /\ stream'[j][Len(stream'[j])] = e
      BY <3>1
    <3> QED BY <2>1, <2>3, <3>2 DEF Follows, I!CacheAfter
  <2>4. CASE source[j] = Absent /\ cache[j] = Absent
    BY <2>1, <2>4 DEF Follows, I!ReList
  <2> QED BY <2>2, <2>3, <2>4
<1>7. CASE Start
  <2> SUFFICES ASSUME NEW j \in Keys PROVE Follows(j)'
    BY DEF CacheFollows, Follows
  <2>1. /\ stream'[j] = I!FirstList(source[j])
        /\ cache'[j] = Absent /\ source' = source
    BY <1>7 DEF Start, StoppedIsEmpty, external
  <2>2. CASE source[j] # Absent
    <3> DEFINE e == [type |-> "initial", obj |-> source[j]]
    <3>1. stream'[j] = <<e>>
      BY <2>1, <2>2 DEF I!FirstList
    <3>2. stream'[j] # <<>> /\ stream'[j][Len(stream'[j])] = e
      BY <3>1
    <3> QED BY <2>1, <3>2 DEF Follows, I!CacheAfter
  <2>3. CASE source[j] = Absent
    BY <2>1, <2>3 DEF Follows, I!FirstList
  <2> QED BY <2>2, <2>3
<1>8. CASE UNCHANGED <<source, running, stream, cache>>
  BY <1>8 DEF CacheFollows, Follows
<1>9. ASSUME NEW v \in Workers, CarriesOn(v)
      PROVE  CacheFollows'
  BY <1>8, <1>9, CarryOn DEF informer
<1> QED BY <1>1, <1>2, <1>3, <1>4, <1>5, <1>6, <1>7, <1>8, <1>9
        DEF Next, vars, external, informer, CarriesOn, Handle, HandleTombstone, Backoff,
            GetItem, FinishItem, Crash, TargetTouch

-------------------------------------------------------------------------------
(* No status is forgotten.                                                 *)

\* The item of a worker will write the status the cache holds, or be queued
\* again.  A managed cluster goes through its HubControlPlane first.
WillApply(w, k) ==
    /\ worker[w].key = k
    /\ \/ worker[w].pc \in {"process", "failed"}
       \/ /\ \/ worker[w].pc \in {"get", "update", "applyMain", "applyStatus"}
             \/ worker[w].pc \in {"hcp", "hcpMain", "hcpStatus"} /\ k \in ManagedClusters
          /\ worker[w].obj = cache[k]

Applied(k) ==
    /\ target[k].gen = cache[k].gen
    /\ \A w \in Workers : worker[w].key = k => worker[w].pc = "done"

\* A handler is still to be told of a change that it will queue.
Notified(k) == \E i \in 1..Len(notify[k]) : ShouldEnqueue(k, notify[k][i])

Pending(k) ==
    \/ Notified(k)
    \/ k \in queue.dirty \cup queue.delayed
    \/ \E w \in Workers : WillApply(w, k)
    \/ Applied(k)
    \/ k \in dropped

\* The status of every object in the cache has been written to its copy, something
\* that will write it is under way, or its latest apply failed.  This is what makes StatusInSync
\* hold: a worker writes the status it read from the cache some steps earlier,
\* but a status that came meanwhile has queued the object again.
NothingForgotten ==
    running => \A k \in Copied : cache[k] # Absent => Pending(k)

\* The inductive invariant behind StatusInSync.
StatusInv ==
    /\ Typed
    /\ WorkSerialised
    /\ StoppedIsEmpty
    /\ CacheFollows
    /\ NothingForgotten

\* A step of worker v that concerns another object leaves k pending.
LEMMA OtherKeyPending ==
    ASSUME NEW v \in Workers, NEW k \in Copied, Pending(k),
           worker[v].key # k, worker'[v].key # k,
           \A w \in Workers : w # v => worker'[w] = worker[w],
           cache'[k] = cache[k], notify'[k] = notify[k],
           target'[k] = target[k],
           k \in dropped => k \in dropped',
           k \in queue.dirty \cup queue.delayed =>
               k \in queue'.dirty \cup queue'.delayed
    PROVE  Pending(k)'
<1>1. ASSUME Notified(k) PROVE Notified(k)'
  BY <1>1 DEF Notified
<1>2. ASSUME NEW w \in Workers, WillApply(w, k) PROVE WillApply(w, k)'
  <2>1. w # v
    BY <1>2 DEF WillApply
  <2> QED BY <1>2, <2>1 DEF WillApply
<1>3. ASSUME Applied(k) PROVE Applied(k)'
  BY <1>3 DEF Applied
<1> QED BY <1>1, <1>2, <1>3 DEF Pending

\* An event that changes the status of an object is queued when it is handled;
\* one that leaves the status alone leaves what was pending.
LEMMA InformerPending ==
    ASSUME Typed, NEW k \in Copied, InformerStep(k), cache'[k] # Absent,
           cache[k] # Absent => Pending(k)
    PROVE  Pending(k)'
<1> DEFINE e == Head(stream[k])
           n == I!NotificationOf(e, cache[k])
           s == notify[k]
<1>0. k \in Keys /\ k \notin OtherCrds
  BY KeysAssumption DEF Copied, Keys
<1>1. /\ e \in I!Events(Objects)
      /\ s \in Seq(I!Notifications(Objects))
      /\ cache[k] \in Objects
  BY <1>0 DEF InformerStep, Typed, TypeOK
<1>2. n \in I!Notifications(Objects)
  BY <1>1, InformerTypes
<1>3. cache'[k] = I!CacheAfter(e) /\ notify'[k] = Append(s, n)
  BY <1>0 DEF InformerStep, Typed, TypeOK
<1>4. n = [type |-> IF cache[k] = Absent THEN "add" ELSE "update",
           old |-> cache[k], new |-> cache'[k]]
  BY <1>3 DEF I!NotificationOf, I!CacheAfter
<1> HIDE DEF n, s
<1>5. /\ Len(s) \in Nat
      /\ Len(notify'[k]) = Len(s) + 1
      /\ \A i \in 1..Len(s) : notify'[k][i] = s[i]
      /\ notify'[k][Len(s) + 1] = n
  BY <1>1, <1>2, <1>3, AppendElements
<1>6. CASE cache'[k] # cache[k]
  <2>1. ShouldEnqueue(k, n)
    BY <1>0, <1>4, <1>6 DEF ShouldEnqueue, deepEqualStatus
  <2>2. Len(s) + 1 \in 1..Len(notify'[k])
    BY <1>5
  <2>3. Notified(k)'
    BY <1>5, <2>1, <2>2 DEF Notified
  <2> QED BY <2>3 DEF Pending
<1>7. CASE cache'[k] = cache[k]
  <2>1. Pending(k)
    BY <1>7
  <2>2. ASSUME Notified(k) PROVE Notified(k)'
    <3>1. PICK i \in 1..Len(s) : ShouldEnqueue(k, s[i])
      BY <2>2 DEF Notified, s
    <3>2. i \in 1..Len(notify'[k]) /\ notify'[k][i] = s[i]
      BY <1>5
    <3> QED BY <3>1, <3>2 DEF Notified
  <2>3. UNCHANGED <<queue, worker, target, dropped>>
    BY DEF InformerStep, external, history
  <2> QED BY <1>7, <2>1, <2>2, <2>3 DEF Pending, WillApply, Applied
<1> QED BY <1>6, <1>7

\* A notification that is handled is queued, or leaves what was pending.
LEMMA HandlePending ==
    ASSUME Typed, NEW k \in Copied, Handle(k), Pending(k)
    PROVE  Pending(k)'
<1> DEFINE s == notify[k]
           t == Tail(s)
<1>0. k \in Keys
  BY DEF Copied, Keys
<1>1. s \in Seq(I!Notifications(Objects)) /\ s # <<>>
  BY <1>0 DEF Handle, Typed, TypeOK
<1>2. notify'[k] = t
  BY <1>0 DEF Handle, Typed, TypeOK
<1>3. /\ queue'.delayed = queue.delayed
      /\ queue.dirty \subseteq queue'.dirty
      /\ ShouldEnqueue(k, Head(s)) => k \in queue'.dirty
  BY <1>0, HandleQueue
<1>4. UNCHANGED <<cache, worker, target, dropped>>
  BY DEF Handle, external, history
<1>5. CASE ShouldEnqueue(k, Head(s))
  BY <1>3, <1>5 DEF Pending
<1>6. CASE ~ShouldEnqueue(k, Head(s))
  <2>1. /\ Len(s) \in Nat \ {0}
        /\ Len(t) = Len(s) - 1
        /\ \A i \in 1..Len(s) - 1 : t[i] = s[i + 1]
        /\ Head(s) = s[1]
    BY <1>1, TailElements
  <2> HIDE DEF t
  <2>2. ASSUME Notified(k) PROVE Notified(k)'
    <3>1. PICK i \in 1..Len(s) : ShouldEnqueue(k, s[i])
      BY <2>2 DEF Notified
    <3>2. i # 1
      BY <1>6, <2>1, <3>1
    <3>3. i - 1 \in 1..Len(t) /\ t[i - 1] = s[i]
      BY <2>1, <3>2
    <3> QED BY <1>2, <3>1, <3>3 DEF Notified
  <2> QED BY <1>3, <1>4, <2>2 DEF Pending, WillApply, Applied
<1> QED BY <1>5, <1>6

\* The worker that carries on with k will write the status it read, and has
\* written it when it is done, unless an apply failed.
LEMMA CarryOnPending ==
    ASSUME Typed, NEW k \in Copied, NEW v \in Workers, CarriesOn(v),
           WillApply(v, k), \A w \in Workers : worker[w].key = k => w = v
    PROVE  WillApply(v, k)' \/ Applied(k)' \/ k \in dropped'
<1>t. /\ worker[v] \in WorkerTypes /\ worker \in [Workers -> WorkerTypes]
      /\ target \in [Copied -> Copies] /\ target[k] \in Copies
      /\ worker[v].key = k /\ worker[v].obj.gen \in Nat
  BY DEF Typed, TypeOK, WorkerTypes, WillApply, Objects
<1>e. /\ cache' = cache
      /\ worker'[v].key = k
      /\ \A w \in Workers : w # v => worker'[w] = worker[w]
  BY <1>t, CarryOn DEF informer
<1>m. ASSUME NEW pc, Move(v, pc)
      PROVE  worker'[v].pc = pc /\ worker'[v].obj = worker[v].obj
  BY <1>m, <1>t DEF Move, WorkerTypes
<1>f. ASSUME worker'[v].pc = "failed"
      PROVE  WillApply(v, k)'
  BY <1>f, <1>e DEF WillApply
<1>g. ASSUME worker'[v].pc \in {"get", "update", "applyMain", "applyStatus"},
             worker'[v].obj = cache[k]
      PROVE  WillApply(v, k)'
  BY <1>g, <1>e DEF WillApply
<1>d. ASSUME worker'[v].pc = "done", target'[k].gen = cache[k].gen
      PROVE  Applied(k)'
  BY <1>d, <1>e DEF Applied
<1>o. ASSUME worker[v].pc \notin {"process", "failed"}
      PROVE  /\ worker[v].obj = cache[k]
             /\ worker[v].pc \in {"hcp", "hcpMain", "hcpStatus"} => k \in ManagedClusters
  BY <1>o DEF WillApply
<1>c. target'[k] = [target[k] EXCEPT !.gen = worker[v].obj.gen, !.rv = target[k].rv + 1]
         => target'[k].gen = worker[v].obj.gen
  <2> DEFINE c == target[k]
             g == worker[v].obj.gen
  <2>1. c \in Copies /\ g \in Nat
    BY <1>t
  <2> HIDE DEF c, g
  <2>2. [c EXCEPT !.gen = g, !.rv = c.rv + 1].gen = g
    BY <2>1, CopyTypes
  <2>3. target'[k] = [c EXCEPT !.gen = g, !.rv = c.rv + 1] => target'[k].gen = g
    BY <2>2
  <2> QED BY <2>3 DEF c, g
<1>w. ASSUME WriteCopy(v) PROVE target'[k] = CopyAfter(v)
  BY <1>w, <1>t DEF WriteCopy
<1>1. CASE Process(v)
  <2> DEFINE pc == IF cache[k] = Absent THEN "failed"
                   ELSE IF k \in Policies THEN "get" ELSE "hcp"
  <2>1. worker' = [worker EXCEPT ![v] = [worker[v] EXCEPT !.obj = cache[k], !.pc = pc]]
    BY <1>1, <1>t DEF Process
  <2>2. worker'[v].obj = cache[k] /\ worker'[v].pc = pc
    BY <1>t, <2>1 DEF WorkerTypes
  <2>3. pc = "failed" \/ pc = "get" \/ (pc = "hcp" /\ k \in ManagedClusters)
    BY DEF Copied
  <2>4. ASSUME pc = "hcp", k \in ManagedClusters PROVE WillApply(v, k)'
    BY <1>e, <2>2, <2>4 DEF WillApply
  <2> HIDE DEF pc
  <2> QED BY <1>f, <1>g, <2>2, <2>3, <2>4
<1>2. CASE ComputeHubControlPlane(v)
  <2>1. worker[v].obj = cache[k] /\ k \in ManagedClusters
    BY <1>2, <1>o DEF ComputeHubControlPlane
  <2>2. CASE PodNamespace
    <3>1. worker' = [worker EXCEPT ![v] = [worker[v] EXCEPT !.pc = "hcpMain",
                                                           !.hcp = HubControlPlane]]
      BY <1>2, <2>2 DEF ComputeHubControlPlane
    <3>2. worker'[v].pc = "hcpMain" /\ worker'[v].obj = worker[v].obj
      BY <1>t, <3>1 DEF WorkerTypes
    <3> QED BY <1>e, <2>1, <3>2 DEF WillApply
  <2>3. CASE ~PodNamespace
    <3>1. Move(v, "get")
      BY <1>2, <1>t, <2>1, <2>3 DEF ComputeHubControlPlane, Move
    <3> QED BY <1>g, <1>m, <2>1, <3>1
  <2> QED BY <2>2, <2>3
<1>3. CASE ApplyHubControlPlane(v)
  <2>1. worker[v].obj = cache[k] /\ k \in ManagedClusters
    BY <1>3, <1>o DEF ApplyHubControlPlane
  <2>2. worker'[v].pc = "hcpStatus" /\ worker'[v].obj = worker[v].obj
    BY <1>3, <1>m DEF ApplyHubControlPlane
  <2> QED BY <1>e, <2>1, <2>2 DEF WillApply
<1>4. CASE ApplyHubControlPlaneStatus(v)
  <2>1. worker[v].obj = cache[k] /\ k \in ManagedClusters
    BY <1>4, <1>o DEF ApplyHubControlPlaneStatus
  <2>2. Move(v, "get")
    BY <1>4, <1>t, <2>1 DEF ApplyHubControlPlaneStatus, AfterHubControlPlane
  <2> QED BY <1>g, <1>m, <2>1, <2>2
<1>5. CASE GetCopy(v)
  <2>1. worker[v].obj = cache[k]
    BY <1>5, <1>o DEF GetCopy
  <2>2. CASE k \in Policies /\ target[k].exists
    <3>1. worker' = [worker EXCEPT ![v] = [worker[v] EXCEPT !.pc = "update",
                                                           !.rv = target[k].rv]]
      BY <1>5, <1>t, <2>2 DEF GetCopy
    <3>2. worker'[v].pc = "update" /\ worker'[v].obj = worker[v].obj
      BY <1>t, <3>1 DEF WorkerTypes
    <3> QED BY <1>g, <2>1, <3>2
  <2>3. CASE ~(k \in Policies /\ target[k].exists)
    <3>1. Move(v, "applyMain")
      BY <1>5, <1>t, <2>3 DEF GetCopy, Move
    <3> QED BY <1>g, <1>m, <2>1, <3>1
  <2> QED BY <2>2, <2>3
<1>6. CASE UpdateStatus(v)
  <2>1. worker[v].obj = cache[k] /\ target'[k] = CopyAfter(v) /\ worker[v].pc = "update"
    BY <1>6, <1>o, <1>w DEF UpdateStatus
  <2>2. CASE target[k].rv = worker[v].rv
    <3>1. target'[k] = [target[k] EXCEPT !.gen = worker[v].obj.gen, !.rv = target[k].rv + 1]
      BY <1>t, <2>1, <2>2 DEF CopyAfter
    <3>2. target'[k].gen = worker[v].obj.gen
      BY <1>c, <3>1
    <3>3. Move(v, "done")
      BY <1>6, <1>t, <2>2 DEF UpdateStatus
    <3> QED BY <1>d, <1>m, <2>1, <3>2, <3>3
  <2>3. CASE target[k].rv # worker[v].rv
    <3>1. Move(v, "failed")
      BY <1>6, <1>t, <2>3 DEF UpdateStatus
    <3> QED BY <1>f, <1>m, <3>1
  <2> QED BY <2>2, <2>3
<1>7. CASE ApplyMain(v)
  <2>1. worker[v].obj = cache[k] /\ Move(v, "applyStatus")
    BY <1>7, <1>o DEF ApplyMain
  <2> QED BY <1>g, <1>m, <2>1
<1>8. CASE ApplyStatus(v)
  <2>1. /\ worker[v].obj = cache[k] /\ target'[k] = CopyAfter(v)
        /\ worker[v].pc = "applyStatus" /\ Move(v, "done")
    BY <1>8, <1>o, <1>w DEF ApplyStatus
  <2>2. target'[k] = [target[k] EXCEPT !.gen = worker[v].obj.gen, !.rv = target[k].rv + 1]
    BY <1>t, <2>1 DEF CopyAfter
  <2>3. target'[k].gen = worker[v].obj.gen
    BY <1>c, <2>2
  <2> QED BY <1>d, <1>m, <2>1, <2>3
<1>9. ASSUME NEW done \in BOOLEAN, RequestFails(v, done)
      PROVE  WillApply(v, k)' \/ k \in dropped'
  <2>1. worker[v].pc \in {"hcpMain", "hcpStatus", "get", "update", "applyMain", "applyStatus"}
    BY <1>9, StatusAssumption DEF RequestFails, Requests
  <2>2. CASE worker[v].pc \in {"get", "update"}
    <3>1. Move(v, "failed")
      BY <1>9, <2>2 DEF RequestFails
    <3> QED BY <1>f, <1>m, <3>1
  <2>3. CASE worker[v].pc \in {"hcpMain", "hcpStatus"}
    <3>1. worker[v].obj = cache[k] /\ k \in ManagedClusters
      BY <1>o, <2>3
    <3>2. Move(v, "get")
      BY <1>9, <1>t, <2>3, <3>1 DEF RequestFails, AfterHubControlPlane, Applying
    <3> QED BY <1>g, <1>m, <3>1, <3>2
  <2>4. CASE worker[v].pc \in {"applyMain", "applyStatus"}
    BY <1>9, <1>t, <2>4 DEF RequestFails
  <2> QED BY <2>1, <2>2, <2>3, <2>4
<1> QED BY <1>1, <1>2, <1>3, <1>4, <1>5, <1>6, <1>7, <1>8, <1>9 DEF CarriesOn, WorkerStep

\* A worker's step on k leaves k pending.
LEMMA WorkerPending ==
    ASSUME Typed, WorkSerialised, NEW k \in Copied, NEW v \in Workers,
           CarriesOn(v) \/ FinishItem(v), worker[v].key = k, Pending(k)
    PROVE  Pending(k)'
<1>k. k \in Keys /\ k # NoKey /\ \A w \in Workers : worker[w].key = k => w = v
  BY KeysAssumption DEF WorkSerialised, Copied, Keys
<1>s. cache' = cache /\ notify' = notify
  BY CarryOn DEF FinishItem, informer
<1>n. Notified(k) => Pending(k)'
  BY <1>s DEF Pending, Notified
<1>w. (\E w \in Workers : WillApply(w, k)) => WillApply(v, k)
  BY <1>k DEF WillApply
<1>1. CASE CarriesOn(v)
  <2>1. queue' = queue
    BY <1>1, CarryOn
  <2>2. worker[v].pc # "done"
    BY <1>1, StatusAssumption DEF CarriesOn, WorkerStep, Process, ComputeHubControlPlane,
       ApplyHubControlPlane, ApplyHubControlPlaneStatus, GetCopy, UpdateStatus, ApplyMain,
       ApplyStatus, RequestFails, Requests
  <2>3. ~Applied(k)
    BY <2>2 DEF Applied
  <2>4. WillApply(v, k) => WillApply(v, k)' \/ Applied(k)' \/ k \in dropped'
    BY <1>1, <1>k, CarryOnPending
  <2>5. WillApply(v, k)' \/ Applied(k)' \/ k \in dropped' => Pending(k)'
    BY DEF Pending
  <2>7. k \in dropped => k \in dropped' \/ WillApply(v, k)
    <3>1. CASE Process(v)
      BY <3>1 DEF Process, WillApply
    <3>2. CASE ~Process(v)
      BY <1>1, <3>2 DEF CarriesOn, WorkerStep, ComputeHubControlPlane, ApplyHubControlPlane,
         ApplyHubControlPlaneStatus, GetCopy, UpdateStatus, ApplyMain, ApplyStatus,
         RequestFails, history
    <3> QED BY <3>1, <3>2
  <2>6. k \in queue.dirty \cup queue.delayed => Pending(k)'
    BY <2>1 DEF Pending
  <2> QED BY <1>n, <1>w, <2>3, <2>4, <2>5, <2>6, <2>7 DEF Pending
<1>2. CASE FinishItem(v)
  <2>1. /\ queue'.dirty = queue.dirty
        /\ queue'.delayed = IF worker[v].pc = "failed"
                            THEN queue.delayed \cup {k} ELSE queue.delayed
        /\ worker'[v].key = NoKey
        /\ \A w \in Workers : w # v => worker'[w] = worker[w]
    BY <1>2, FinishEffect
  <2>2. CASE worker[v].pc = "failed"
    BY <2>1, <2>2 DEF Pending
  <2>3. CASE worker[v].pc # "failed"
    <3>1. worker[v].pc = "done"
      BY <1>2, <2>3 DEF FinishItem
    <3>2. ~WillApply(v, k)
      BY <3>1 DEF WillApply
    <3>3. \A w \in Workers : worker'[w].key # k
      BY <1>k, <2>1
    <3>4. Applied(k) => Applied(k)'
      BY <1>2, <1>s, <3>3 DEF Applied, FinishItem, external
    <3>5. k \in queue.dirty \cup queue.delayed => Pending(k)'
      BY <2>1, <2>3 DEF Pending
    <3>6. Applied(k)' \/ k \in dropped' => Pending(k)'
      BY DEF Pending
    <3>7. dropped' = dropped
      BY <1>2 DEF FinishItem, history
    <3> QED BY <3>7, <1>n, <1>w, <3>2, <3>4, <3>5, <3>6 DEF Pending
  <2> QED BY <2>2, <2>3
<1> QED BY <1>1, <1>2

\* Every step leaves the statuses in the cache written or pending.
LEMMA NextForgotten ==
    Typed /\ WorkSerialised /\ StoppedIsEmpty /\ NothingForgotten /\ [Next]_vars
        => NothingForgotten'
<1> SUFFICES ASSUME Typed, WorkSerialised, StoppedIsEmpty, NothingForgotten, [Next]_vars,
                    running', NEW k \in Copied, cache'[k] # Absent
             PROVE  Pending(k)'
  BY DEF NothingForgotten
<1>k. k \in Keys /\ k # NoKey
  BY KeysAssumption DEF Copied, Keys
<1>r. ASSUME running, cache'[k] = cache[k] PROVE Pending(k)
  BY <1>r DEF NothingForgotten
<1>1. CASE Start
  <2>1. cache' = cache /\ ~running
    BY <1>1 DEF Start
  <2> QED BY <1>k, <2>1 DEF StoppedIsEmpty
<1>2. CASE running /\ UNCHANGED <<cache, notify, queue, worker, target, dropped>>
  BY <1>2, <1>r DEF Pending, Notified, WillApply, Applied
<1>3. ASSUME NEW j \in Copied, TargetTouch(j)
      PROVE  Pending(k)'
  <2>1. UNCHANGED <<running, cache, notify, queue, worker, dropped>>
    BY <1>3 DEF TargetTouch, informer, history
  <2>2. Pending(k)
    BY <1>r, <2>1
  <2>3. target[k] \in Copies /\ target[j] \in Copies
    BY DEF Typed, TypeOK
  <2>4. target'[k].gen = target[k].gen
    <3>1. target' = [target EXCEPT ![j] = [target[j] EXCEPT !.rv = target[j].rv + 1]]
      BY <1>3 DEF TargetTouch
    <3>2. target'[k] = target[k] \/ target'[k] = [target[k] EXCEPT !.rv = target[k].rv + 1]
      BY <3>1 DEF Typed, TypeOK
    <3> QED BY <2>3, <3>2, CopyTypes
  <2> QED BY <2>1, <2>2, <2>4 DEF Pending, Notified, WillApply, Applied
<1>4. ASSUME NEW j \in Keys, InformerStep(j)
      PROVE  Pending(k)'
  <2>0. running
    BY <1>4 DEF InformerStep, StoppedIsEmpty
  <2>1. CASE j = k
    <3>1. cache[k] # Absent => Pending(k)
      BY <2>0 DEF NothingForgotten
    <3> QED BY <1>4, <2>1, <3>1, InformerPending
  <2>2. CASE j # k
    <3>1. cache'[k] = cache[k] /\ notify'[k] = notify[k]
      BY <1>k, <1>4, <2>2 DEF InformerStep, Typed, TypeOK
    <3>2. UNCHANGED <<queue, worker, target, dropped>>
      BY <1>4 DEF InformerStep, external, history
    <3>3. Pending(k)
      BY <1>r, <2>0, <3>1
    <3> QED BY <3>1, <3>2, <3>3 DEF Pending, Notified, WillApply, Applied
  <2> QED BY <2>1, <2>2
<1>5. ASSUME NEW j \in Keys, Handle(j)
      PROVE  Pending(k)'
  <2>1. running /\ UNCHANGED <<cache, worker, target, dropped>>
    BY <1>5 DEF Handle, StoppedIsEmpty, external, history
  <2>2. Pending(k)
    BY <1>r, <2>1
  <2>3. CASE j = k
    BY <1>5, <2>2, <2>3, HandlePending
  <2>4. CASE j # k
    <3>1. notify'[k] = notify[k]
      BY <1>k, <1>5, <2>4 DEF Handle, Typed, TypeOK
    <3>2. queue'.delayed = queue.delayed /\ queue.dirty \subseteq queue'.dirty
      BY <1>5, HandleQueue
    <3> QED BY <2>1, <2>2, <3>1, <3>2 DEF Pending, Notified, WillApply, Applied
  <2> QED BY <2>3, <2>4
<1>6. ASSUME NEW j \in Keys, Backoff(j)
      PROVE  Pending(k)'
  <2>1. UNCHANGED <<cache, notify, worker, target, dropped>>
    BY <1>6 DEF Backoff, external, informer, history
  <2>2. running
    BY <1>6 DEF Backoff, StoppedIsEmpty, EmptyQueue, Queue
  <2>3. queue.dirty \cup queue.delayed \subseteq queue'.dirty \cup queue'.delayed
    <3>1. /\ BackoffOver(queue, j).dirty = queue.dirty \cup {j}
          /\ BackoffOver(queue, j).delayed = queue.delayed \ {j}
      BY DEF BackoffOver, Queue
    <3>2. queue' = BackoffOver(queue, j)
      BY <1>6 DEF Backoff
    <3> QED BY <3>1, <3>2
  <2>4. Pending(k)
    BY <1>r, <2>1, <2>2
  <2> QED BY <2>1, <2>3, <2>4 DEF Pending, Notified, WillApply, Applied
<1>7. ASSUME NEW j \in Keys, NEW v \in Workers, GetItem(v, j)
      PROVE  Pending(k)'
  <2>1. UNCHANGED <<cache, notify, target, dropped>> /\ running
    BY <1>7 DEF GetItem, external, informer, history
  <2>2. /\ worker'[v].pc = "process" /\ worker'[v].key = j
        /\ \A w \in Workers : w # v => worker'[w] = worker[w]
        /\ queue'.dirty = queue.dirty \ {j} /\ queue'.delayed = queue.delayed
        /\ worker[v].key = NoKey
    BY <1>7, GetEffect
  <2>3. CASE j = k
    <3>1. WillApply(v, k)'
      BY <2>2, <2>3 DEF WillApply
    <3> QED BY <3>1 DEF Pending
  <2>4. CASE j # k
    <3>1. Pending(k)
      BY <1>r, <2>1
    <3> QED BY <1>k, <2>1, <2>2, <2>4, <3>1, OtherKeyPending
  <2> QED BY <2>3, <2>4
<1>8. ASSUME NEW v \in Workers, CarriesOn(v) \/ FinishItem(v)
      PROVE  Pending(k)'
  <2>1. UNCHANGED <<cache, notify>> /\ worker[v].pc # "idle"
    BY <1>8, CarryOn DEF FinishItem, informer
  <2>2. running
    BY <2>1 DEF StoppedIsEmpty, IdleWorker
  <2>3. Pending(k)
    BY <1>r, <2>1, <2>2
  <2>4. CASE worker[v].key = k
    BY <1>8, <2>3, <2>4, WorkerPending
  <2>5. CASE worker[v].key # k
    <3>1. target'[k] = target[k]
      BY <1>8, <2>5, CarryOnCopies DEF FinishItem, external
    <3>2. CASE CarriesOn(v)
      <4>1. k \in dropped => k \in dropped'
        BY <2>5, <3>2, CarryOnHistory
      <4> QED BY <2>1, <2>3, <2>5, <3>1, <3>2, <4>1, CarryOn, OtherKeyPending
    <3>3. CASE FinishItem(v)
      <4>1. queue.dirty \cup queue.delayed \subseteq queue'.dirty \cup queue'.delayed
        BY <3>3, FinishEffect
      <4>2. worker'[v].key # k /\ \A w \in Workers : w # v => worker'[w] = worker[w]
        BY <1>k, <3>3, FinishEffect
      <4>3. dropped' = dropped
        BY <3>3 DEF FinishItem, history
      <4> QED BY <2>1, <2>3, <2>5, <3>1, <4>1, <4>2, <4>3, OtherKeyPending
    <3> QED BY <1>8, <3>2, <3>3
  <2> QED BY <2>4, <2>5
<1>9. CASE NoProcess
  BY <1>9 DEF NoProcess
<1> QED BY <1>1, <1>2, <1>3, <1>4, <1>5, <1>6, <1>7, <1>8, <1>9
        DEF Next, vars, external, history, CarriesOn, SourceWrite, SourceSpecWrite, SourceDelete,
            HandleTombstone, Relist, Crash

\* No status is lost but where an apply of applyToUpstream, whose error is dropped,
\* failed: whenever the status syncer has nothing left to do for a policy or a
\* managed cluster, its copy on the global hub has the status the regional hub has,
\* or the latest apply of this very object failed, for any number of objects and
\* workers and however often updates conflict, requests fail, watches break,
\* handlers panic and the syncer restarts.
THEOREM StatusesInSync == Spec => []StatusInSync
<1>1. Init => StatusInv
  <2> SUFFICES ASSUME Init PROVE StatusInv
    OBVIOUS
  <2>1. WorkSerialised
    BY EmptyQueueType DEF Init, WorkSerialised, IdleWorker
  <2> QED BY <2>1, InitType
          DEF StatusInv, Init, StoppedIsEmpty, CacheFollows, NothingForgotten
<1>2. StatusInv /\ [Next]_vars => StatusInv'
  BY NextTyped, NextSerialised, NextStopped, NextFollows, NextForgotten DEF StatusInv
<1>3. StatusInv => StatusInSync
  <2> SUFFICES ASSUME StatusInv, running, NEW k \in Copied, Quiet(k), source[k] # Absent,
                      k \notin dropped
               PROVE  target[k].gen = source[k].gen
    BY DEF StatusInSync
  <2>0. k \in Keys /\ k # NoKey
    BY KeysAssumption DEF Copied, Keys
  <2>1. cache[k] = source[k]
    BY <2>0 DEF StatusInv, CacheFollows, Follows, Quiet
  <2>2. Pending(k)
    BY <2>1 DEF StatusInv, NothingForgotten
  <2>3. k \notin queue.dirty /\ k \notin queue.delayed /\ k \notin queue.processing
    BY DEF Quiet, Idle
  <2>4. ~Notified(k)
    <3>1. Len(notify[k]) = 0
      BY DEF Quiet
    <3> QED BY <3>1 DEF Notified
  <2>5. \A w \in Workers : worker[w].key # k
    BY <2>0, <2>3 DEF StatusInv, WorkSerialised
  <2>6. Applied(k)
    BY <2>2, <2>3, <2>4, <2>5 DEF Pending, WillApply
  <2> QED BY <2>1, <2>6 DEF Applied
<1> QED BY <1>1, <1>2, <1>3, PTL DEF Spec

-------------------------------------------------------------------------------
(* The HubControlPlane.                                                    *)

\* The objects that the HubControlPlane lists.
Listable == ManagedClusters \cup Addons

\* What keeps the HubControlPlane in order: POD_NAMESPACE is set, and nothing is
\* deleted (process has no deleteFn for this direction and fails).
PlaneUndisturbed == PodNamespace /\ ~Deletions

\* Nothing in the cache, and no event on its way to it, is without an object of
\* the regional hub.
NothingVanishes ==
    \A k \in Keys :
        /\ cache[k] # Absent => source[k] # Absent
        /\ \A i \in 1..Len(stream[k]) : I!CacheAfter(stream[k][i]) # Absent

\* A HubControlPlane that lists something, on the global hub or in the hands of a
\* worker, was made when there was something to list.
PlaneHasReason ==
    (hcp # EmptyControlPlane \/ \E w \in Workers : worker[w].hcp # EmptyControlPlane)
        => \E k \in Listable : source[k] # Absent

\* A managed cluster or addon is on its way to a worker that will compute the
\* HubControlPlane.
WillCompute(k) ==
    \/ cache[k] = Absent /\ source[k] # Absent
    \/ Notified(k)
    \/ k \in queue.dirty \cup queue.delayed
    \/ \E w \in Workers : worker[w].key = k /\ worker[w].pc \in {"process", "hcp", "failed"}

\* A worker, and no other one, is about to apply the HubControlPlane that the caches
\* make, or the global hub has it and no worker is about to apply another one.
PlaneComing ==
    \/ \E w \in Workers : /\ Applying(w)
                          /\ worker[w].hcp = HubControlPlane
                          /\ \A u \in Workers : Applying(u) => u = w
    \/ hcp = HubControlPlane /\ \A w \in Workers : ~Applying(w)

\* This is what makes ControlPlaneInSync hold: a worker that computes the
\* HubControlPlane while another one is still to be applied, and an apply that
\* fails, make it contested, until one is computed while no other is under way.
PlanePending ==
    running => (\E k \in Listable : WillCompute(k)) \/ contested = TRUE \/ PlaneComing

\* The inductive invariant behind ControlPlaneInSync.
PlaneInv ==
    /\ Typed
    /\ WorkSerialised
    /\ StoppedIsEmpty
    /\ CacheFollows
    /\ NothingVanishes
    /\ PlaneHasReason
    /\ PlanePending

\* The objects that are listed are processed as such.
LEMMA ListableKeys ==
    ASSUME NEW k \in Listable
    PROVE  k \in Keys /\ k # NoKey /\ k \notin Policies /\ k \notin OtherCrds
BY KeysAssumption DEF Listable, Keys, Copied

\* The HubControlPlane depends on nothing but what the caches have of the objects
\* that it lists.
LEMMA SamePlane ==
    ASSUME \A k \in Listable : cache'[k] = cache[k]
    PROVE  HubControlPlane' = HubControlPlane
<1>1. \A a : Listed(a)' = Listed(a)
  BY DEF Listed, Listable
<1>2. {k \in Addons : cache'[k] # Absent} = {k \in Addons : cache[k] # Absent}
  BY DEF Listable
<1> QED BY <1>1, <1>2 DEF HubControlPlane

\* A HubControlPlane that lists something has it from the caches.
LEMMA PlaneLists ==
    ASSUME HubControlPlane # EmptyControlPlane
    PROVE  \E k \in Listable : cache[k] # Absent
<1> SUFFICES ASSUME \A k \in Listable : cache[k] = Absent PROVE FALSE
  OBVIOUS
<1>1. \A a : Listed(a) = {}
  BY DEF Listed, Listable
<1>2. {k \in Addons : cache[k] # Absent} = {}
  BY DEF Listable
<1> QED BY <1>1, <1>2 DEF HubControlPlane, EmptyControlPlane

\* An object that is written is not absent.
LEMMA WrittenIsPresent ==
    ASSUME Typed, NEW avail
    PROVE  [gen |-> writes + 1, avail |-> avail] # Absent
<1>1. writes \in Nat
  BY StatusAssumption DEF Typed, TypeOK
<1>2. writes + 1 # 0
  BY <1>1
<1> QED BY <1>2 DEF Absent

\* No object of the regional hub disappears.
LEMMA SourceStays ==
    ASSUME PlaneUndisturbed, Typed, [Next]_vars, NEW k \in Keys, source[k] # Absent
    PROVE  source'[k] # Absent
<1>t. source \in [Keys -> Objects]
  BY DEF Typed, TypeOK
<1>1. ASSUME NEW j \in Keys, NEW avail \in Availabilities, SourceWrite(j, avail)
      PROVE  source'[k] # Absent
  <2>1. source' = [source EXCEPT ![j] = [gen |-> writes + 1, avail |-> avail]]
    BY <1>1 DEF SourceWrite
  <2> QED BY <1>t, <2>1, WrittenIsPresent
<1>2. ASSUME NEW j \in Keys, SourceDelete(j) PROVE FALSE
  BY <1>2 DEF SourceDelete, PlaneUndisturbed
<1>3. ASSUME NEW v \in Workers, CarriesOn(v) PROVE source' = source
  BY <1>3, CarryOn
<1> QED BY <1>1, <1>2, <1>3
        DEF Next, vars, external, CarriesOn, SourceSpecWrite, InformerStep, Handle,
            HandleTombstone, Backoff, GetItem, FinishItem, TargetTouch, Relist, Crash, Start

\* The watch adds an event of an object that is there.
LEMMA WatchVanishes ==
    ASSUME Typed, NothingVanishes, NEW k \in Keys, NEW o \in Objects, o # Absent,
           Watch(k, "modified", o), cache' = cache,
           \A j \in Keys : source[j] # Absent => source'[j] # Absent
    PROVE  NothingVanishes'
<1> DEFINE e == [type |-> "modified", obj |-> o]
<1>1. stream \in [Keys -> Seq(I!Events(Objects))] /\ e \in I!Events(Objects)
  BY DEF Typed, TypeOK, I!Events, I!EventTypes
<1>2. I!CacheAfter(e) # Absent
  BY DEF I!CacheAfter
<1>3. stream' = stream \/ stream' = [stream EXCEPT ![k] = Append(stream[k], e)]
  BY DEF Watch
<1> HIDE DEF e
<1> SUFFICES ASSUME NEW j \in Keys, NEW i \in 1..Len(stream'[j])
             PROVE  I!CacheAfter(stream'[j][i]) # Absent
  BY DEF NothingVanishes
<1>4. CASE stream'[j] = stream[j]
  BY <1>4 DEF NothingVanishes
<1>5. CASE stream'[j] # stream[j]
  <2>1. j = k /\ stream'[k] = Append(stream[k], e)
    BY <1>1, <1>3, <1>5
  <2>2. /\ Len(stream[k]) \in Nat
        /\ Len(stream'[k]) = Len(stream[k]) + 1
        /\ \A n \in 1..Len(stream[k]) : stream'[k][n] = stream[k][n]
        /\ stream'[k][Len(stream[k]) + 1] = e
    BY <1>1, <2>1, AppendElements
  <2>3. i = Len(stream[k]) + 1 \/ i \in 1..Len(stream[k])
    BY <2>1, <2>2
  <2> QED BY <1>2, <2>1, <2>2, <2>3 DEF NothingVanishes
<1> QED BY <1>4, <1>5

\* Every step leaves nothing in the cache, or on its way there, without an object.
LEMMA NextVanishes ==
    ASSUME PlaneUndisturbed
    PROVE  Typed /\ StoppedIsEmpty /\ CacheFollows /\ NothingVanishes /\ [Next]_vars
               => NothingVanishes'
<1> SUFFICES ASSUME Typed, StoppedIsEmpty, CacheFollows, NothingVanishes, [Next]_vars
             PROVE  NothingVanishes'
  OBVIOUS
<1>t. /\ stream \in [Keys -> Seq(I!Events(Objects))]
      /\ source \in [Keys -> Objects]
      /\ cache \in [Keys -> Objects]
  BY DEF Typed, TypeOK
<1>s. \A k \in Keys : source[k] # Absent => source'[k] # Absent
  BY SourceStays
<1>1. ASSUME NEW k \in Keys, NEW avail \in Availabilities, SourceWrite(k, avail)
      PROVE  NothingVanishes'
  <2> DEFINE o == [gen |-> writes + 1, avail |-> avail]
  <2>1. o \in Objects
    BY StatusAssumption DEF Typed, TypeOK, Objects
  <2>2. o # Absent
    BY WrittenIsPresent
  <2>3. Watch(k, "modified", o) /\ cache' = cache
    BY <1>1 DEF SourceWrite
  <2> HIDE DEF o
  <2> QED BY <1>s, <2>1, <2>2, <2>3, WatchVanishes
<1>2. ASSUME NEW k \in Keys, SourceSpecWrite(k)
      PROVE  NothingVanishes'
  BY <1>2, <1>s, <1>t, WatchVanishes DEF SourceSpecWrite
<1>3. ASSUME NEW k \in Keys, SourceDelete(k) PROVE FALSE
  BY <1>3 DEF SourceDelete, PlaneUndisturbed
<1>4. ASSUME NEW k \in Keys, InformerStep(k)
      PROVE  NothingVanishes'
  <2> DEFINE s == stream[k]
  <2>1. /\ s \in Seq(I!Events(Objects)) /\ s # <<>>
        /\ source' = source /\ running
    BY <1>4, <1>t DEF InformerStep, external, StoppedIsEmpty
  <2>2. /\ stream' = [stream EXCEPT ![k] = Tail(s)]
        /\ cache' = [cache EXCEPT ![k] = I!CacheAfter(Head(s))]
    BY <1>4 DEF InformerStep
  <2>3. /\ Len(s) \in Nat \ {0}
        /\ Len(Tail(s)) = Len(s) - 1
        /\ \A i \in 1..Len(s) - 1 : Tail(s)[i] = s[i + 1]
    BY <2>1, TailElements
  <2>4. source[k] # Absent
    <3>1. I!CacheAfter(s[Len(s)]) = source[k]
      BY <2>1 DEF CacheFollows, Follows
    <3>2. Len(s) \in 1..Len(s)
      BY <2>3
    <3> QED BY <3>1, <3>2 DEF NothingVanishes
  <2>5. ASSUME NEW j \in Keys PROVE cache'[j] # Absent => source'[j] # Absent
    BY <1>t, <2>1, <2>2, <2>4 DEF NothingVanishes
  <2>6. ASSUME NEW j \in Keys, NEW i \in 1..Len(stream'[j])
        PROVE  I!CacheAfter(stream'[j][i]) # Absent
    <3>1. CASE j = k
      <4>1. stream'[j] = Tail(s)
        BY <1>t, <2>2, <3>1
      <4>2. i + 1 \in 1..Len(s) /\ stream'[j][i] = s[i + 1]
        BY <2>3, <4>1
      <4> QED BY <4>2 DEF NothingVanishes
    <3>2. CASE j # k
      <4>1. stream'[j] = stream[j]
        BY <1>t, <2>2, <3>2
      <4> QED BY <4>1 DEF NothingVanishes
    <3> QED BY <3>1, <3>2
  <2> QED BY <2>5, <2>6 DEF NothingVanishes
<1>5. CASE NoProcess
  <2> SUFFICES ASSUME NEW k \in Keys
               PROVE  /\ cache'[k] = Absent
                      /\ \A i \in 1..Len(stream'[k]) : I!CacheAfter(stream'[k][i]) # Absent
    BY DEF NothingVanishes
  <2>1. cache'[k] = Absent /\ stream'[k] = <<>>
    BY <1>5 DEF NoProcess
  <2>2. Len(stream'[k]) = 0
    BY <2>1
  <2> QED BY <2>1, <2>2
<1>6. CASE Relist \/ Start
  <2> SUFFICES ASSUME NEW k \in Keys, NEW i \in 1..Len(stream'[k])
               PROVE  I!CacheAfter(stream'[k][i]) # Absent
    BY <1>6 DEF NothingVanishes, Relist, Start, external
  <2>1. /\ source[k] # Absent
        /\ \E t \in {"initial", "replaced"} :
              stream'[k] = <<[type |-> t, obj |-> source[k]]>>
    <3>1. stream'[k] = I!ReList(source[k], cache[k]) \/ stream'[k] = I!FirstList(source[k])
      BY <1>6 DEF Relist, Start
    <3>2. source[k] = Absent => stream'[k] = <<>>
      BY <3>1 DEF NothingVanishes, I!ReList, I!FirstList
    <3>3. source[k] # Absent
      BY <3>2
    <3> QED BY <3>1, <3>3 DEF I!ReList, I!FirstList
  <2>2. PICK t \in {"initial", "replaced"} :
            stream'[k] = <<[type |-> t, obj |-> source[k]]>>
    BY <2>1
  <2>3. stream'[k][i] = [type |-> t, obj |-> source[k]]
    BY <2>2
  <2> QED BY <2>1, <2>3 DEF I!CacheAfter
<1>7. CASE UNCHANGED <<source, stream, cache>>
  BY <1>7 DEF NothingVanishes
<1>8. ASSUME NEW v \in Workers, CarriesOn(v)
      PROVE  NothingVanishes'
  BY <1>7, <1>8, CarryOn DEF informer
<1> QED BY <1>1, <1>2, <1>3, <1>4, <1>5, <1>6, <1>7, <1>8
        DEF Next, vars, external, informer, CarriesOn, Handle, HandleTombstone, Backoff,
            GetItem, FinishItem, Crash, TargetTouch

\* What a worker that carries on does for the HubControlPlane, phase by phase.
LEMMA CarryOnPlane ==
    ASSUME PlaneUndisturbed, Typed, NEW v \in Workers, CarriesOn(v)
    PROVE  \/ /\ worker[v].pc = "process" /\ hcp' = hcp /\ contested' = contested
              /\ worker'[v].pc \in {"failed", "get", "hcp"}
              /\ worker'[v].pc = "get" => worker[v].key \in Policies
              /\ worker'[v].hcp = worker[v].hcp
           \/ /\ worker[v].pc = "hcp" /\ hcp' = hcp
              /\ worker'[v].pc = "hcpMain"
              /\ worker'[v].hcp = HubControlPlane
              /\ (\E u \in Workers : Applying(u)) => contested' = TRUE
           \/ /\ worker[v].pc = "hcpMain" /\ hcp' = hcp /\ contested' = contested
              /\ worker'[v].pc = "hcpStatus"
              /\ worker'[v].hcp = worker[v].hcp
           \/ /\ worker[v].pc = "hcpStatus" /\ hcp' = worker[v].hcp /\ contested' = contested
              /\ worker'[v].pc \in {"get", "done"}
              /\ worker'[v].hcp = worker[v].hcp
           \/ /\ worker[v].pc \in {"get", "update", "applyMain", "applyStatus"}
              /\ hcp' = hcp /\ contested' = contested
              /\ worker'[v].pc \in {"update", "applyMain", "applyStatus", "done", "failed"}
              /\ worker'[v].hcp = worker[v].hcp
           \/ /\ Applying(v) /\ hcp' \in {hcp, worker[v].hcp} /\ contested' = TRUE
              /\ worker'[v].pc \in {"get", "done"}
              /\ worker'[v].hcp = worker[v].hcp
<1>1. worker[v] \in WorkerTypes /\ worker \in [Workers -> WorkerTypes]
  BY DEF Typed, TypeOK, WorkerTypes
<1>m. ASSUME NEW pc, Move(v, pc)
      PROVE  worker'[v].pc = pc /\ worker'[v].hcp = worker[v].hcp
  BY <1>m, <1>1 DEF Move, WorkerTypes
<1>2. CASE Process(v)
  <2> DEFINE k == worker[v].key
             pc == IF cache[k] = Absent THEN "failed"
                   ELSE IF k \in Policies THEN "get" ELSE "hcp"
  <2>1. worker' = [worker EXCEPT ![v] = [worker[v] EXCEPT !.obj = cache[k], !.pc = pc]]
    BY <1>2 DEF Process
  <2>2. worker'[v].pc = pc /\ worker'[v].hcp = worker[v].hcp
    BY <1>1, <2>1 DEF WorkerTypes
  <2> QED BY <1>2, <2>2 DEF Process, external
<1>3. CASE ComputeHubControlPlane(v)
  <2>1. worker' = [worker EXCEPT ![v] = [worker[v] EXCEPT !.pc = "hcpMain",
                                                         !.hcp = HubControlPlane]]
    BY <1>3 DEF ComputeHubControlPlane, PlaneUndisturbed
  <2>2. worker'[v].pc = "hcpMain" /\ worker'[v].hcp = HubControlPlane
    BY <1>1, <2>1 DEF WorkerTypes
  <2>3. contested' = (\E u \in Workers : Applying(u))
    BY <1>3 DEF ComputeHubControlPlane
  <2>4. (\E u \in Workers : Applying(u)) => contested' = TRUE
    BY <2>3
  <2> QED BY <1>3, <2>2, <2>4 DEF ComputeHubControlPlane, external
<1>4. CASE ApplyHubControlPlane(v)
  BY <1>4, <1>m DEF ApplyHubControlPlane, external, history
<1>5. CASE ApplyHubControlPlaneStatus(v)
  <2>1. Move(v, "get") \/ Move(v, "done")
    BY <1>5 DEF ApplyHubControlPlaneStatus, AfterHubControlPlane
  <2> QED BY <1>5, <1>m, <2>1 DEF ApplyHubControlPlaneStatus, history
<1>6. CASE GetCopy(v)
  <2>1. CASE worker[v].key \in Policies /\ target[worker[v].key].exists
    <3>1. worker' = [worker EXCEPT ![v] = [worker[v] EXCEPT !.pc = "update",
                                             !.rv = target[worker[v].key].rv]]
      BY <1>6, <2>1 DEF GetCopy
    <3>2. worker'[v].pc = "update" /\ worker'[v].hcp = worker[v].hcp
      BY <1>1, <3>1 DEF WorkerTypes
    <3> QED BY <1>6, <3>2 DEF GetCopy, external, history
  <2>2. CASE ~(worker[v].key \in Policies /\ target[worker[v].key].exists)
    <3>1. Move(v, "applyMain")
      BY <1>6, <2>2 DEF GetCopy, Move
    <3> QED BY <1>6, <1>m, <3>1 DEF GetCopy, external, history
  <2> QED BY <2>1, <2>2
<1>7. CASE UpdateStatus(v)
  <2>1. Move(v, "done") \/ Move(v, "failed")
    BY <1>7 DEF UpdateStatus
  <2> QED BY <1>7, <1>m, <2>1 DEF UpdateStatus, history
<1>8. CASE ApplyMain(v)
  BY <1>8, <1>m DEF ApplyMain, history
<1>9. CASE ApplyStatus(v)
  BY <1>9, <1>m DEF ApplyStatus, history
<1>10. ASSUME NEW done \in BOOLEAN, RequestFails(v, done), ~Applying(v)
       PROVE  /\ worker[v].pc \in {"get", "update", "applyMain", "applyStatus"}
              /\ hcp' = hcp /\ contested' = contested
              /\ worker'[v].pc \in {"done", "failed"}
              /\ worker'[v].hcp = worker[v].hcp
  <2>1. worker[v].pc \in {"get", "update", "applyMain", "applyStatus"}
    BY <1>10, StatusAssumption DEF RequestFails, Requests, Applying
  <2>2. Move(v, "done") \/ Move(v, "failed")
    BY <1>10, <2>1 DEF RequestFails
  <2>3. hcp' = hcp
    BY <1>10, <2>1 DEF RequestFails
  <2>4. contested' = (contested \/ Applying(v)) /\ contested \in BOOLEAN
    BY <1>10 DEF RequestFails, Typed, TypeOK
  <2>5. contested' = contested
    BY <1>10, <2>4
  <2> QED BY <1>m, <2>1, <2>2, <2>3, <2>5
<1>11. ASSUME NEW done \in BOOLEAN, RequestFails(v, done), Applying(v)
       PROVE  /\ hcp' \in {hcp, worker[v].hcp} /\ contested' = TRUE
              /\ worker'[v].pc \in {"get", "done"}
              /\ worker'[v].hcp = worker[v].hcp
  <2>1. Move(v, "get") \/ Move(v, "done")
    BY <1>11 DEF RequestFails, Applying, AfterHubControlPlane
  <2>2. hcp' \in {hcp, worker[v].hcp}
    BY <1>11 DEF RequestFails
  <2>3. contested' = (contested \/ Applying(v))
    BY <1>11 DEF RequestFails
  <2>4. contested' = TRUE
    BY <1>11, <2>3
  <2> QED BY <1>m, <2>1, <2>2, <2>4
<1> QED BY <1>2, <1>3, <1>4, <1>5, <1>6, <1>7, <1>8, <1>9, <1>10, <1>11 DEF CarriesOn, WorkerStep

\* Every step leaves a reason for what the HubControlPlane lists.
LEMMA NextReason ==
    ASSUME PlaneUndisturbed
    PROVE  Typed /\ NothingVanishes /\ PlaneHasReason /\ [Next]_vars => PlaneHasReason'
<1> DEFINE Reason == \E k \in Listable : source[k] # Absent
           Listing == \/ hcp # EmptyControlPlane
                      \/ \E w \in Workers : worker[w].hcp # EmptyControlPlane
<1> SUFFICES ASSUME Typed, NothingVanishes, PlaneHasReason, [Next]_vars, Listing'
             PROVE  Reason'
  BY DEF PlaneHasReason
<1>1. Reason => Reason'
  BY SourceStays, ListableKeys
<1>2. Listing => Reason
  BY DEF PlaneHasReason
<1>3. HubControlPlane # EmptyControlPlane => Reason
  BY PlaneLists, ListableKeys DEF NothingVanishes
<1> HIDE DEF Reason
<1>4. ASSUME NEW v \in Workers, CarriesOn(v) PROVE Reason
  <2>1. hcp' \in {hcp, worker[v].hcp}
    BY <1>4, CarryOnPlane
  <2>2. worker'[v].hcp \in {worker[v].hcp, HubControlPlane}
    BY <1>4, CarryOnPlane
  <2>3. \A w \in Workers : w # v => worker'[w] = worker[w]
    BY <1>4, CarryOn
  <2> QED BY <1>2, <1>3, <2>1, <2>2, <2>3
<1>5. ASSUME NEW v \in Workers, FinishItem(v) PROVE Listing
  <2>1. hcp' = hcp
    BY <1>5 DEF FinishItem, external
  <2>2. \A w \in Workers : worker'[w] \in {worker[w], IdleWorker}
    BY <1>5 DEF FinishItem, Typed, TypeOK
  <2> QED BY <2>1, <2>2 DEF IdleWorker
<1>6. ASSUME NEW v \in Workers, NEW k \in Keys, GetItem(v, k) PROVE Listing
  <2>1. worker \in [Workers -> WorkerTypes]
    BY DEF Typed, TypeOK, WorkerTypes
  <2>2. hcp' = hcp
    BY <1>6 DEF GetItem, external
  <2>3. worker' = [worker EXCEPT ![v] = [worker[v] EXCEPT !.pc = "process", !.key = k]]
    BY <1>6 DEF GetItem
  <2>4. \A w \in Workers : worker'[w].hcp = worker[w].hcp
    BY <2>1, <2>3 DEF WorkerTypes
  <2> QED BY <2>2, <2>4
<1>7. ASSUME NoProcess, hcp' = hcp PROVE Listing
  BY <1>7 DEF NoProcess, IdleWorker
<1>8. ASSUME hcp' = hcp, worker' = worker PROVE Listing
  BY <1>8
<1> HIDE DEF Listing
<1> QED BY <1>1, <1>2, <1>4, <1>5, <1>6, <1>7, <1>8
        DEF Next, vars, external, CarriesOn, SourceWrite, SourceSpecWrite, SourceDelete,
            TargetTouch, InformerStep, Handle, HandleTombstone, Backoff, Relist, Crash, Start

\* An event of a listable object that changes the cache will be handled and
\* queue the object.
LEMMA InformerCompute ==
    ASSUME Typed, NothingVanishes, NEW k \in Listable, InformerStep(k)
    PROVE  /\ cache'[k] # Absent
           /\ cache'[k] # cache[k] => Notified(k)'
           /\ Notified(k) => Notified(k)'
<1> DEFINE e == Head(stream[k])
           n == I!NotificationOf(e, cache[k])
           s == notify[k]
<1>0. k \in Keys /\ k \notin OtherCrds
  BY ListableKeys
<1>1. /\ e \in I!Events(Objects)
      /\ s \in Seq(I!Notifications(Objects))
      /\ cache[k] \in Objects
      /\ stream[k] \in Seq(I!Events(Objects)) /\ stream[k] # <<>>
  BY <1>0 DEF InformerStep, Typed, TypeOK
<1>2. n \in I!Notifications(Objects)
  BY <1>1, InformerTypes
<1>3. cache'[k] = I!CacheAfter(e) /\ notify'[k] = Append(s, n)
  BY <1>0 DEF InformerStep, Typed, TypeOK
<1>4. cache'[k] # Absent
  <2>1. e = stream[k][1] /\ Len(stream[k]) \in Nat \ {0}
    BY <1>1, TailElements
  <2>2. 1 \in 1..Len(stream[k])
    BY <2>1
  <2> QED BY <1>0, <1>3, <2>1, <2>2 DEF NothingVanishes
<1>5. n = [type |-> IF cache[k] = Absent THEN "add" ELSE "update",
           old |-> cache[k], new |-> cache'[k]]
  BY <1>3, <1>4 DEF I!NotificationOf, I!CacheAfter
<1> HIDE DEF n, s
<1>6. /\ Len(s) \in Nat
      /\ Len(notify'[k]) = Len(s) + 1
      /\ \A i \in 1..Len(s) : notify'[k][i] = s[i]
      /\ notify'[k][Len(s) + 1] = n
  BY <1>1, <1>2, <1>3, AppendElements
<1>7. ASSUME cache'[k] # cache[k] PROVE Notified(k)'
  <2>1. ShouldEnqueue(k, n)
    BY <1>0, <1>5, <1>7 DEF ShouldEnqueue, deepEqualStatus
  <2>2. Len(s) + 1 \in 1..Len(notify'[k])
    BY <1>6
  <2> QED BY <1>6, <2>1, <2>2 DEF Notified
<1>8. ASSUME Notified(k) PROVE Notified(k)'
  <2>1. PICK i \in 1..Len(s) : ShouldEnqueue(k, s[i])
    BY <1>8 DEF Notified, s
  <2>2. i \in 1..Len(notify'[k]) /\ notify'[k][i] = s[i]
    BY <1>6
  <2> QED BY <2>1, <2>2 DEF Notified
<1> QED BY <1>4, <1>7, <1>8

\* A handler queues an object that it is to be told of, or will.
LEMMA HandleCompute ==
    ASSUME Typed, NEW k \in Keys, Handle(k), Notified(k)
    PROVE  Notified(k)' \/ k \in queue'.dirty
<1> DEFINE s == notify[k]
           t == Tail(s)
<1>1. s \in Seq(I!Notifications(Objects)) /\ s # <<>>
  BY DEF Handle, Typed, TypeOK
<1>2. notify'[k] = t
  BY DEF Handle, Typed, TypeOK
<1>3. CASE ShouldEnqueue(k, Head(s))
  BY <1>3, HandleQueue
<1>4. CASE ~ShouldEnqueue(k, Head(s))
  <2>1. /\ Len(s) \in Nat \ {0}
        /\ Len(t) = Len(s) - 1
        /\ \A i \in 1..Len(s) - 1 : t[i] = s[i + 1]
        /\ Head(s) = s[1]
    BY <1>1, TailElements
  <2> HIDE DEF t
  <2>2. PICK i \in 1..Len(s) : ShouldEnqueue(k, s[i])
    BY DEF Notified
  <2>3. i # 1
    BY <1>4, <2>1, <2>2
  <2>4. i - 1 \in 1..Len(t) /\ t[i - 1] = s[i]
    BY <2>1, <2>3
  <2> QED BY <1>2, <2>2, <2>4 DEF Notified
<1> QED BY <1>3, <1>4

\* A step outside the workers leaves the HubControlPlane coming unless it changes
\* what the caches have of an object that is listed.
LEMMA PlaneStays ==
    ASSUME PlaneComing, hcp' = hcp, worker' = worker,
           \A k \in Listable : cache'[k] = cache[k]
    PROVE  PlaneComing'
<1>1. HubControlPlane' = HubControlPlane
  BY SamePlane
<1> QED BY <1>1 DEF PlaneComing, Applying

\* A worker that has nothing to do with the HubControlPlane leaves it coming.
LEMMA PlaneBeside ==
    ASSUME NEW v \in Workers, PlaneComing, hcp' = hcp, HubControlPlane' = HubControlPlane,
           ~Applying(v), ~Applying(v)', \A w \in Workers : w # v => worker'[w] = worker[w]
    PROVE  PlaneComing'
<1>1. \A u \in Workers : Applying(u)' <=> Applying(u)
  BY DEF Applying
<1>2. \A u \in Workers : Applying(u) => worker'[u].hcp = worker[u].hcp
  OBVIOUS
<1> QED BY <1>1, <1>2 DEF PlaneComing

\* A worker that carries on computes the HubControlPlane, or brings it on its way,
\* or makes it contested.
LEMMA CarryOnCompute ==
    ASSUME PlaneUndisturbed, Typed, NEW v \in Workers, CarriesOn(v),
           \/ \E k \in Listable : WillCompute(k)
           \/ contested = TRUE
           \/ PlaneComing
    PROVE  \/ \E k \in Listable : WillCompute(k)'
           \/ contested' = TRUE
           \/ PlaneComing'
<1>1. UNCHANGED <<source, cache, notify, queue>> /\ worker'[v].key = worker[v].key
  BY CarryOn DEF informer
<1>2. HubControlPlane' = HubControlPlane
  BY <1>1, SamePlane
<1>3. \A w \in Workers : w # v => worker'[w] = worker[w]
  BY CarryOn
<1>4. ASSUME worker[v].pc = "hcp" PROVE contested' = TRUE \/ PlaneComing'
  <2>1. /\ worker'[v].pc = "hcpMain" /\ worker'[v].hcp = HubControlPlane
        /\ (\E u \in Workers : Applying(u)) => contested' = TRUE
    BY <1>4, CarryOnPlane DEF Applying
  <2>2. CASE \A u \in Workers : ~Applying(u)
    <3>1. Applying(v)' /\ \A u \in Workers : Applying(u)' => u = v
      BY <1>3, <2>1, <2>2 DEF Applying
    <3> QED BY <1>2, <2>1, <3>1 DEF PlaneComing
  <2> QED BY <2>1, <2>2
<1>5. ASSUME NEW k \in Listable, WillCompute(k), worker[v].pc # "hcp"
      PROVE  WillCompute(k)'
  <2>1. CASE worker[v].key = k /\ worker[v].pc \in {"process", "failed"}
    <3>1. worker'[v].pc \in {"failed", "hcp"}
      BY <2>1, CarryOnPlane, ListableKeys DEF Applying
    <3> QED BY <1>1, <2>1, <3>1 DEF WillCompute
  <2>2. CASE ~(worker[v].key = k /\ worker[v].pc \in {"process", "failed"})
    BY <1>1, <1>3, <1>5, <2>2 DEF WillCompute, Notified
  <2> QED BY <2>1, <2>2
<1>6. ASSUME contested = TRUE, worker[v].pc # "hcp" PROVE contested' = TRUE
  BY <1>6, CarryOnPlane
<1>7. ASSUME PlaneComing, worker[v].pc # "hcp" PROVE contested' = TRUE \/ PlaneComing'
  <2>1. CASE Applying(v)
    <3>1. /\ worker[v].hcp = HubControlPlane
          /\ \A u \in Workers : Applying(u) => u = v
      BY <1>7, <2>1 DEF PlaneComing
    <3>2. \/ contested' = TRUE
          \/ worker'[v].pc = "hcpStatus" /\ worker'[v].hcp = worker[v].hcp
          \/ worker'[v].pc \in {"get", "done"} /\ hcp' = worker[v].hcp
      BY <2>1, CarryOnPlane DEF Applying
    <3>3. CASE worker'[v].pc = "hcpStatus" /\ worker'[v].hcp = worker[v].hcp
      <4>1. Applying(v)' /\ \A u \in Workers : Applying(u)' => u = v
        BY <1>3, <3>1, <3>3 DEF Applying
      <4> QED BY <1>2, <3>1, <3>3, <4>1 DEF PlaneComing
    <3>4. CASE worker'[v].pc \in {"get", "done"} /\ hcp' = worker[v].hcp
      <4>1. \A u \in Workers : ~Applying(u)'
        BY <1>3, <3>1, <3>4 DEF Applying
      <4> QED BY <1>2, <3>1, <3>4, <4>1 DEF PlaneComing
    <3> QED BY <3>2, <3>3, <3>4
  <2>2. CASE ~Applying(v)
    <3>1. hcp' = hcp /\ ~Applying(v)'
      BY <1>7, <2>2, CarryOnPlane DEF Applying
    <3> QED BY <1>2, <1>3, <1>7, <2>2, <3>1, PlaneBeside
  <2> QED BY <2>1, <2>2
<1> QED BY <1>4, <1>5, <1>6, <1>7

\* Every step leaves the HubControlPlane as the caches make it, or on its way.
LEMMA NextPlane ==
    ASSUME PlaneUndisturbed
    PROVE  Typed /\ StoppedIsEmpty /\ NothingVanishes /\ PlaneHasReason /\ PlanePending
               /\ [Next]_vars => PlanePending'
<1> DEFINE Coming == \/ \E k \in Listable : WillCompute(k)
                     \/ contested = TRUE
                     \/ PlaneComing
<1> SUFFICES ASSUME Typed, StoppedIsEmpty, NothingVanishes, PlaneHasReason, PlanePending,
                    [Next]_vars, running'
             PROVE  Coming'
  BY DEF PlanePending
<1>r. running => Coming
  BY DEF PlanePending
<1>k. \A k \in Listable : k \in Keys
  BY ListableKeys
<1>1. ASSUME running, \A k \in Listable : WillCompute(k) => WillCompute(k)',
             hcp' = hcp, contested' = contested, worker' = worker,
             \A k \in Listable : cache'[k] = cache[k]
      PROVE  Coming'
  BY <1>r, <1>1, PlaneStays
<1>2. CASE Start
  <2>1. /\ \A k \in Listable : cache'[k] = Absent
        /\ UNCHANGED <<source, hcp>>
        /\ \A w \in Workers : worker'[w] = IdleWorker
    BY <1>2, <1>k DEF Start, StoppedIsEmpty, external
  <2>2. CASE \E k \in Listable : source[k] # Absent
    BY <2>1, <2>2 DEF WillCompute
  <2>3. CASE \A k \in Listable : source[k] = Absent
    <3>1. hcp = EmptyControlPlane
      BY <2>3 DEF PlaneHasReason
    <3>2. HubControlPlane' = EmptyControlPlane
      <4>1. HubControlPlane' # EmptyControlPlane => \E k \in Listable : cache'[k] # Absent
        <5>1. \A a : (\A k \in Listable : cache'[k] = Absent) => Listed(a)' = {}
          BY DEF Listed, Listable
        <5>2. {k \in Addons : cache'[k] # Absent} = {}
          BY <2>1 DEF Listable
        <5> QED BY <2>1, <5>1, <5>2 DEF HubControlPlane, EmptyControlPlane
      <4> QED BY <2>1, <4>1
    <3> QED BY <2>1, <3>1, <3>2 DEF PlaneComing, Applying, IdleWorker
  <2> QED BY <2>2, <2>3
<1>3. ASSUME NEW j \in Keys, InformerStep(j)
      PROVE  Coming'
  <2>1. running /\ UNCHANGED <<source, hcp, contested, queue, worker>>
    BY <1>3 DEF InformerStep, StoppedIsEmpty, external, history
  <2>2. \A k \in Listable : k # j => cache'[k] = cache[k] /\ notify'[k] = notify[k]
    BY <1>3, <1>k DEF InformerStep, Typed, TypeOK
  <2>3. CASE j \in Listable /\ cache'[j] # cache[j]
    <3>1. Notified(j)'
      BY <1>3, <2>3, InformerCompute
    <3> QED BY <2>3, <3>1 DEF WillCompute
  <2>4. CASE ~(j \in Listable /\ cache'[j] # cache[j])
    <3>1. \A k \in Listable : cache'[k] = cache[k]
      BY <2>2, <2>4
    <3>2. \A k \in Listable : Notified(k) => Notified(k)'
      BY <1>3, <2>2, InformerCompute DEF Notified
    <3>3. \A k \in Listable : WillCompute(k) => WillCompute(k)'
      BY <2>1, <3>1, <3>2 DEF WillCompute
    <3> QED BY <1>1, <2>1, <3>1, <3>3
  <2> QED BY <2>3, <2>4
<1>4. ASSUME NEW j \in Keys, Handle(j)
      PROVE  Coming'
  <2>1. running /\ UNCHANGED <<source, hcp, contested, cache, worker>>
    BY <1>4 DEF Handle, StoppedIsEmpty, external, history
  <2>2. queue'.delayed = queue.delayed /\ queue.dirty \subseteq queue'.dirty
    BY <1>4, HandleQueue
  <2>3. \A k \in Listable : k # j => notify'[k] = notify[k]
    BY <1>4, <1>k DEF Handle, Typed, TypeOK
  <2>4. \A k \in Listable : Notified(k) => Notified(k)' \/ k \in queue'.dirty
    BY <1>4, <2>3, HandleCompute DEF Notified
  <2>5. \A k \in Listable : WillCompute(k) => WillCompute(k)'
    BY <2>1, <2>2, <2>4 DEF WillCompute
  <2> QED BY <1>1, <2>1, <2>5
<1>5. ASSUME NEW j \in Keys, Backoff(j)
      PROVE  Coming'
  <2>1. UNCHANGED <<source, hcp, contested, cache, notify, worker>>
    BY <1>5 DEF Backoff, external, informer, history
  <2>2. running
    BY <1>5 DEF Backoff, StoppedIsEmpty, EmptyQueue, Queue
  <2>3. queue.dirty \cup queue.delayed \subseteq queue'.dirty \cup queue'.delayed
    <3>1. /\ BackoffOver(queue, j).dirty = queue.dirty \cup {j}
          /\ BackoffOver(queue, j).delayed = queue.delayed \ {j}
      BY DEF BackoffOver, Queue
    <3>2. queue' = BackoffOver(queue, j)
      BY <1>5 DEF Backoff
    <3> QED BY <3>1, <3>2
  <2>4. \A k \in Listable : WillCompute(k) => WillCompute(k)'
    BY <2>1, <2>3 DEF WillCompute, Notified
  <2> QED BY <1>1, <2>1, <2>2, <2>4
<1>6. ASSUME NEW j \in Keys, NEW v \in Workers, GetItem(v, j)
      PROVE  Coming'
  <2>1. UNCHANGED <<source, hcp, contested, cache, notify>> /\ running
    BY <1>6 DEF GetItem, external, informer, history
  <2>2. /\ worker'[v].pc = "process" /\ worker'[v].key = j
        /\ \A w \in Workers : w # v => worker'[w] = worker[w]
        /\ queue'.dirty = queue.dirty \ {j} /\ queue'.delayed = queue.delayed
    BY <1>6, GetEffect
  <2>3. worker[v].pc = "idle"
    BY <1>6 DEF GetItem
  <2>4. ASSUME NEW k \in Listable, WillCompute(k) PROVE WillCompute(k)'
    BY <2>1, <2>2, <2>3, <2>4 DEF WillCompute, Notified
  <2>5. HubControlPlane' = HubControlPlane
    BY <2>1, SamePlane
  <2>6. PlaneComing => PlaneComing'
    <3>1. ~Applying(v) /\ ~Applying(v)'
      BY <2>2, <2>3 DEF Applying
    <3> QED BY <2>1, <2>2, <2>5, <3>1, PlaneBeside
  <2> QED BY <1>r, <2>1, <2>4, <2>6
<1>7. ASSUME NEW v \in Workers, CarriesOn(v)
      PROVE  Coming'
  <2>1. worker[v].pc # "idle"
    BY <1>7, CarryOn
  <2>2. running
    BY <2>1 DEF StoppedIsEmpty, IdleWorker
  <2> QED BY <1>r, <1>7, <2>2, CarryOnCompute
<1>8. ASSUME NEW v \in Workers, FinishItem(v)
      PROVE  Coming'
  <2>1. UNCHANGED <<source, hcp, contested, cache, notify>> /\ worker[v].pc \in {"done", "failed"}
    BY <1>8 DEF FinishItem, external, informer, history
  <2>2. running
    BY <2>1 DEF StoppedIsEmpty, IdleWorker
  <2>3. /\ queue'.dirty = queue.dirty
        /\ queue'.delayed = IF worker[v].pc = "failed"
                            THEN queue.delayed \cup {worker[v].key}
                            ELSE queue.delayed
        /\ \A w \in Workers : w # v => worker'[w] = worker[w]
    BY <1>8, FinishEffect
  <2>4. worker'[v].pc = "idle"
    BY <1>8 DEF FinishItem, IdleWorker, Typed, TypeOK
  <2>5. ASSUME NEW k \in Listable, WillCompute(k) PROVE WillCompute(k)'
    BY <2>1, <2>3, <2>4, <2>5 DEF WillCompute, Notified
  <2>6. HubControlPlane' = HubControlPlane
    BY <2>1, SamePlane
  <2>7. PlaneComing => PlaneComing'
    <3>1. ~Applying(v) /\ ~Applying(v)'
      BY <2>1, <2>4 DEF Applying
    <3> QED BY <2>1, <2>3, <2>6, <3>1, PlaneBeside
  <2> QED BY <1>r, <2>1, <2>2, <2>5, <2>7
<1>9. CASE NoProcess
  BY <1>9 DEF NoProcess
<1>10. CASE running /\ UNCHANGED <<hcp, contested, cache, notify, queue, worker>>
  <2>1. \A k \in Listable : WillCompute(k) => WillCompute(k)'
    BY <1>10, <1>k, SourceStays DEF WillCompute, Notified
  <2> QED BY <1>1, <1>10, <2>1
<1> HIDE DEF Coming
<1> QED BY <1>2, <1>3, <1>4, <1>5, <1>6, <1>7, <1>8, <1>9, <1>10
        DEF Next, vars, external, informer, history, CarriesOn, SourceWrite, SourceSpecWrite,
            SourceDelete, TargetTouch, HandleTombstone, Relist, Crash

\* With POD_NAMESPACE set and nothing deleted, the HubControlPlane on the global hub
\* lists the managed clusters, by availability, and the addons as the regional hub
\* has them whenever the syncer has nothing left to do, unless the latest one was
\* contested: for any number of objects and of workers (cmd/syncer.go starts two) and
\* however often updates conflict, requests fail, watches break and the syncer
\* restarts, nothing but two workers that overtake each other and a failed apply makes
\* the HubControlPlane stale, and one that is computed alone makes up for it.
THEOREM PlaneInSync ==
    ASSUME PlaneUndisturbed
    PROVE  Spec => []ControlPlaneInSync
<1>1. Init => PlaneInv
  <2> SUFFICES ASSUME Init PROVE PlaneInv
    OBVIOUS
  <2>1. WorkSerialised
    BY EmptyQueueType DEF Init, WorkSerialised, IdleWorker
  <2>2. NothingVanishes
    <3> SUFFICES ASSUME NEW k \in Keys
                 PROVE  /\ cache[k] = Absent
                        /\ \A i \in 1..Len(stream[k]) : I!CacheAfter(stream[k][i]) # Absent
      BY DEF NothingVanishes
    <3>1. cache[k] = Absent /\ stream[k] = <<>>
      BY DEF Init
    <3>2. Len(stream[k]) = 0
      BY <3>1
    <3> QED BY <3>1, <3>2
  <2>3. PlaneHasReason
    BY DEF Init, PlaneHasReason, IdleWorker
  <2> QED BY <2>1, <2>2, <2>3, InitType
          DEF PlaneInv, Init, StoppedIsEmpty, CacheFollows, PlanePending
<1>2. PlaneInv /\ [Next]_vars => PlaneInv'
  BY NextTyped, NextSerialised, NextStopped, NextFollows, NextVanishes, NextReason, NextPlane
     DEF PlaneInv
<1>3. PlaneInv => ControlPlaneInSync
  <2> SUFFICES ASSUME PlaneInv, running, ~contested, \A k \in Keys : Quiet(k)
               PROVE  hcp = HubControlPlane /\ cache = source
    BY DEF ControlPlaneInSync
  <2>1. \A k \in Keys : cache[k] = source[k]
    BY DEF PlaneInv, CacheFollows, Follows, Quiet
  <2>2. cache = source
    BY <2>1 DEF PlaneInv, Typed, TypeOK
  <2>3. \A k \in Keys : k \notin queue.dirty /\ k \notin queue.delayed
                           /\ k \notin queue.processing
    BY DEF Quiet, Idle
  <2>4. \A w \in Workers : worker[w].pc = "idle"
    <3>1. \A w \in Workers : worker[w].key \in Keys \cup {NoKey}
      BY DEF PlaneInv, Typed, TypeOK
    <3>2. \A w \in Workers : worker[w].key = NoKey
      BY <2>3, <3>1 DEF PlaneInv, WorkSerialised
    <3> QED BY <3>2 DEF PlaneInv, Typed, WorkersKeyed
  <2>5. \A k \in Keys : ~Notified(k)
    <3> SUFFICES ASSUME NEW k \in Keys PROVE ~Notified(k)
      OBVIOUS
    <3>1. Len(notify[k]) = 0
      BY DEF Quiet
    <3> QED BY <3>1 DEF Notified
  <2>6. \A k \in Listable : ~WillCompute(k)
    BY <2>1, <2>3, <2>4, <2>5, ListableKeys DEF WillCompute
  <2>7. contested # TRUE
    OBVIOUS
  <2> QED BY <2>2, <2>4, <2>6, <2>7 DEF PlaneInv, PlanePending, PlaneComing, Applying
<1> QED BY <1>1, <1>2, <1>3, PTL DEF Spec

-------------------------------------------------------------------------------
(* The contents under way, as values.                                      *)

\* What an event makes of the cache is an object.
LEMMA EventContents == \A e \in I!Events(Objects) : I!CacheAfter(e) \in Objects
BY InformerTypes, AbsentType

\* The first list of an object produces at most one event.
LEMMA FirstListEvents ==
    ASSUME NEW o \in Objects, NEW i \in 1..Len(I!FirstList(o))
    PROVE  i = 1 /\ o # Absent /\ I!FirstList(o)[i] = [type |-> "initial", obj |-> o]
BY DEF I!FirstList

\* The watch only adds an event at the end of one stream.
LEMMA WatchEvents ==
    ASSUME Typed, NEW k \in Keys, NEW t \in I!EventTypes, NEW o \in Objects,
           Watch(k, t, o), NEW j \in Keys
    PROVE  /\ Len(stream[j]) \in Nat
           /\ \/ stream'[j] = stream[j]
              \/ /\ j = k
                 /\ Len(stream'[k]) = Len(stream[k]) + 1
                 /\ \A i \in 1..Len(stream[k]) : stream'[k][i] = stream[k][i]
                 /\ stream'[k][Len(stream[k]) + 1] = [type |-> t, obj |-> o]
<1> DEFINE e == [type |-> t, obj |-> o]
<1>1. stream \in [Keys -> Seq(I!Events(Objects))] /\ e \in I!Events(Objects)
  BY DEF Typed, TypeOK, I!Events
<1>2. Len(stream[j]) \in Nat
  BY <1>1, LenProperties
<1>3. CASE running /\ j = k
  <2>1. stream'[k] = Append(stream[k], e)
    BY <1>1, <1>3 DEF Watch
  <2> HIDE DEF e
  <2>2. /\ Len(stream'[k]) = Len(stream[k]) + 1
        /\ \A i \in 1..Len(stream[k]) : stream'[k][i] = stream[k][i]
        /\ stream'[k][Len(stream[k]) + 1] = e
    BY <1>1, <2>1, AppendElements
  <2> QED BY <1>2, <1>3, <2>2 DEF e
<1>4. CASE ~(running /\ j = k)
  <2>1. stream'[j] = stream[j]
    BY <1>1, <1>4 DEF Watch
  <2> QED BY <1>2, <2>1
<1> QED BY <1>3, <1>4

\* The informer only takes the first event of one stream.
LEMMA InformerEvents ==
    ASSUME Typed, NEW k \in Keys, InformerStep(k)
    PROVE  /\ \A j \in Keys : j # k => stream'[j] = stream[j] /\ cache'[j] = cache[j]
           /\ Len(stream[k]) \in Nat \ {0}
           /\ cache'[k] = I!CacheAfter(stream[k][1])
           /\ stream'[k] = Tail(stream[k])
           /\ Len(stream'[k]) = Len(stream[k]) - 1
           /\ \A i \in 1..Len(stream[k]) - 1 : stream'[k][i] = stream[k][i + 1]
<1>1. stream[k] \in Seq(I!Events(Objects)) /\ stream[k] # <<>>
  BY DEF InformerStep, Typed, TypeOK
<1>2. stream' = [stream EXCEPT ![k] = Tail(stream[k])]
  BY DEF InformerStep
<1>3. cache' = [cache EXCEPT ![k] = I!CacheAfter(Head(stream[k]))]
  BY DEF InformerStep
<1>4. stream'[k] = Tail(stream[k]) /\ cache'[k] = I!CacheAfter(Head(stream[k]))
  BY <1>2, <1>3 DEF Typed, TypeOK
<1>5. \A j \in Keys : j # k => stream'[j] = stream[j] /\ cache'[j] = cache[j]
  BY <1>2, <1>3 DEF Typed, TypeOK
<1> QED BY <1>1, <1>4, <1>5, TailElements

\* The contents that the cache goes through while it takes in the events s.
Later(s) == [i \in 1..Len(s) |-> I!CacheAfter(s[i])]

\* The contents of events are objects.
LEMMA LaterType ==
    ASSUME NEW s \in Seq(I!Events(Objects))
    PROVE  /\ Later(s) \in Seq(Objects)
           /\ Len(Later(s)) = Len(s)
           /\ \A i \in 1..Len(s) : Later(s)[i] = I!CacheAfter(s[i])
<1>1. Len(s) \in Nat /\ \A i \in 1..Len(s) : I!CacheAfter(s[i]) \in Objects
  BY EventContents, ElementOfSeq, LenProperties
<1>2. Later(s) \in [1..Len(s) -> Objects]
  BY <1>1 DEF Later
<1>3. Later(s) \in Seq(Objects)
  BY <1>1, <1>2, IsASeq DEF Later
<1>4. Len(Later(s)) = Len(s)
  BY <1>1, <1>2, <1>3, LenProperties
<1> QED BY <1>3, <1>4 DEF Later

\* The event at the head of s is of the first list.
First(s) == s # <<>> /\ s[1].type = "initial"

\* What the cache goes through starts with what it holds, unless the first list
\* is still to come.
LEMMA UpcomingForms ==
    ASSUME NEW c \in Objects, NEW s \in Seq(I!Events(Objects))
    PROVE  /\ I!Upcoming(c, s) \in Seq(Objects) /\ I!Upcoming(c, s) # <<>>
           /\ First(s) => I!Upcoming(c, s) = Later(s)
           /\ ~First(s) => I!Upcoming(c, s) = <<c>> \o Later(s) /\ Head(I!Upcoming(c, s)) = c
<1> DEFINE l == Later(s)
           r == <<c>> \o l
<1>1. l \in Seq(Objects) /\ Len(l) = Len(s)
  BY LaterType
<1> HIDE DEF l
<1>2. r \in Seq(Objects) /\ Len(l) \in Nat /\ Len(r) = Len(l) + 1 /\ r[1] = c
  BY <1>1, R!ConsElements
<1> HIDE DEF r
<1>3. r # <<>> /\ Head(r) = c
  BY <1>2
<1>4. I!Upcoming(c, s) = IF s # <<>> /\ Head(s).type = "initial" THEN l ELSE r
  BY DEF I!Upcoming, Later, l, r
<1>5. s # <<>> => Head(s) = s[1] /\ l # <<>>
  BY <1>1, TailElements
<1> QED BY <1>1, <1>2, <1>3, <1>4, <1>5 DEF First, l, r

\* An event of the watch adds what it makes of the object.
LEMMA UpcomingAppend ==
    ASSUME NEW c \in Objects, NEW s \in Seq(I!Events(Objects)),
           NEW e \in I!Events(Objects), e.type # "initial"
    PROVE  I!Upcoming(c, Append(s, e)) = Append(I!Upcoming(c, s), I!CacheAfter(e))
<1> DEFINE a == Append(s, e)
           x == I!CacheAfter(e)
<1>1. /\ a \in Seq(I!Events(Objects)) /\ Len(s) \in Nat /\ Len(a) = Len(s) + 1
      /\ \A i \in 1..Len(s) : a[i] = s[i]
      /\ a[Len(s) + 1] = e
      /\ x \in Objects
  BY R!AppendElements, EventContents
<1> HIDE DEF a, x
<1>2. First(a) <=> First(s)
  <2>1. CASE s = <<>>
    BY <1>1, <2>1 DEF First
  <2>2. CASE s # <<>>
    <3>1. Len(s) # 0
      BY <2>2, EmptySeq
    <3> QED BY <1>1, <2>2, <3>1 DEF First
  <2> QED BY <2>1, <2>2
<1>3. Later(a) = Append(Later(s), x)
  <2> DEFINE p == Later(s)
             q == Later(a)
             r == Append(p, x)
  <2>1. /\ p \in Seq(Objects) /\ Len(p) = Len(s)
        /\ \A i \in 1..Len(s) : p[i] = I!CacheAfter(s[i])
    BY LaterType
  <2>2. /\ q \in Seq(Objects) /\ Len(q) = Len(a)
        /\ \A i \in 1..Len(a) : q[i] = I!CacheAfter(a[i])
    BY <1>1, LaterType
  <2> HIDE DEF p, q
  <2>3. /\ r \in Seq(Objects) /\ Len(r) = Len(p) + 1
        /\ \A i \in 1..Len(p) : r[i] = p[i]
        /\ r[Len(p) + 1] = x
    BY <1>1, <2>1, R!AppendElements
  <2> HIDE DEF r
  <2>4. ASSUME NEW i \in 1..Len(q) PROVE q[i] = r[i]
    <3>1. i \in 1..Len(s) \/ i = Len(s) + 1
      BY <1>1, <2>2
    <3>2. CASE i \in 1..Len(s)
      BY <1>1, <2>1, <2>2, <2>3, <3>2
    <3>3. CASE i = Len(s) + 1
      BY <1>1, <2>1, <2>2, <2>3, <3>3 DEF x
    <3> QED BY <3>1, <3>2, <3>3
  <2>5. q = r
    BY <1>1, <2>1, <2>2, <2>3, <2>4, R!SameSequence
  <2> QED BY <2>5 DEF p, q, r
<1>4. Later(s) \in Seq(Objects)
  BY LaterType
<1>5. <<c>> \o Append(Later(s), x) = Append(<<c>> \o Later(s), x)
  BY <1>1, <1>4, R!ConsAppend
<1>6. I!Upcoming(c, a) = Append(I!Upcoming(c, s), x)
  BY <1>1, <1>2, <1>3, <1>5, UpcomingForms
<1> QED BY <1>6 DEF a, x

\* An event that reaches the cache uses up what the cache held, if that counted.
LEMMA UpcomingInformer ==
    ASSUME NEW c \in Objects, NEW s \in Seq(I!Events(Objects)), s # <<>>,
           \A i \in 2..Len(s) : s[i].type # "initial"
    PROVE  LET b == I!Upcoming(c, s)
               a == I!Upcoming(I!CacheAfter(s[1]), Tail(s))
           IN  a = b \/ a = Tail(b)
<1> DEFINE t == Tail(s)
           x == I!CacheAfter(s[1])
           r == <<x>> \o Later(t)
<1>1. /\ t \in Seq(I!Events(Objects)) /\ Len(s) \in Nat \ {0} /\ Len(t) = Len(s) - 1
      /\ \A i \in 1..Len(s) - 1 : t[i] = s[i + 1]
  BY TailElements
<1>2. x \in Objects
  BY <1>1, EventContents, ElementOfSeq
<1> HIDE DEF t, x
<1>3. ~First(t)
  <2>1. t # <<>> => Len(t) \in Nat \ {0}
    BY <1>1, TailElements
  <2>2. t # <<>> => t[1] = s[2] /\ 2 \in 2..Len(s)
    BY <1>1, <2>1
  <2> QED BY <2>2 DEF First
<1>4. I!Upcoming(x, t) = r
  BY <1>1, <1>2, <1>3, UpcomingForms
<1>5. /\ Later(t) \in Seq(Objects) /\ Len(Later(t)) = Len(t)
      /\ \A i \in 1..Len(t) : Later(t)[i] = I!CacheAfter(t[i])
  BY <1>1, LaterType
<1>6. /\ Later(s) \in Seq(Objects) /\ Len(Later(s)) = Len(s)
      /\ \A i \in 1..Len(s) : Later(s)[i] = I!CacheAfter(s[i])
  BY LaterType
<1>7. /\ r \in Seq(Objects) /\ Len(r) = Len(Later(t)) + 1 /\ r[1] = x
      /\ \A i \in 1..Len(Later(t)) : r[i + 1] = Later(t)[i]
  BY <1>2, <1>5, R!ConsElements
<1> HIDE DEF r
<1>8. ASSUME NEW i \in 1..Len(s) PROVE r[i] = Later(s)[i]
  <2>1. CASE i = 1
    BY <1>6, <1>7, <2>1 DEF x
  <2>2. CASE i # 1
    <3>1. i - 1 \in 1..Len(s) - 1 /\ i = (i - 1) + 1 /\ i - 1 \in 1..Len(t)
      BY <1>1, <2>2
    <3> QED BY <1>1, <1>5, <1>6, <1>7, <3>1
  <2> QED BY <2>1, <2>2
<1>9. r = Later(s)
  BY <1>1, <1>5, <1>6, <1>7, <1>8, R!SameSequence
<1>10. Tail(<<c>> \o Later(s)) = Later(s)
  <2> DEFINE l == Later(s)
             p == <<c>> \o l
  <2> HIDE DEF l
  <2>1. l \in Seq(Objects)
    BY <1>6 DEF l
  <2>2. /\ p \in Seq(Objects) /\ Len(l) \in Nat /\ Len(p) = Len(l) + 1
        /\ \A i \in 1..Len(l) : p[i + 1] = l[i]
    BY <2>1, R!ConsElements
  <2> HIDE DEF p
  <2>3. p # <<>>
    BY <2>2
  <2>4. /\ Tail(p) \in Seq(Objects) /\ Len(Tail(p)) = Len(p) - 1
        /\ \A i \in 1..Len(p) - 1 : Tail(p)[i] = p[i + 1]
    BY <2>2, <2>3, TailElements
  <2>5. Tail(p) = l
    BY <2>1, <2>2, <2>4, R!SameSequence
  <2> QED BY <2>5 DEF p, l
<1>11. I!Upcoming(c, s) = Later(s) \/ I!Upcoming(c, s) = <<c>> \o Later(s)
  BY UpcomingForms
<1>12. I!Upcoming(x, t) = I!Upcoming(c, s) \/ I!Upcoming(x, t) = Tail(I!Upcoming(c, s))
  BY <1>4, <1>9, <1>10, <1>11
<1> QED BY <1>12 DEF x, t

\* A list leaves at most what the cache holds and what the source has.
LEMMA UpcomingList ==
    ASSUME NEW c \in Objects, NEW u \in Objects
    PROVE  /\ \/ I!Upcoming(c, I!ReList(u, c)) = <<c, u>>
              \/ I!Upcoming(c, I!ReList(u, c)) = <<c>> /\ c = u
           /\ I!Upcoming(Absent, I!FirstList(u)) = <<u>>
<1> DEFINE p == [type |-> "replaced", obj |-> u]
           g == [type |-> "gone", obj |-> c]
           f == [type |-> "initial", obj |-> u]
<1>1. I!CacheAfter(p) = u /\ I!CacheAfter(g) = Absent /\ I!CacheAfter(f) = u
  BY DEF I!CacheAfter
<1>2. p \in I!Events(Objects) /\ g \in I!Events(Objects) /\ f \in I!Events(Objects)
  BY DEF I!Events, I!EventTypes
<1>3. ~First(<<p>>) /\ ~First(<<g>>) /\ ~First(<<>>) /\ First(<<f>>)
  BY DEF First
<1> HIDE DEF p, g, f
<1>4. ASSUME NEW e \in I!Events(Objects)
      PROVE  /\ Later(<<e>>) = <<I!CacheAfter(e)>>
             /\ <<c>> \o Later(<<e>>) = <<c, I!CacheAfter(e)>>
  <2>1. Later(<<e>>) = <<I!CacheAfter(e)>>
    BY DEF Later
  <2>2. I!CacheAfter(e) \in Objects
    BY EventContents
  <2> DEFINE x == I!CacheAfter(e)
  <2> HIDE DEF x
  <2>3. x \in Objects
    BY <2>2 DEF x
  <2>4. <<c>> \o <<x>> = <<c, x>>
    <3> DEFINE l == <<x>>
               q == <<c>> \o l
               r == <<c, x>>
    <3>1. l \in Seq(Objects) /\ Len(l) = 1 /\ l[1] = x
      BY <2>3
    <3>2. r \in Seq(Objects) /\ Len(r) = 2 /\ r[1] = c /\ r[2] = x
      BY <2>3
    <3> HIDE DEF l, r
    <3>3. /\ q \in Seq(Objects) /\ Len(q) = Len(l) + 1 /\ q[1] = c
          /\ \A i \in 1..Len(l) : q[i + 1] = l[i]
      BY <3>1, R!ConsElements
    <3> HIDE DEF q
    <3>4. q[1 + 1] = x
      BY <3>1, <3>3
    <3>5. Len(q) = 2 /\ \A i \in 1..2 : i = 1 \/ i = 1 + 1
      BY <3>1, <3>3
    <3>6. q = r
      BY <3>2, <3>3, <3>4, <3>5, R!SameSequence
    <3> QED BY <3>6 DEF l, q, r
  <2> QED BY <2>1, <2>4 DEF x
<1>5. Later(<<>>) = <<>>
  BY DEF Later
<1>6. CASE u # Absent
  <2>1. I!ReList(u, c) = <<p>> /\ I!FirstList(u) = <<f>>
    BY <1>6 DEF I!ReList, I!FirstList, p, f
  <2>2. <<p>> \in Seq(I!Events(Objects)) /\ <<f>> \in Seq(I!Events(Objects))
    BY <1>2
  <2> QED BY <1>1, <1>2, <1>3, <1>4, <2>1, <2>2, AbsentType, UpcomingForms
<1>7. CASE u = Absent
  <2>1. I!FirstList(u) = <<>>
    BY <1>7 DEF I!FirstList
  <2>2. <<>> \in Seq(I!Events(Objects))
    OBVIOUS
  <2>3. \A o \in Objects : <<o>> \o <<>> = <<o>>
    OBVIOUS
  <2>4. \A o \in Objects : I!Upcoming(o, <<>>) = <<o>>
    BY <1>3, <1>5, <2>2, <2>3, UpcomingForms
  <2>5. CASE c # Absent
    <3>1. I!ReList(u, c) = <<g>>
      BY <1>7, <2>5 DEF I!ReList, g
    <3>2. <<g>> \in Seq(I!Events(Objects))
      BY <1>2
    <3> QED BY <1>1, <1>2, <1>3, <1>4, <1>7, <2>1, <2>4, <3>1, <3>2, AbsentType, UpcomingForms
  <2>6. CASE c = Absent
    <3>1. I!ReList(u, c) = <<>>
      BY <1>7, <2>6 DEF I!ReList
    <3> QED BY <1>7, <2>1, <2>4, <2>6, <3>1, AbsentType
  <2> QED BY <2>5, <2>6
<1> QED BY <1>6, <1>7

-------------------------------------------------------------------------------
(* The first list.                                                         *)

\* The event of a first list is the first for its object, and no worker has
\* started while one is still to come.
FirstListFirst ==
    \A k \in Keys : \A i \in 1..Len(stream[k]) :
        stream[k][i].type = "initial" =>
            i = 1 /\ \A w \in Workers : worker[w].pc = "idle"

\* Every step keeps the first list first.
LEMMA NextFirstListFirst ==
    Typed /\ StoppedIsEmpty /\ FirstListFirst /\ [Next]_vars => FirstListFirst'
<1> SUFFICES ASSUME Typed, StoppedIsEmpty, FirstListFirst, [Next]_vars,
                    NEW k \in Keys, NEW i \in 1..Len(stream'[k]),
                    stream'[k][i].type = "initial"
             PROVE  i = 1 /\ \A w \in Workers : worker'[w].pc = "idle"
  BY DEF FirstListFirst
<1>f. stream \in [Keys -> Seq(I!Events(Objects))] /\ worker \in [Workers -> WorkerTypes]
  BY DEF Typed, TypeOK, WorkerTypes
<1>s. stream[k] \in Seq(I!Events(Objects)) /\ Len(stream[k]) \in Nat
  BY <1>f, LenProperties
<1>1. ASSUME NEW j \in Keys, NEW t \in {"modified", "deleted"}, NEW o \in Objects,
             Watch(j, t, o), worker' = worker
      PROVE  i = 1 /\ \A w \in Workers : worker'[w].pc = "idle"
  <2>1. t \in I!EventTypes
    BY DEF I!EventTypes
  <2>2. CASE stream'[k] = stream[k]
    BY <1>1, <2>2 DEF FirstListFirst
  <2>3. CASE stream'[k] # stream[k]
    <3>1. /\ Len(stream'[k]) = Len(stream[k]) + 1
          /\ \A h \in 1..Len(stream[k]) : stream'[k][h] = stream[k][h]
          /\ stream'[k][Len(stream[k]) + 1] = [type |-> t, obj |-> o]
      BY <1>1, <2>1, <2>3, WatchEvents
    <3>2. i \in 1..Len(stream[k]) \/ i = Len(stream[k]) + 1
      BY <1>s, <3>1
    <3>3. i # Len(stream[k]) + 1
      BY <3>1
    <3> QED BY <1>1, <3>1, <3>2, <3>3 DEF FirstListFirst
  <2> QED BY <2>2, <2>3
<1>2. ASSUME NEW j \in Keys, NEW avail \in Availabilities, SourceWrite(j, avail)
      PROVE  i = 1 /\ \A w \in Workers : worker'[w].pc = "idle"
  <2>1. [gen |-> writes + 1, avail |-> avail] \in Objects
    BY StatusAssumption DEF Typed, TypeOK, Objects
  <2> QED BY <1>1, <1>2, <2>1 DEF SourceWrite
<1>3. ASSUME NEW j \in Keys, SourceSpecWrite(j)
      PROVE  i = 1 /\ \A w \in Workers : worker'[w].pc = "idle"
  BY <1>1, <1>3 DEF SourceSpecWrite, Typed, TypeOK
<1>4. ASSUME NEW j \in Keys, SourceDelete(j)
      PROVE  i = 1 /\ \A w \in Workers : worker'[w].pc = "idle"
  BY <1>1, <1>4 DEF SourceDelete, Typed, TypeOK
<1>5. ASSUME NEW j \in Keys, InformerStep(j)
      PROVE  i = 1 /\ \A w \in Workers : worker'[w].pc = "idle"
  <2>1. worker' = worker
    BY <1>5 DEF InformerStep
  <2>2. CASE j # k
    BY <1>5, <2>1, <2>2, InformerEvents DEF FirstListFirst
  <2>3. CASE j = k
    <3>1. /\ Len(stream'[k]) = Len(stream[k]) - 1
          /\ \A h \in 1..Len(stream[k]) - 1 : stream'[k][h] = stream[k][h + 1]
      BY <1>5, <2>3, InformerEvents
    <3>2. i + 1 \in 1..Len(stream[k]) /\ stream'[k][i] = stream[k][i + 1] /\ i + 1 # 1
      BY <1>s, <3>1
    <3> QED BY <3>2 DEF FirstListFirst
  <2> QED BY <2>2, <2>3
<1>6. CASE NoProcess
  BY <1>6 DEF NoProcess
<1>7. CASE Relist
  <2> DEFINE u == source[k]
             c == cache[k]
             r == I!ReList(u, c)
  <2>1. stream'[k] = r /\ i \in 1..Len(r) /\ u \in Objects /\ c \in Objects
    BY <1>7 DEF Relist, Typed, TypeOK
  <2> HIDE DEF u, c
  <2>3. CASE r = <<>>
    BY <2>1, <2>3
  <2>4. CASE r # <<>>
    <3>1. PICK e : r = <<e>> /\ e.type # "initial"
      BY <2>4 DEF I!ReList
    <3>2. Len(r) = 1 /\ r[1] = e
      BY <3>1
    <3> HIDE DEF r
    <3> QED BY <2>1, <3>1, <3>2
  <2> QED BY <2>3, <2>4
<1>8. CASE Start
  <2>1. stream'[k] = I!FirstList(source[k]) /\ source[k] \in Objects
    BY <1>8 DEF Start, Typed, TypeOK
  <2>2. worker' = [w \in Workers |-> IdleWorker]
    BY <1>8 DEF Start, StoppedIsEmpty
  <2> QED BY <2>1, <2>2, FirstListEvents DEF IdleWorker
<1>9. ASSUME NEW v \in Workers, NEW j \in Keys, GetItem(v, j)
      PROVE  i = 1 /\ \A w \in Workers : worker'[w].pc = "idle"
  <2>1. stream' = stream /\ stream[k][i].type # "initial"
    BY <1>9, <1>f DEF GetItem, informer, I!HasSynced
  <2> QED BY <2>1
<1>10. ASSUME NEW v \in Workers, worker[v].pc # "idle", stream' = stream
       PROVE  i = 1 /\ \A w \in Workers : worker'[w].pc = "idle"
  BY <1>10 DEF FirstListFirst
<1>11. ASSUME NEW v \in Workers, CarriesOn(v) \/ FinishItem(v)
       PROVE  i = 1 /\ \A w \in Workers : worker'[w].pc = "idle"
  <2>1. worker[v].pc # "idle" /\ stream' = stream
    BY <1>11, CarryOn DEF FinishItem, informer
  <2> QED BY <1>10, <2>1
<1>12. CASE UNCHANGED <<stream, worker>>
  BY <1>12 DEF FirstListFirst
<1> QED BY <1>2, <1>3, <1>4, <1>5, <1>6, <1>7, <1>8, <1>9, <1>11, <1>12
        DEF Next, vars, informer, CarriesOn, Handle, HandleTombstone, Backoff, Crash, TargetTouch

-------------------------------------------------------------------------------
(* Every status follows the history of the object.                         *)

HoldPhases == Requests \cup {"hcp"}

\* The objects of k whose status workers are about to write.
Holding(k) ==
    {worker[w].obj : w \in {v \in Workers : worker[v].key = k /\ worker[v].pc \in HoldPhases}}

Coming(k) == I!Upcoming(cache[k], stream[k])

\* What is under way of an object, before it is looked at as statuses.
Way(k) == IF running THEN R!Line(Holding(k), Coming(k)) ELSE <<source[k]>>

GenOf == [o \in Objects |-> o.gen]

\* What is under way of an object is a line, and its trail has the statuses of it.
InLine(k) ==
    /\ Holding(k) \in SUBSET Objects /\ R!Single(Holding(k))
    /\ Coming(k) \in Seq(Objects) /\ Coming(k) # <<>>
    /\ Way(k) \in Seq(Objects) /\ Way(k) # <<>>
    /\ Trail(k) = R!Mapped(GenOf, Way(k))

\* Generations are numbers.
LEMMA GenOfType == GenOf \in [Objects -> Nat] /\ \A o \in Objects : GenOf[o] = o.gen
BY DEF GenOf, Objects

\* The objects that are copied have keys.
LEMMA CopiedKeys == ASSUME NEW k \in Copied PROVE k \in Keys /\ k # NoKey
BY KeysAssumption DEF Copied, Keys

\* What is under way is a line, since an object is in the hands of one worker only.
LEMMA TrailsInLine ==
    ASSUME Typed, WorkSerialised, NEW k \in Copied
    PROVE  InLine(k)
<1> DEFINE holders == {w \in Workers : /\ worker[w].key = k
                                       /\ worker[w].pc \in HoldPhases}
           H == Holding(k)
           c == Coming(k)
<1>k. k \in Keys /\ k # NoKey
  BY CopiedKeys
<1>1. \A v, w \in holders : v = w
  BY <1>k DEF WorkSerialised
<1>2. H \in SUBSET Objects /\ R!Single(H)
  BY <1>1 DEF Holding, R!Single, Typed, TypeOK
<1>3. c \in Seq(Objects) /\ c # <<>>
  BY <1>k, UpcomingForms DEF Coming, Typed, TypeOK
<1>4. Way(k) \in Seq(Objects) /\ Way(k) # <<>>
  <2>1. R!Line(H, c) \in Seq(Objects) /\ R!Line(H, c) # <<>>
    <3> HIDE DEF H, c
    <3> QED BY <1>2, <1>3, R!LineForms
  <2>2. <<source[k]>> \in Seq(Objects) /\ <<source[k]>> # <<>>
    <3>1. source[k] \in Objects
      BY <1>k DEF Typed, TypeOK
    <3> QED BY <3>1
  <2> QED BY <2>1, <2>2 DEF Way
<1>5. Trail(k) = [i \in 1..Len(Way(k)) |-> Way(k)[i].gen]
  <2>1. CASE running
    <3> DEFINE objects == IF \A w \in holders : worker[w].obj = Head(c) THEN c
                          ELSE <<worker[CHOOSE w \in holders : TRUE].obj>> \o c
    <3>1. Trail(k) = [i \in 1..Len(objects) |-> objects[i].gen]
      BY <2>1 DEF Trail, Coming, HoldPhases
    <3>2. (\A w \in holders : worker[w].obj = Head(c)) <=> \A o \in H : o = Head(c)
      BY DEF Holding
    <3>3. objects = R!Line(H, c)
      <4>1. CASE \A w \in holders : worker[w].obj = Head(c)
        BY <3>2, <4>1 DEF R!Line
      <4>2. CASE ~\A w \in holders : worker[w].obj = Head(c)
        <5> DEFINE v == CHOOSE w \in holders : TRUE
        <5>1. v \in holders
          BY <4>2
        <5>2. H = {worker[v].obj}
          BY <1>1, <5>1 DEF Holding
        <5>3. (CHOOSE o \in H : TRUE) = worker[v].obj
          BY <5>2
        <5>4. objects = <<worker[v].obj>> \o c
          BY <4>2
        <5>5. ~\A o \in H : o = Head(c)
          BY <3>2, <4>2
        <5> HIDE DEF holders, objects, H, c
        <5>6. R!Line(H, c) = <<worker[v].obj>> \o c
          <6> HIDE DEF v
          <6> QED BY <5>3, <5>5 DEF R!Line
        <5> QED BY <5>4, <5>6
      <4> QED BY <4>1, <4>2
    <3> HIDE DEF objects
    <3> QED BY <2>1, <3>1, <3>3 DEF Way
  <2>2. CASE ~running
    <3>1. /\ Trail(k) = <<source[k].gen>> /\ Way(k) = <<source[k]>>
          /\ Len(Way(k)) = 1 /\ Way(k)[1] = source[k]
      BY <2>2 DEF Trail, Way
    <3>2. <<source[k].gen>> = [i \in 1..1 |-> source[k].gen]
      OBVIOUS
    <3>3. [i \in 1..Len(Way(k)) |-> Way(k)[i].gen] = [i \in 1..1 |-> source[k].gen]
      BY <3>1
    <3> QED BY <3>1, <3>2, <3>3
  <2> QED BY <2>1, <2>2
<1>6. Trail(k) = R!Mapped(GenOf, Way(k))
  <2> DEFINE s == Way(k)
  <2>1. \A i \in 1..Len(s) : s[i] \in Objects
    BY <1>4, ElementOfSeq
  <2>2. \A i \in 1..Len(s) : GenOf[s[i]] = s[i].gen
    BY <2>1, GenOfType
  <2> HIDE DEF s
  <2>3. [i \in 1..Len(s) |-> s[i].gen] = [i \in 1..Len(s) |-> GenOf[s[i]]]
    BY <2>2
  <2> QED BY <1>5, <2>3 DEF s, R!Mapped
<1> QED BY <1>2, <1>3, <1>4, <1>6 DEF InLine

\* What is left out of the objects under way is left out of the statuses.
LEMMA TrailLeavesOut ==
    ASSUME NEW k \in Copied, InLine(k), InLine(k)', NEW u \in Objects
    PROVE  /\ R!LeavesOut(Way(k)', Way(k)) => R!LeavesOut(Trail(k)', Trail(k))
           /\ R!LeavesOut(Way(k)', Append(Way(k), u)) =>
                 R!LeavesOut(Trail(k)', Append(Trail(k), u.gen))
<1> DEFINE s == Way(k)
           t == Way(k)'
<1>1. s \in Seq(Objects) /\ t \in Seq(Objects)
  BY DEF InLine
<1>2. Trail(k) = R!Mapped(GenOf, s) /\ Trail(k)' = R!Mapped(GenOf, t)
  BY DEF InLine, GenOf
<1> HIDE DEF s, t
<1>3. R!LeavesOut(t, s) => R!LeavesOut(R!Mapped(GenOf, t), R!Mapped(GenOf, s))
  BY <1>1, GenOfType, R!MappedLeavesOut
<1>4. Append(s, u) \in Seq(Objects)
  BY <1>1
<1>5. R!LeavesOut(t, Append(s, u)) =>
         R!LeavesOut(R!Mapped(GenOf, t), R!Mapped(GenOf, Append(s, u)))
  BY <1>1, <1>4, GenOfType, R!MappedLeavesOut
<1>6. R!Mapped(GenOf, Append(s, u)) = Append(R!Mapped(GenOf, s), GenOf[u])
  BY <1>1, GenOfType, R!MappedAppend
<1>7. GenOf[u] = u.gen
  BY GenOfType
<1> QED BY <1>2, <1>3, <1>5, <1>6, <1>7 DEF s, t

\* A worker that carries on takes an object in hand, goes on with it or lets go of it.
LEMMA HoldingAfterWork ==
    ASSUME Typed, WorkSerialised, NEW v \in Workers, CarriesOn(v), NEW k \in Copied
    PROVE  /\ worker[v].key # k => Holding(k)' = Holding(k)
           /\ worker[v].key = k =>
                 /\ Holding(k) = IF worker[v].pc \in HoldPhases THEN {worker[v].obj} ELSE {}
                 /\ Holding(k)' = IF worker'[v].pc \in HoldPhases THEN {worker'[v].obj} ELSE {}
<1>1. /\ worker'[v].key = worker[v].key
      /\ \A w \in Workers : w # v => worker'[w] = worker[w]
  BY CarryOn
<1>2. CASE worker[v].key # k
  <2>1. \A w \in Workers : worker'[w].key = k <=> worker[w].key = k
    BY <1>1
  <2>2. \A w \in Workers : worker[w].key = k => worker'[w] = worker[w]
    BY <1>1, <1>2
  <2> QED BY <1>2, <2>1, <2>2 DEF Holding
<1>3. CASE worker[v].key = k
  <2>1. k # NoKey
    BY CopiedKeys
  <2>2. \A w \in Workers : worker[w].key = k <=> w = v
    BY <1>3, <2>1 DEF WorkSerialised
  <2>3. \A w \in Workers : worker'[w].key = k <=> w = v
    BY <1>1, <1>3, <2>2
  <2>4. Holding(k) = IF worker[v].pc \in HoldPhases THEN {worker[v].obj} ELSE {}
    BY <2>2 DEF Holding
  <2>5. Holding(k)' = IF worker'[v].pc \in HoldPhases THEN {worker'[v].obj} ELSE {}
    BY <2>3 DEF Holding
  <2> QED BY <1>3, <2>4, <2>5
<1> QED BY <1>2, <1>3

\* A worker reads its object from the cache once, and every request gives the copy
\* the status of the object that it has in hand, or leaves the status alone.
LEMMA CarryOnGives ==
    ASSUME Typed, NEW v \in Workers, CarriesOn(v)
    PROVE  \/ /\ worker[v].pc = "process" /\ worker'[v].obj = cache[worker[v].key]
              /\ target' = target
           \/ /\ worker[v].pc \in HoldPhases /\ worker'[v].obj = worker[v].obj
              /\ \/ \A k \in Copied : target'[k].gen = target[k].gen
                 \/ /\ worker[v].key \in Copied
                    /\ target'[worker[v].key].gen = worker[v].obj.gen
<1>t. /\ worker \in [Workers -> WorkerTypes] /\ target \in [Copied -> Copies]
  BY DEF Typed, TypeOK, WorkerTypes
<1> DEFINE k == worker[v].key
           o == worker[v].obj
<1>1. CASE Process(v)
  <2>1. worker[v].pc = "process" /\ target' = target
    BY <1>1 DEF Process, external
  <2>2. worker'[v].obj = cache[k]
    BY <1>1, <1>t DEF Process, WorkerTypes
  <2> QED BY <2>1, <2>2
<1>2. CASE ~Process(v)
  <2>1. worker[v].pc \in HoldPhases
    BY <1>2, StatusAssumption DEF CarriesOn, WorkerStep, ComputeHubControlPlane,
       ApplyHubControlPlane, ApplyHubControlPlaneStatus, GetCopy, UpdateStatus, ApplyMain,
       ApplyStatus, RequestFails, Requests, HoldPhases
  <2>2. worker'[v].obj = o
    <3>1. ASSUME NEW pc, Move(v, pc) PROVE worker'[v].obj = o
      BY <1>t, <3>1 DEF Move, WorkerTypes
    <3>2. ASSUME NEW done \in BOOLEAN, RequestFails(v, done) PROVE \E pc : Move(v, pc)
      BY <3>2 DEF RequestFails
    <3>3. CASE \/ ApplyHubControlPlane(v) \/ ApplyHubControlPlaneStatus(v)
               \/ UpdateStatus(v) \/ ApplyMain(v) \/ ApplyStatus(v)
      BY <3>1, <3>3 DEF ApplyHubControlPlane, ApplyHubControlPlaneStatus, UpdateStatus,
         ApplyMain, ApplyStatus
    <3>4. CASE ComputeHubControlPlane(v)
      BY <1>t, <3>4 DEF ComputeHubControlPlane, WorkerTypes
    <3>5. CASE GetCopy(v)
      BY <1>t, <3>5 DEF GetCopy, WorkerTypes
    <3> QED BY <1>2, <3>1, <3>2, <3>3, <3>4, <3>5 DEF CarriesOn, WorkerStep
  <2>3. \/ target' = target
        \/ WriteCopy(v) /\ worker[v].pc \in {"update", "applyMain", "applyStatus"}
    BY DEF CarriesOn, WorkerStep, Process, ComputeHubControlPlane, ApplyHubControlPlane,
           ApplyHubControlPlaneStatus, GetCopy, UpdateStatus, ApplyMain, ApplyStatus,
           RequestFails, external
  <2>4. ASSUME WriteCopy(v), worker[v].pc \in {"update", "applyMain", "applyStatus"}
        PROVE  \/ \A i \in Copied : target'[i].gen = target[i].gen
               \/ k \in Copied /\ target'[k].gen = o.gen
    <3>1. CASE k \notin Copied
      BY <3>1, CarryOnCopies
    <3>2. CASE k \in Copied
      <4> DEFINE c == target[k]
      <4>1. c \in Copies /\ o.gen \in Nat
        BY <1>t, <3>2 DEF WorkerTypes, Objects
      <4>2. target'[k] = CopyAfter(v)
        BY <1>t, <2>4, <3>2 DEF WriteCopy
      <4> HIDE DEF c
      <4>3. CASE worker[v].pc = "applyMain"
        <5>1. CopyAfter(v) = [c EXCEPT !.exists = TRUE, !.rv = c.rv + 1]
          BY <4>3 DEF CopyAfter, c
        <5>2. target'[k].gen = c.gen
          BY <4>1, <4>2, <5>1, CopyTypes
        <5> QED BY <5>2, CarryOnCopies DEF c
      <4>4. CASE worker[v].pc = "update" /\ c.rv # worker[v].rv
        <5>1. CopyAfter(v) = c
          BY <4>4 DEF CopyAfter, c
        <5> QED BY <4>2, <5>1, CarryOnCopies DEF c
      <4>5. CASE worker[v].pc = "applyStatus" \/ (worker[v].pc = "update" /\ c.rv = worker[v].rv)
        <5>1. CopyAfter(v) = [c EXCEPT !.gen = o.gen, !.rv = c.rv + 1]
          BY <4>5 DEF CopyAfter, c
        <5> DEFINE g == o.gen
        <5> HIDE DEF g
        <5>2. g \in Nat /\ CopyAfter(v) = [c EXCEPT !.gen = g, !.rv = c.rv + 1]
          BY <4>1, <5>1 DEF g
        <5>3. [c EXCEPT !.gen = g, !.rv = c.rv + 1].gen = g
          BY <4>1, <5>2, CopyTypes
        <5>4. target'[k].gen = o.gen
          BY <4>2, <5>2, <5>3 DEF g
        <5> QED BY <3>2, <5>4
      <4> QED BY <2>4, <4>3, <4>4, <4>5
    <3> QED BY <3>1, <3>2
  <2> QED BY <2>1, <2>2, <2>3, <2>4
<1> QED BY <1>1, <1>2

\* What is under way of an object that a step leaves alone does not change.
LEMMA WayKept ==
    ASSUME NEW k \in Copied, running' = running, source'[k] = source[k],
           Holding(k)' = Holding(k), Coming(k)' = Coming(k)
    PROVE  Way(k)' = Way(k)
BY DEF Way

\* Every step of the syncer is a step of the replication it implements, or none.
LEMMA NextReplicates ==
    ASSUME Typed, WorkSerialised, StoppedIsEmpty, FirstListFirst,
           \A k \in Copied : InLine(k) /\ InLine(k)', [Next]_vars
    PROVE  [R!Next]_(R!vars)
<1> DEFINE src == [k \in Copied |-> source[k].gen]
           tgt == [k \in Copied |-> target[k].gen]
           trl == [k \in Copied |-> Trail(k)]
           ntrl == [k \in Copied |-> Trail(k)']
           Passed(k) == \/ Way(k)' = Way(k)
                        \/ R!LeavesOut(Way(k)', Way(k))
                        \/ R!LeavesOut(Way(k)', Append(Way(k), source[k]))
<1>f. /\ source \in [Keys -> Objects]
      /\ target \in [Copied -> Copies]
      /\ cache \in [Keys -> Objects]
      /\ stream \in [Keys -> Seq(I!Events(Objects))]
      /\ worker \in [Workers -> WorkerTypes]
      /\ running \in BOOLEAN
  BY DEF Typed, TypeOK, WorkerTypes
<1>k. \A k \in Copied : k \in Keys
  BY CopiedKeys
<1>t. \A k \in Copied : Way(k) \in Seq(Objects) /\ Way(k) # <<>>
  BY DEF InLine
<1>b. \A v \in Workers : worker[v].pc # "idle" => running
  BY DEF StoppedIsEmpty, IdleWorker
<1>w. worker' = worker => \A k \in Copied : Holding(k)' = Holding(k)
  BY DEF Holding
<1>c. ASSUME NEW k \in Copied, cache'[k] = cache[k], stream'[k] = stream[k]
      PROVE  Coming(k)' = Coming(k)
  BY <1>c DEF Coming
<1>h. ASSUME NEW k \in Copied, ~First(stream[k])
      PROVE  Head(Coming(k)) = cache[k]
  BY <1>f, <1>h, <1>k, UpcomingForms DEF Coming
<1>s. ASSUME NEW k \in Copied, Way(k)' = Way(k) PROVE Trail(k)' = Trail(k)
  BY <1>s DEF InLine, GenOf
<1>r. ASSUME \A k \in Copied : /\ source'[k].gen = source[k].gen
                               /\ target'[k].gen = target[k].gen
                               /\ Passed(k)
      PROVE  R!Next
  <2>1. ASSUME NEW k \in Copied PROVE R!Overtaken(Trail(k)', Trail(k), source[k].gen)
    <3>1. source[k] \in Objects /\ Passed(k)
      BY <1>f, <1>k, <1>r
    <3>2. CASE Way(k)' = Way(k)
      BY <1>s, <3>2, R!LeavesOutNothing DEF R!Overtaken
    <3>3. CASE R!LeavesOut(Way(k)', Way(k))
      BY <3>1, <3>3, TrailLeavesOut DEF R!Overtaken
    <3>4. CASE R!LeavesOut(Way(k)', Append(Way(k), source[k]))
      BY <3>1, <3>4, TrailLeavesOut DEF R!Overtaken
    <3> QED BY <3>1, <3>2, <3>3, <3>4
  <2>2. src' = src /\ tgt' = tgt
    BY <1>r
  <2>3. \A k \in Copied : R!Overtaken(ntrl[k], trl[k], src[k])
    BY <2>1
  <2> QED BY <2>2, <2>3 DEF R!Next, R!Refresh
<1>o. ASSUME NEW j \in Copied, \A k \in Copied : k # j => Way(k)' = Way(k)
      PROVE  R!Only(j, trl, ntrl)
  <2>1. \A k \in Copied : k # j => Trail(k)' = Trail(k)
    BY <1>o, <1>s
  <2> QED BY <2>1 DEF R!Only
<1>1. ASSUME NEW j \in Keys, NEW e \in I!Events(Objects), e.type # "initial",
             Watch(j, e.type, e.obj),
             source' = [source EXCEPT ![j] = I!CacheAfter(e)],
             UNCHANGED <<target, running, cache, worker>>
      PROVE  R!Next
  <2>1. [type |-> e.type, obj |-> e.obj] = e
    BY DEF I!Events
  <2>2. stream' = IF running THEN [stream EXCEPT ![j] = Append(stream[j], e)] ELSE stream
    BY <1>1, <2>1 DEF Watch
  <2>3. ASSUME NEW k \in Copied, k # j PROVE Way(k)' = Way(k) /\ source'[k] = source[k]
    <3>1. stream'[k] = stream[k] /\ source'[k] = source[k]
      BY <1>1, <1>f, <1>k, <2>2, <2>3
    <3> QED BY <1>1, <1>c, <1>w, <3>1, WayKept
  <2>4. source'[j] = I!CacheAfter(e) /\ source'[j] \in Objects
    BY <1>1, <1>f, EventContents
  <2>5. CASE j \notin Copied
    BY <1>1, <1>r, <2>3, <2>5
  <2>6. CASE j \in Copied
    <3> DEFINE u == source'[j]
    <3>1. R!LeavesOut(Way(j)', Append(Way(j), u))
      <4>1. CASE running
        <5>1. stream'[j] = Append(stream[j], e)
          <6>1. stream' = [stream EXCEPT ![j] = Append(stream[j], e)]
            BY <2>2, <4>1
          <6> QED BY <1>f, <6>1
        <5>2. Coming(j)' = Append(Coming(j), u)
          BY <1>1, <1>f, <2>4, <5>1, UpcomingAppend DEF Coming
        <5>3. Way(j)' = R!Line(Holding(j), Append(Coming(j), u))
          BY <1>1, <1>w, <2>6, <4>1, <5>2 DEF Way
        <5> DEFINE H == Holding(j)
                   c == Coming(j)
        <5>4. u \in Objects /\ H \in SUBSET Objects /\ R!Single(H) /\ c \in Seq(Objects) /\ c # <<>>
          BY <2>4, <2>6 DEF InLine
        <5>5. Way(j) = R!Line(H, c)
          BY <4>1 DEF Way
        <5> HIDE DEF u, H, c
        <5>6. R!Line(H, Append(c, u)) = Append(R!Line(H, c), u)
          BY <5>4, R!LineAppend
        <5>7. Way(j)' = Append(Way(j), u)
          BY <5>3, <5>5, <5>6 DEF u, H, c
        <5> QED BY <5>7, R!LeavesOutNothing
      <4>2. CASE ~running
        <5>1. Way(j)' = <<u>>
          BY <1>1, <4>2 DEF Way
        <5> QED BY <1>t, <2>4, <2>6, <5>1, R!LeavesOutButLast
      <4> QED BY <4>1, <4>2
    <3>2. R!LeavesOut(Trail(j)', Append(Trail(j), u.gen))
      BY <2>4, <2>6, <3>1, TrailLeavesOut
    <3>3. R!Only(j, trl, ntrl)
      BY <1>o, <2>3, <2>6
    <3>4. R!Only(j, src, src')
      BY <2>3, <2>6 DEF R!Only
    <3>5. tgt' = tgt
      BY <1>1
    <3>6. trl[j] = Trail(j) /\ ntrl[j] = Trail(j)' /\ src'[j] = u.gen
      BY <2>6
    <3>7. R!Change(j)
      BY <3>2, <3>3, <3>4, <3>5, <3>6 DEF R!Change
    <3> QED BY <2>6, <3>7 DEF R!Next
  <2> QED BY <2>5, <2>6
<1>2. ASSUME NEW j \in Keys, NEW avail \in Availabilities, SourceWrite(j, avail)
      PROVE  R!Next
  <2> DEFINE o == [gen |-> writes + 1, avail |-> avail]
             e == [type |-> "modified", obj |-> o]
  <2>1. e \in I!Events(Objects)
    BY StatusAssumption DEF Typed, TypeOK, Objects, I!EventTypes, I!Events
  <2>2. I!CacheAfter(e) = o /\ e.type = "modified" /\ e.obj = o
    BY DEF I!CacheAfter
  <2>3. Watch(j, "modified", o) /\ source' = [source EXCEPT ![j] = o]
    BY <1>2 DEF SourceWrite
  <2> HIDE DEF o, e
  <2> QED BY <1>1, <1>2, <2>1, <2>2, <2>3 DEF SourceWrite
<1>3. ASSUME NEW j \in Keys, SourceSpecWrite(j)
      PROVE  R!Next
  <2> DEFINE o == source[j]
             e == [type |-> "modified", obj |-> o]
  <2>1. e \in I!Events(Objects)
    BY <1>f DEF I!EventTypes, I!Events
  <2>2. I!CacheAfter(e) = o /\ e.type = "modified" /\ e.obj = o
    BY DEF I!CacheAfter
  <2>3. Watch(j, "modified", o) /\ source' = [source EXCEPT ![j] = o]
    BY <1>3, <1>f DEF SourceSpecWrite, external
  <2> HIDE DEF e
  <2> QED BY <1>1, <1>3, <2>1, <2>2, <2>3 DEF SourceSpecWrite, external
<1>4. ASSUME NEW j \in Keys, SourceDelete(j)
      PROVE  R!Next
  <2> DEFINE o == source[j]
             e == [type |-> "deleted", obj |-> o]
  <2>1. e \in I!Events(Objects)
    BY <1>f DEF I!EventTypes, I!Events
  <2>2. I!CacheAfter(e) = Absent /\ e.type = "deleted" /\ e.obj = o
    BY DEF I!CacheAfter
  <2>3. Watch(j, "deleted", o) /\ source' = [source EXCEPT ![j] = Absent]
    BY <1>4, <1>f DEF SourceDelete
  <2> HIDE DEF e
  <2> QED BY <1>1, <1>4, <2>1, <2>2, <2>3 DEF SourceDelete
<1>5. ASSUME NEW j \in Keys, InformerStep(j)
      PROVE  R!Next
  <2>1. UNCHANGED <<source, target, running, worker>>
    BY <1>5 DEF InformerStep, external
  <2>2. ASSUME NEW k \in Copied, k # j PROVE Way(k)' = Way(k)
    BY <1>5, <1>c, <1>k, <1>w, <2>1, <2>2, InformerEvents, WayKept
  <2>3. running
    BY <1>5 DEF InformerStep, StoppedIsEmpty
  <2>4. /\ stream'[j] = Tail(stream[j]) /\ cache'[j] = I!CacheAfter(stream[j][1])
        /\ stream[j] # <<>>
    BY <1>5, InformerEvents DEF InformerStep
  <2>5. ASSUME j \in Copied PROVE Way(j)' = Way(j) \/ R!LeavesOut(Way(j)', Way(j))
    <3> DEFINE c == Coming(j)
               b == Coming(j)'
               H == Holding(j)
    <3>1. b = c \/ b = Tail(c)
      <4>1. /\ cache[j] \in Objects /\ stream[j] \in Seq(I!Events(Objects))
            /\ Len(stream[j]) \in Nat
        BY <1>f, LenProperties
      <4>2. \A i \in 2..Len(stream[j]) : stream[j][i].type # "initial"
        <5>1. \A i \in 2..Len(stream[j]) : i \in 1..Len(stream[j]) /\ i # 1
          BY <4>1
        <5> QED BY <5>1 DEF FirstListFirst
      <4> QED BY <2>4, <4>1, <4>2, UpcomingInformer DEF Coming
    <3>2. /\ H \in SUBSET Objects /\ R!Single(H) /\ c \in Seq(Objects) /\ c # <<>>
          /\ b \in Seq(Objects) /\ b # <<>>
      BY <2>5 DEF InLine
    <3>3. Way(j) = R!Line(H, c) /\ Way(j)' = R!Line(H, b)
      BY <1>w, <2>1, <2>3, <2>5 DEF Way
    <3> HIDE DEF c, b, H
    <3>4. CASE b = c
      BY <3>3, <3>4
    <3>5. CASE b = Tail(c)
      <4>1. c = <<Head(c)>> \o b /\ Head(c) \in Objects
        BY <3>2, <3>5, R!HeadInFront
      <4>2. R!LeavesOut(b, <<Head(c)>> \o b)
        BY <3>2, <4>1, R!LeavesOutFirst
      <4>3. R!LeavesOut(b, c)
        BY <4>1, <4>2
      <4>4. R!LeavesOut(R!Line(H, b), R!Line(H, c))
        BY <3>2, <3>5, <4>3, R!LineShortens
      <4> QED BY <3>3, <4>4
    <3> QED BY <3>1, <3>4, <3>5
  <2> QED BY <1>r, <2>1, <2>2, <2>5
<1>6. CASE NoProcess /\ UNCHANGED <<source, target>>
  <2>1. ASSUME NEW k \in Copied
        PROVE  R!LeavesOut(Way(k)', Append(Way(k), source[k]))
    <3>1. Way(k)' = <<source[k]>> /\ source[k] \in Objects
      BY <1>6, <1>f, <1>k DEF NoProcess, Way
    <3> QED BY <1>t, <3>1, R!LeavesOutButLast
  <2> QED BY <1>r, <1>6, <2>1
<1>7. CASE Relist
  <2>1. UNCHANGED <<source, target, running, worker, cache>> /\ running
    BY <1>7 DEF Relist, external
  <2>2. ASSUME NEW k \in Copied
        PROVE  R!LeavesOut(Way(k)', Append(Way(k), source[k]))
    <3> DEFINE c == Coming(k)
               H == Holding(k)
               u == source[k]
               a == Append(c, u)
               b == Coming(k)'
    <3>1. /\ H \in SUBSET Objects /\ R!Single(H) /\ c \in Seq(Objects) /\ c # <<>>
          /\ u \in Objects /\ b \in Seq(Objects) /\ b # <<>>
      BY <1>f, <1>k DEF InLine
    <3>2. Way(k) = R!Line(H, c) /\ Way(k)' = R!Line(H, b)
      BY <1>w, <2>1 DEF Way
    <3>3. Head(c) = cache[k]
      <4>1. ~First(stream[k])
        <5>1. stream[k] \in Seq(I!Events(Objects))
          BY <1>f, <1>k
        <5>2. stream[k] # <<>> => 1 \in 1..Len(stream[k])
          BY <5>1, TailElements
        <5> QED BY <1>7, <1>f, <1>k, <5>2 DEF Relist, I!HasSynced, First
      <4> QED BY <1>h, <4>1
    <3>4. stream'[k] = I!ReList(u, cache[k]) /\ cache'[k] = cache[k]
      BY <1>7, <1>k, <2>1 DEF Relist
    <3>5. b = <<Head(c), u>> \/ (b = <<Head(c)>> /\ Head(c) = u)
      <4>1. cache[k] \in Objects
        BY <1>f, <1>k
      <4>2. b = I!Upcoming(cache[k], I!ReList(u, cache[k]))
        BY <3>4 DEF Coming
      <4> HIDE DEF b, u
      <4> QED BY <3>1, <3>3, <4>1, <4>2, UpcomingList
    <3> HIDE DEF H, c, u, b
    <3>6. R!Line(H, a) = Append(R!Line(H, c), u)
      BY <3>1, R!LineAppend
    <3>7. /\ a \in Seq(Objects) /\ Len(c) \in Nat \ {0} /\ Len(a) = Len(c) + 1
          /\ \A i \in 1..Len(c) : a[i] = c[i]
      BY <3>1, R!AppendElements, TailElements
    <3>8. R!LeavesOut(b, a)
      BY <3>1, <3>5, R!LeavesOutBetween, R!LeavesOutButLast
    <3> HIDE DEF a
    <3>9. a # <<>> /\ Head(a) = Head(c)
      BY <3>1, <3>7
    <3>10. Head(b) = Head(a)
      BY <3>5, <3>9
    <3>11. R!LeavesOut(R!Line(H, b), R!Line(H, a))
      BY <3>1, <3>7, <3>8, <3>9, <3>10, R!LineShortens
    <3> QED BY <3>2, <3>6, <3>11 DEF u
  <2> QED BY <1>r, <2>1, <2>2
<1>8. CASE Start
  <2>1. UNCHANGED <<source, target, worker, cache>> /\ running' = TRUE /\ ~running
    BY <1>8 DEF Start, external
  <2>2. ASSUME NEW k \in Copied PROVE Way(k)' = Way(k)
    <3>1. Way(k) = <<source[k]>> /\ source[k] \in Objects
      BY <1>f, <1>k, <2>1 DEF Way
    <3>2. cache'[k] = Absent /\ stream'[k] = I!FirstList(source[k])
      BY <1>8, <1>k, <2>1 DEF Start, StoppedIsEmpty
    <3>3. Coming(k)' = <<source[k]>>
      BY <3>1, <3>2, AbsentType, UpcomingList DEF Coming
    <3>4. Holding(k)' = {}
      BY <2>1 DEF Holding, StoppedIsEmpty, IdleWorker, HoldPhases, Requests
    <3>5. Way(k)' = R!Line({}, <<source[k]>>)
      BY <2>1, <3>3, <3>4 DEF Way
    <3> QED BY <3>1, <3>5 DEF R!Line
  <2> QED BY <1>r, <2>1, <2>2
<1>9. ASSUME UNCHANGED <<source, running, stream, cache>>,
             \A k \in Copied : target'[k].gen = target[k].gen /\ Holding(k)' = Holding(k)
      PROVE  R!Next
  BY <1>9, <1>c, <1>r, WayKept
<1>10. ASSUME NEW v \in Workers, NEW j \in Keys, GetItem(v, j)
       PROVE  R!Next
  <2>1. /\ worker'[v].pc = "process" /\ worker[v].pc = "idle"
        /\ \A w \in Workers : w # v => worker'[w] = worker[w]
    BY <1>10, <1>f DEF GetItem, WorkerTypes
  <2>2. worker[v].pc \notin HoldPhases /\ worker'[v].pc \notin HoldPhases
    BY <2>1 DEF HoldPhases, Requests
  <2>3. \A k \in Copied : Holding(k)' = Holding(k)
    BY <2>1, <2>2 DEF Holding
  <2> QED BY <1>9, <1>10, <2>3 DEF GetItem, external, informer
<1>11. ASSUME NEW v \in Workers, FinishItem(v)
       PROVE  R!Next
  <2>1. /\ worker'[v] = IdleWorker
        /\ \A w \in Workers : w # v => worker'[w] = worker[w]
        /\ worker[v].pc \in {"done", "failed"}
    BY <1>11, <1>f DEF FinishItem
  <2>2. worker[v].pc \notin HoldPhases /\ worker'[v].pc \notin HoldPhases
    BY <2>1 DEF HoldPhases, IdleWorker, Requests
  <2>3. \A k \in Copied : Holding(k)' = Holding(k)
    BY <2>1, <2>2 DEF Holding
  <2> QED BY <1>9, <1>11, <2>3 DEF FinishItem, external, informer
<1>12. ASSUME NEW j \in Copied, TargetTouch(j)
       PROVE  R!Next
  <2>1. target[j] \in Copies
    BY <1>f
  <2>2. target' = [target EXCEPT ![j] = [target[j] EXCEPT !.rv = target[j].rv + 1]]
    BY <1>12 DEF TargetTouch
  <2>3. \A k \in Copied : target'[k].gen = target[k].gen
    BY <1>f, <2>1, <2>2, CopyTypes
  <2> QED BY <1>9, <1>12, <1>w, <2>3 DEF TargetTouch, informer
<1>13. ASSUME NEW v \in Workers, CarriesOn(v)
       PROVE  R!Next
  <2>1. UNCHANGED <<source, running, stream, cache>> /\ worker[v].pc # "idle" /\ running
    BY <1>13, <1>b, CarryOn DEF informer
  <2>j. PICK j \in Keys : j = worker[v].key
    BY <2>1, BusyWorker
  <2>2. ASSUME NEW k \in Copied, k # j
        PROVE  Way(k)' = Way(k) /\ target'[k] = target[k]
    <3>1. Holding(k)' = Holding(k)
      BY <1>13, <2>2, <2>j, HoldingAfterWork
    <3> QED BY <1>13, <1>c, <2>1, <2>2, <2>j, <3>1, CarryOnCopies, WayKept
  <2>3. CASE j \notin Copied
    BY <1>r, <2>1, <2>2, <2>3
  <2>4. CASE j \in Copied
    <3> DEFINE o == worker'[v].obj
               c == Coming(j)
               H == Holding(j)
               G == Holding(j)'
    <3>1. /\ H \in SUBSET Objects /\ R!Single(H) /\ c \in Seq(Objects) /\ c # <<>>
          /\ G \in SUBSET Objects
      BY <2>4 DEF InLine
    <3>2. Way(j) = R!Line(H, c) /\ Way(j)' = R!Line(G, c)
      BY <1>c, <2>1, <2>4 DEF Way
    <3>3. /\ H = IF worker[v].pc \in HoldPhases THEN {worker[v].obj} ELSE {}
          /\ G = {} \/ G = {o}
      BY <1>13, <2>4, <2>j, HoldingAfterWork
    <3>4. CASE worker[v].pc = "process" /\ o = cache[j] /\ target' = target
      <4>1. H = {}
        BY <3>3, <3>4 DEF HoldPhases, Requests
      <4>2. ~First(stream[j])
        <5>1. stream[j] \in Seq(I!Events(Objects))
          BY <1>f, <1>k, <2>4
        <5>2. stream[j] # <<>> => 1 \in 1..Len(stream[j])
          BY <5>1, TailElements
        <5> QED BY <1>k, <2>1, <2>4, <5>2 DEF FirstListFirst, First
      <4>3. Head(c) = o
        BY <1>h, <2>4, <3>4, <4>2
      <4>4. Way(j)' = Way(j)
        <5> HIDE DEF c, H, G, o
        <5> QED BY <3>2, <3>3, <4>1, <4>3 DEF R!Line
      <4> QED BY <1>r, <2>1, <2>2, <3>4, <4>4
    <3>5. CASE /\ worker[v].pc \in HoldPhases /\ o = worker[v].obj
               /\ \/ \A k \in Copied : target'[k].gen = target[k].gen
                  \/ target'[j].gen = o.gen
      <4>1. H = {o} /\ o \in H /\ o \in Objects
        BY <3>1, <3>3, <3>5
      <4>2. R!LeavesOut(Way(j)', Way(j)) /\ Head(Way(j)) = o
        <5> HIDE DEF c, H, G, o
        <5>1. R!LeavesOut(c, R!Line(H, c)) /\ Head(R!Line(H, c)) = o
          BY <3>1, <4>1, R!LineGiven, R!LineForms
        <5>2. G = {} => R!Line(G, c) = c
          BY DEF R!Line
        <5> QED BY <3>2, <3>3, <4>1, <5>1, <5>2, R!LeavesOutNothing
      <4>3. CASE \A k \in Copied : target'[k].gen = target[k].gen
        BY <1>r, <2>1, <2>2, <4>2, <4>3
      <4>4. CASE target'[j].gen = o.gen
        <5>1. Head(Trail(j)) = o.gen
          <6>1. Trail(j) = R!Mapped(GenOf, Way(j)) /\ Way(j) \in Seq(Objects) /\ Way(j) # <<>>
            BY <2>4 DEF InLine
          <6>2. Head(R!Mapped(GenOf, Way(j))) = GenOf[Head(Way(j))]
            BY <6>1, GenOfType, R!MappedElements
          <6> QED BY <4>1, <4>2, <6>1, <6>2, GenOfType
        <5>2. R!LeavesOut(Trail(j)', Trail(j))
          BY <2>4, <4>1, <4>2, TrailLeavesOut
        <5>3. R!Only(j, trl, ntrl)
          BY <1>o, <2>2, <2>4
        <5>4. trl[j] = Trail(j) /\ ntrl[j] = Trail(j)'
          BY <2>4
        <5>5. tgt' = [tgt EXCEPT ![j] = Head(trl[j])]
          BY <2>2, <2>4, <4>4, <5>1, <5>4
        <5>6. src' = src
          BY <2>1
        <5>7. R!Give(j)
          BY <5>2, <5>3, <5>4, <5>5, <5>6 DEF R!Give
        <5> QED BY <2>4, <5>7 DEF R!Next
      <4> QED BY <3>5, <4>3, <4>4
    <3> QED BY <1>13, <2>j, <3>4, <3>5, CarryOnGives
  <2> QED BY <2>3, <2>4
<1>14. CASE UNCHANGED <<source, target, running, stream, cache, worker>>
  BY <1>9, <1>14, <1>w
<1> QED BY <1>2, <1>3, <1>4, <1>5, <1>6, <1>7, <1>8, <1>10, <1>11, <1>12, <1>13, <1>14
        DEF Next, vars, external, informer, CarriesOn, Handle, HandleTombstone, Backoff, Crash

\* The status syncer implements Replication: every status it writes to a copy on
\* the global hub is one that the object had on the regional hub, and never an
\* earlier one than it wrote before, for any number of objects and workers and
\* through conflicts, failed requests whose error is dropped or whose effect is
\* not known, broken watches, panics of the handlers and restarts.
THEOREM StatusesFollowHistory == Spec => Replicates
<1> DEFINE Inv == Typed /\ WorkSerialised /\ StoppedIsEmpty /\ FirstListFirst
           Lines == \A k \in Copied : InLine(k)
<1>1. Init => Inv
  <2> SUFFICES ASSUME Init PROVE Inv
    OBVIOUS
  <2>1. WorkSerialised
    BY EmptyQueueType DEF Init, WorkSerialised, IdleWorker
  <2> QED BY <2>1, InitType DEF Init, StoppedIsEmpty, FirstListFirst
<1>2. Inv /\ [Next]_vars => Inv'
  BY NextTyped, NextSerialised, NextStopped, NextFirstListFirst
<1>3. Inv => Lines
  BY TrailsInLine
<1>4. Inv /\ Lines /\ Lines' /\ [Next]_vars => [R!Next]_(R!vars)
  <2> SUFFICES ASSUME Inv, Lines, Lines', [Next]_vars
               PROVE  [R!Next]_(R!vars)
    OBVIOUS
  <2> QED BY NextReplicates
<1>5. Init => R!Init
  <2> SUFFICES ASSUME Init PROVE R!Init
    OBVIOUS
  <2>1. \A k \in Copied : source[k].gen = 0 /\ target[k].gen = 0 /\ Trail(k) = <<0>>
    BY CopiedKeys DEF Init, Absent, NoCopy, Trail
  <2> QED BY <2>1 DEF R!Init
<1> QED BY <1>1, <1>2, <1>3, <1>4, <1>5, PTL DEF Spec, Replicates, R!Spec

===============================================================================
