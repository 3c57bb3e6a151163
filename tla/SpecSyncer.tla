------------------------------ MODULE SpecSyncer ------------------------------
(***************************************************************************)
(* The spec syncer of a regional hub: the Controller of syncer/syncer.go   *)
(* with direction SyncDown, and syncer/specsyncer.go.                      *)
(*                                                                         *)
(* It copies the policies, placement bindings and placement rules of the   *)
(* global hub (upstream) to the regional hub (downstream).  An object is   *)
(* copied when it is "ready": its original-namespace label names its own   *)
(* namespace, which a controller of the global hub sees to.                *)
(*                                                                         *)
(* An object is abstracted to gen, which identifies its content apart from *)
(* its status (every content write makes a fresh one), and ready.          *)
(***************************************************************************)
EXTENDS Integers, Sequences, FiniteSets, Workqueue

CONSTANTS
    Keys,          \* the objects: resource, namespace and name
    Namespaces,
    NamespaceOf,   \* the namespace of every key
    Workers,       \* the worker goroutines (numThreads)
    NoKey,         \* the key of a worker that has none
    ReadyLabels,   \* the readiness an upstream write may give an object
    MaxWrites,     \* bound: upstream writes (content and status)
    MaxFaults,     \* bound: failed requests to the regional hub
    MaxRelists,    \* bound: broken watches
    MaxCrashes     \* bound: restarts of the syncer besides the first start

ASSUME SyncerAssumption ==
    /\ NamespaceOf \in [Keys -> Namespaces]
    /\ NoKey \notin Keys
    /\ ReadyLabels \subseteq BOOLEAN
    /\ {MaxWrites, MaxFaults, MaxRelists, MaxCrashes} \subseteq Nat

VARIABLES
    upstream,      \* the objects of the global hub
    downstream,    \* the objects of the regional hub
    namespaces,    \* the namespaces of the regional hub
    running,       \* the syncer process is up
    stream,        \* watch events not yet applied to the informer's cache
    cache,         \* the informer's indexer
    notify,        \* notifications not yet handled by the event handlers
    queue,         \* the work queue
    worker,        \* what every worker is doing
    writes, faults, relists, crashes

external == <<upstream, downstream, namespaces>>
process == <<running, stream, cache, notify, queue, worker>>
counters == <<writes, faults, relists, crashes>>
vars == <<upstream, downstream, namespaces, running, stream, cache, notify,
          queue, worker, writes, faults, relists, crashes>>

Absent == [gen |-> 0, ready |-> FALSE]
Objects == [gen : Nat, ready : BOOLEAN]

I == INSTANCE Informer

Phases == {"idle", "process", "ensure", "patch", "delete", "done", "failed"}
IdleWorker == [pc |-> "idle", key |-> NoKey, obj |-> Absent]

TypeOK ==
    /\ upstream \in [Keys -> Objects]
    /\ downstream \in [Keys -> Objects]
    /\ namespaces \subseteq Namespaces
    /\ running \in BOOLEAN
    /\ stream \in [Keys -> Seq(I!Events(Objects))]
    /\ cache \in [Keys -> Objects]
    /\ notify \in [Keys -> Seq(I!Notifications(Objects))]
    /\ queue \in Queues(Keys)
    /\ worker \in [Workers -> [pc : Phases, key : Keys \cup {NoKey},
                               obj : Objects]]
    /\ writes \in 0..MaxWrites
    /\ faults \in 0..MaxFaults
    /\ relists \in 0..MaxRelists
    /\ crashes \in 0..MaxCrashes

\* The state of a process that is not running: nothing survives in memory.
NoProcess ==
    /\ running' = FALSE
    /\ stream' = [k \in Keys |-> <<>>]
    /\ cache' = [k \in Keys |-> Absent]
    /\ notify' = [k \in Keys |-> <<>>]
    /\ queue' = EmptyQueue
    /\ worker' = [w \in Workers |-> IdleWorker]

Init ==
    /\ upstream = [k \in Keys |-> Absent]
    /\ downstream = [k \in Keys |-> Absent]
    /\ namespaces = {}
    /\ running = FALSE
    /\ stream = [k \in Keys |-> <<>>]
    /\ cache = [k \in Keys |-> Absent]
    /\ notify = [k \in Keys |-> <<>>]
    /\ queue = EmptyQueue
    /\ worker = [w \in Workers |-> IdleWorker]
    /\ writes = 0
    /\ faults = 0
    /\ relists = 0
    /\ crashes = 0

-------------------------------------------------------------------------------
(* The global hub: users and its controllers write and delete objects.     *)

Watch(k, type, obj) ==
    stream' = IF running
              THEN [stream EXCEPT ![k] = Append(@, [type |-> type, obj |-> obj])]
              ELSE stream

UpstreamWrite(k, ready) ==
    /\ writes < MaxWrites
    /\ writes' = writes + 1
    /\ LET obj == [gen |-> writes + 1, ready |-> ready]
       IN  /\ upstream' = [upstream EXCEPT ![k] = obj]
           /\ Watch(k, "modified", obj)
    /\ UNCHANGED <<downstream, namespaces, running, cache, notify, queue,
                   worker, faults, relists, crashes>>

\* A write of the status alone; a resync of the informer looks the same.
UpstreamStatusWrite(k) ==
    /\ upstream[k] # Absent
    /\ writes < MaxWrites
    /\ writes' = writes + 1
    /\ Watch(k, "modified", upstream[k])
    /\ UNCHANGED <<upstream, downstream, namespaces, running, cache, notify,
                   queue, worker, faults, relists, crashes>>

UpstreamDelete(k) ==
    /\ upstream[k] # Absent
    /\ upstream' = [upstream EXCEPT ![k] = Absent]
    /\ Watch(k, "deleted", upstream[k])
    /\ UNCHANGED <<downstream, namespaces, running, cache, notify, queue,
                   worker, counters>>

-------------------------------------------------------------------------------
(* The informer and the event handlers of New.                             *)

\* The watch breaks and the reflector lists again.
Relist ==
    /\ running
    /\ I!HasSynced(stream)
    /\ relists < MaxRelists
    /\ relists' = relists + 1
    /\ stream' = [k \in Keys |-> I!ReList(upstream[k], cache[k])]
    /\ UNCHANGED <<external, running, cache, notify, queue, worker, writes,
                   faults, crashes>>

InformerStep(k) ==
    /\ stream[k] # <<>>
    /\ LET event == Head(stream[k])
       IN  /\ cache' = [cache EXCEPT ![k] = I!CacheAfter(event)]
           /\ notify' = [notify EXCEPT
                            ![k] = Append(@, I!NotificationOf(event, cache[k]))]
    /\ stream' = [stream EXCEPT ![k] = Tail(@)]
    /\ UNCHANGED <<external, running, queue, worker, counters>>

\* Mutant: the specs are not compared.
ComparesLabelOnly(old, new) == old.ready = new.ready

deepEqualApartFromStatus(old, new) == old = new

\* Mutant: there is no DeleteFunc.
IgnoresDeletions(n) ==
    n.type \in {"add", "update"} /\ n.new.ready /\ n.old # n.new

\* AddFunc, UpdateFunc and DeleteFunc: is the object added to the queue?
ShouldEnqueue(n) ==
    \/ n.type = "add" /\ n.new.ready
    \/ n.type = "update" /\ n.new.ready /\ ~deepEqualApartFromStatus(n.old, n.new)
    \/ n.type = "delete" /\ n.old.ready

Handle(k) ==
    /\ notify[k] # <<>>
    /\ Head(notify[k]).type # "tombstone"
    /\ queue' = IF ShouldEnqueue(Head(notify[k])) THEN Add(queue, k) ELSE queue
    /\ notify' = [notify EXCEPT ![k] = Tail(@)]
    /\ UNCHANGED <<external, running, stream, cache, worker, counters>>

\* DeleteFunc is given a tombstone: the failed type assertion leaves a nil
\* *Unstructured, and GetNamespace() on it panics, which ends the process.
HandleTombstone(k) ==
    /\ notify[k] # <<>>
    /\ Head(notify[k]).type = "tombstone"
    /\ NoProcess
    /\ UNCHANGED <<external, counters>>

-------------------------------------------------------------------------------
(* The workers: processNextWorkItem and process.                           *)

\* Worker w goes on to pc with the object obj.
Work(w, pc, obj) ==
    worker' = [worker EXCEPT ![w] = [pc |-> pc, key |-> @.key, obj |-> obj]]

Move(w, pc) == Work(w, pc, worker[w].obj)

\* Mutant: the item is done before it is processed.
DoneAtOnce(w, k) ==
    /\ running
    /\ I!HasSynced(stream)
    /\ worker[w].pc = "idle"
    /\ CanGet(queue, k)
    /\ queue' = Done(Get(queue, k), k)
    /\ worker' = [worker EXCEPT ![w] = [pc |-> "process", key |-> k, obj |-> Absent]]
    /\ UNCHANGED <<external, running, stream, cache, notify, counters>>

\* Start waits for the caches before it starts the workers.
GetItem(w, k) ==
    /\ running
    /\ I!HasSynced(stream)
    /\ worker[w].pc = "idle"
    /\ CanGet(queue, k)
    /\ queue' = Get(queue, k)
    /\ worker' = [worker EXCEPT ![w] = [pc |-> "process", key |-> k, obj |-> Absent]]
    /\ UNCHANGED <<external, running, stream, cache, notify, counters>>

Process(w) ==
    /\ worker[w].pc = "process"
    /\ LET obj == cache[worker[w].key]
       IN  Work(w, IF obj = Absent THEN "delete" ELSE "ensure", obj)
    /\ UNCHANGED <<external, running, stream, cache, notify, queue, counters>>

\* Mutant: the namespace is given the name of the object.
NamesNamespaceAfterObject(w) ==
    /\ worker[w].pc = "ensure"
    /\ namespaces' = namespaces \cup {worker[w].key}
    /\ Move(w, "patch")
    /\ UNCHANGED <<upstream, downstream, running, stream, cache, notify, queue,
                   counters>>

ensureDownstreamNamespaceExists(w) ==
    /\ worker[w].pc = "ensure"
    /\ namespaces' = namespaces \cup {NamespaceOf[worker[w].key]}
    /\ Move(w, "patch")
    /\ UNCHANGED <<upstream, downstream, running, stream, cache, notify, queue,
                   counters>>

\* The server-side apply of applyToDownstream.
applyToDownstream(w) ==
    /\ worker[w].pc = "patch"
    /\ NamespaceOf[worker[w].key] \in namespaces
    /\ downstream' = [downstream EXCEPT ![worker[w].key] = worker[w].obj]
    /\ Move(w, "done")
    /\ UNCHANGED <<upstream, namespaces, running, stream, cache, notify, queue,
                   counters>>

\* An object that is not there is a NotFound error, returned like any other.
deleteFromDownstream(w) ==
    /\ worker[w].pc = "delete"
    /\ downstream' = [downstream EXCEPT ![worker[w].key] = Absent]
    /\ Move(w, IF downstream[worker[w].key] = Absent THEN "failed" ELSE "done")
    /\ UNCHANGED <<upstream, namespaces, running, stream, cache, notify, queue,
                   counters>>

\* A request to the regional hub fails; done says whether it took effect
\* there before its answer was lost.
RequestFails(w, done) ==
    /\ worker[w].pc \in {"ensure", "patch", "delete"}
    /\ faults < MaxFaults
    /\ faults' = faults + 1
    /\ Move(w, "failed")
    /\ LET k == worker[w].key
       IN  /\ namespaces' = IF done /\ worker[w].pc = "ensure"
                            THEN namespaces \cup {NamespaceOf[k]} ELSE namespaces
           /\ downstream' = IF done /\ worker[w].pc \in {"patch", "delete"}
                            THEN [downstream EXCEPT ![k] = worker[w].obj]
                            ELSE downstream
    /\ UNCHANGED <<upstream, running, stream, cache, notify, queue, writes,
                   relists, crashes>>

\* Mutant: the error of process is dropped.
ForgetsError(w) ==
    /\ worker[w].pc \in {"done", "failed"}
    /\ queue' = Done(queue, worker[w].key)
    /\ worker' = [worker EXCEPT ![w] = IdleWorker]
    /\ UNCHANGED <<external, running, stream, cache, notify, counters>>

\* The end of processNextWorkItem: an error puts the key back, rate limited.
FinishItem(w) ==
    /\ worker[w].pc \in {"done", "failed"}
    /\ LET k == worker[w].key
       IN  queue' = IF worker[w].pc = "failed"
                    THEN Done(AddRateLimited(queue, k), k)
                    ELSE Done(queue, k)
    /\ worker' = [worker EXCEPT ![w] = IdleWorker]
    /\ UNCHANGED <<external, running, stream, cache, notify, counters>>

Backoff(k) ==
    /\ k \in queue.delayed
    /\ queue' = BackoffOver(queue, k)
    /\ UNCHANGED <<external, running, stream, cache, notify, worker, counters>>

-------------------------------------------------------------------------------
(* The process.                                                            *)

Crash ==
    /\ running
    /\ crashes < MaxCrashes
    /\ crashes' = crashes + 1
    /\ NoProcess
    /\ UNCHANGED <<external, writes, faults, relists>>

\* StartSyncer: the informers list everything.
Start ==
    /\ ~running
    /\ running' = TRUE
    /\ stream' = [k \in Keys |-> I!FirstList(upstream[k])]
    /\ UNCHANGED <<external, cache, notify, queue, worker, counters>>

WorkerStep(w) ==
    \/ Process(w)
    \/ ensureDownstreamNamespaceExists(w)
    \/ applyToDownstream(w)
    \/ deleteFromDownstream(w)
    \/ FinishItem(w)

Next ==
    \/ \E k \in Keys :
          \/ \E ready \in ReadyLabels : UpstreamWrite(k, ready)
          \/ UpstreamStatusWrite(k)
          \/ UpstreamDelete(k)
          \/ InformerStep(k)
          \/ Handle(k)
          \/ HandleTombstone(k)
          \/ Backoff(k)
          \/ \E w \in Workers : GetItem(w, k)
    \/ \E w \in Workers :
          \/ WorkerStep(w)
          \/ \E done \in BOOLEAN : RequestFails(w, done)
    \/ Relist
    \/ Crash
    \/ Start

Spec == Init /\ [][Next]_vars

\* The goroutines of the syncer keep running and a crashed syncer is started
\* again (a Deployment).  The queue is FIFO, so an item that can be taken again
\* and again is taken.  Nothing is assumed of the global hub or of requests
\* failing, which MaxWrites and MaxFaults bound.
Fairness ==
    /\ \A k \in Keys :
          /\ WF_vars(InformerStep(k))
          /\ WF_vars(Handle(k) \/ HandleTombstone(k))
          /\ WF_vars(Backoff(k))
          /\ SF_vars(\E w \in Workers : GetItem(w, k))
    /\ \A w \in Workers : WF_vars(WorkerStep(w))
    /\ WF_vars(Start)

FairSpec == Spec /\ Fairness

-------------------------------------------------------------------------------
(* Properties.                                                             *)

\* Nothing about k is on its way through the syncer.
Quiet(k) == stream[k] = <<>> /\ notify[k] = <<>> /\ Idle(queue, k)

\* The queue never gives one object to two workers, and exactly the items it
\* believes to be in processing are in a worker's hands.  processNextWorkItem
\* relies on it: process has no lock of its own.
WorkSerialised ==
    /\ \A v, w \in Workers :
          v # w /\ worker[v].key # NoKey => worker[v].key # worker[w].key
    /\ queue.processing = {worker[w].key : w \in Workers} \ {NoKey}

\* A worker has a key exactly while it processes an item.
WorkersKeyed ==
    \A w \in Workers : worker[w].pc = "idle" <=> worker[w].key = NoKey

\* Nothing of the process exists while it is down.
StoppedIsEmpty ==
    ~running => /\ stream = [k \in Keys |-> <<>>]
                /\ cache = [k \in Keys |-> Absent]
                /\ notify = [k \in Keys |-> <<>>]
                /\ queue = EmptyQueue
                /\ worker = [w \in Workers |-> IdleWorker]

\* The events on their way lead the cache to what the global hub has.
CacheFollows ==
    running => \A k \in Keys :
        IF stream[k] = <<>>
        THEN cache[k] = upstream[k]
        ELSE I!CacheAfter(stream[k][Len(stream[k])]) = upstream[k]

\* An item of a worker will write what the cache holds, or be queued again.
WillApply(w, k) ==
    /\ worker[w].key = k
    /\ \/ worker[w].pc \in {"process", "failed"}
       \/ /\ worker[w].pc \in {"ensure", "patch", "delete"}
          /\ worker[w].obj = cache[k]

Applied(k) ==
    /\ downstream[k] = cache[k]
    /\ \A w \in Workers : worker[w].key = k => worker[w].pc = "done"

\* A handler is still to be told of a change that it will queue.
Notified(k) == \E i \in 1..Len(notify[k]) : ShouldEnqueue(notify[k][i])

Pending(k) ==
    \/ Notified(k)
    \/ k \in queue.dirty \cup queue.delayed
    \/ \E w \in Workers : WillApply(w, k)
    \/ Applied(k)

\* No deletion can have been missed.
NothingMissed == relists = 0 /\ crashes = 0

\* What the cache holds for k has to reach the regional hub: a ready object, and
\* a deletion if it was not missed and all objects are ready.
Due(k) == cache[k].ready \/ (NothingMissed /\ ReadyLabels \subseteq {TRUE})

\* What is due is applied, or something that will apply it is under way.  This
\* is why ReadyInSync and DeletedInSync hold: a handler that skips an object,
\* and a worker that ends its item, leave nothing behind that still counts.
NothingForgotten ==
    running => \A k \in Keys : Due(k) => Pending(k)

\* When the syncer has nothing left to do for a ready object, the regional hub
\* has its latest content: no update is lost between the watch, the cache, the
\* handlers, the queue and the workers, whatever fails, crashes or is missed
\* by the watch (process, AddFunc, UpdateFunc).
ReadyInSync ==
    running => \A k \in Keys :
        Quiet(k) /\ upstream[k].ready => downstream[k] = upstream[k]

\* As long as no deletion can have been missed, when the syncer has nothing left
\* to do for a deleted object the regional hub does not have it either, though
\* requests fail and the object is created again meanwhile (DeleteFunc,
\* deleteFromDownstream).
DeletedInSync ==
    running /\ NothingMissed => \A k \in Keys :
        Quiet(k) /\ upstream[k] = Absent => downstream[k] = Absent

\* The content on the regional hub never goes back to an earlier one: a worker
\* that read the cache long ago never overwrites what a later one applied.
NoRegression ==
    [][\A k \in Keys : downstream'[k] # Absent =>
                          downstream'[k].gen >= downstream[k].gen]_vars

\* The contents of k that the regional hub may still be given: the one in the
\* hands of a worker, the one in the cache and those of the events under way.
Trail(k) ==
    LET holders == {w \in Workers : /\ worker[w].key = k
                                    /\ worker[w].pc \in {"ensure", "patch", "delete"}}
        coming == I!Upcoming(cache[k], stream[k])
    IN  IF ~running THEN <<upstream[k]>>
        ELSE IF \A w \in holders : worker[w].obj = Head(coming) THEN coming
        ELSE <<worker[CHOOSE w \in holders : TRUE].obj>> \o coming

R == INSTANCE Replication WITH
        source <- upstream, target <- downstream,
        trail <- [k \in Keys |-> Trail(k)]

\* Every write to the regional hub follows the history of the object on the
\* global hub: a content that was there, never one older than what the regional
\* hub was given before, deleted and created again in the order in which that
\* happened, whatever fails, crashes or is missed (process, applyToDownstream,
\* deleteFromDownstream implement Replication).
Replicates == R!Spec

\* Once the global hub stops changing, every ready object arrives on the
\* regional hub, through failed requests, broken watches and crashes.
ReadyArrives ==
    \A k \in Keys : <>[](upstream[k].ready => downstream[k] = upstream[k])

\* Once the global hub stops changing, every deletion of a ready object that was
\* not missed arrives as well, although the deletion of an object that is not
\* there is retried for ever.
DeletionArrives ==
    \A k \in Keys :
        <>[](NothingMissed /\ upstream[k] = Absent => downstream[k] = Absent)

\* "Synchronizes resources from the global hub to the regional hubs"
\* (cmd/syncer/cmd/syncer.go:22), deletions included.
RegionalHubFollows ==
    \A k \in Keys : <>[](downstream[k] = upstream[k])
===============================================================================
