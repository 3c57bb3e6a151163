----------------------------- MODULE StatusSyncer -----------------------------
(***************************************************************************)
(* The status syncer of a regional hub: the Controller of syncer/syncer.go *)
(* with direction SyncUp, and syncer/statussyncer.go.                      *)
(*                                                                         *)
(* It copies what happens on the regional hub (the source) to the global   *)
(* hub (the target): the status of policies, into their copies in the      *)
(* namespace of the syncer, the managed clusters, and a HubControlPlane    *)
(* that lists the managed clusters by availability and the addons.  The    *)
(* HubControlPlane is computed from the informers' caches whenever the CRD *)
(* of managed clusters, an addon or a managed cluster is processed.        *)
(*                                                                         *)
(* An object of the source is abstracted to gen, which identifies its      *)
(* status (every status write makes a fresh one), and avail, what the      *)
(* status says of a managed cluster's availability.                        *)
(***************************************************************************)
EXTENDS Integers, Sequences, FiniteSets, Workqueue

CONSTANTS
    Policies, ManagedClusters, Addons,   \* the objects of the regional hub,
    HubCrd,        \* the CRD of managed clusters
    OtherCrds,     \* and other CRDs
    Workers,       \* the worker goroutines (numThreads)
    NoKey,         \* the key of a worker that has none
    Availabilities,\* what a status may say of availability
    PodNamespace,  \* is the environment variable POD_NAMESPACE set?
    FaultPoints,   \* the requests that may fail
    Deletions,     \* may objects of the regional hub be deleted?
    MaxWrites,     \* bound: writes on the regional hub
    MaxTouches,    \* bound: other writes to the copies on the global hub
    MaxFaults,     \* bound: failed requests
    MaxRelists,    \* bound: broken watches
    MaxCrashes     \* bound: restarts of the syncer besides the first start

Requests == {"hcpMain", "hcpStatus", "get", "update", "applyMain", "applyStatus"}
AllAvailabilities == {"True", "False", "Unknown", "NoConditions", "NotAvailableType"}

ASSUME StatusAssumption ==
    /\ Availabilities \subseteq AllAvailabilities
    /\ FaultPoints \subseteq Requests
    /\ {PodNamespace, Deletions} \subseteq BOOLEAN
    /\ {MaxWrites, MaxTouches, MaxFaults, MaxRelists, MaxCrashes} \subseteq Nat

Keys == Policies \cup ManagedClusters \cup Addons \cup {HubCrd} \cup OtherCrds
Copied == Policies \cup ManagedClusters

ASSUME KeysAssumption ==
    /\ NoKey \notin Keys
    /\ Copied \cap OtherCrds = {}    \* objects of different kinds
    /\ (ManagedClusters \cup Addons) \cap (Policies \cup OtherCrds) = {}

VARIABLES
    source,        \* the objects of the regional hub
    target,        \* their copies on the global hub
    hcp,           \* the HubControlPlane of this hub on the global hub
    running,       \* the syncer process is up
    stream,        \* watch events not yet applied to the informers' caches
    cache,         \* the informers' indexers
    notify,        \* notifications not yet handled by the event handlers
    queue,         \* the work queue
    worker,        \* what every worker is doing
    writes, touches, faults, relists, crashes,
    dropped,       \* history: the objects whose latest apply failed
    contested      \* history: the latest HubControlPlane was computed while another
                   \* one was still to be applied, or an apply of one has failed since

external == <<source, target, hcp>>
informer == <<running, stream, cache, notify>>
counters == <<writes, touches, faults, relists, crashes>>
history == <<dropped, contested>>
vars == <<source, target, hcp, running, stream, cache, notify, queue, worker,
          writes, touches, faults, relists, crashes, dropped, contested>>

Objects == [gen : Nat, avail : AllAvailabilities]
Absent == [gen |-> 0, avail |-> "NoConditions"]

I == INSTANCE Informer

\* A copy: is there one, the status it has (0: none) and its resource version.
Copies == [exists : BOOLEAN, gen : Nat, rv : Nat]
NoCopy == [exists |-> FALSE, gen |-> 0, rv |-> 0]

ControlPlanes == [available : SUBSET ManagedClusters,
                  unavailable : SUBSET ManagedClusters,
                  unknown : SUBSET ManagedClusters, addons : SUBSET Addons]
EmptyControlPlane ==
    [available |-> {}, unavailable |-> {}, unknown |-> {}, addons |-> {}]

Phases == Requests \cup {"idle", "process", "hcp", "done", "failed"}
IdleWorker == [pc |-> "idle", key |-> NoKey, obj |-> Absent,
               hcp |-> EmptyControlPlane, rv |-> 0]

TypeOK ==
    /\ source \in [Keys -> Objects]
    /\ target \in [Copied -> Copies]
    /\ hcp \in ControlPlanes
    /\ running \in BOOLEAN
    /\ stream \in [Keys -> Seq(I!Events(Objects))]
    /\ cache \in [Keys -> Objects]
    /\ notify \in [Keys -> Seq(I!Notifications(Objects))]
    /\ queue \in Queues(Keys)
    /\ worker \in [Workers -> [pc : Phases, key : Keys \cup {NoKey}, obj : Objects,
                               hcp : ControlPlanes, rv : Nat]]
    /\ writes \in 0..MaxWrites
    /\ touches \in 0..MaxTouches
    /\ faults \in 0..MaxFaults
    /\ relists \in 0..MaxRelists
    /\ crashes \in 0..MaxCrashes
    /\ dropped \subseteq Keys
    /\ contested \in BOOLEAN

NoProcess ==
    /\ running' = FALSE
    /\ stream' = [k \in Keys |-> <<>>]
    /\ cache' = [k \in Keys |-> Absent]
    /\ notify' = [k \in Keys |-> <<>>]
    /\ queue' = EmptyQueue
    /\ worker' = [w \in Workers |-> IdleWorker]
    /\ dropped' = {}
    /\ contested' = FALSE

Init ==
    /\ source = [k \in Keys |-> Absent]
    /\ target = [k \in Copied |-> NoCopy]
    /\ hcp = EmptyControlPlane
    /\ running = FALSE
    /\ stream = [k \in Keys |-> <<>>]
    /\ cache = [k \in Keys |-> Absent]
    /\ notify = [k \in Keys |-> <<>>]
    /\ queue = EmptyQueue
    /\ worker = [w \in Workers |-> IdleWorker]
    /\ writes = 0
    /\ touches = 0
    /\ faults = 0
    /\ relists = 0
    /\ crashes = 0
    /\ dropped = {}
    /\ contested = FALSE

-------------------------------------------------------------------------------
(* The regional hub and the global hub.                                    *)

Watch(k, type, obj) ==
    stream' = IF running
              THEN [stream EXCEPT ![k] = Append(@, [type |-> type, obj |-> obj])]
              ELSE stream

\* An object is created, or its status is written.
SourceWrite(k, avail) ==
    /\ writes < MaxWrites
    /\ writes' = writes + 1
    /\ k \notin ManagedClusters => avail = Absent.avail
    /\ LET obj == [gen |-> writes + 1, avail |-> avail]
       IN  /\ source' = [source EXCEPT ![k] = obj]
           /\ Watch(k, "modified", obj)
    /\ UNCHANGED <<target, hcp, running, cache, notify, queue, worker, touches,
                   faults, relists, crashes, history>>

\* A write of something else than the status; a resync looks the same.
SourceSpecWrite(k) ==
    /\ source[k] # Absent
    /\ writes < MaxWrites
    /\ writes' = writes + 1
    /\ Watch(k, "modified", source[k])
    /\ UNCHANGED <<external, running, cache, notify, queue, worker, touches,
                   faults, relists, crashes, history>>

SourceDelete(k) ==
    /\ Deletions
    /\ source[k] # Absent
    /\ source' = [source EXCEPT ![k] = Absent]
    /\ Watch(k, "deleted", source[k])
    /\ UNCHANGED <<target, hcp, running, cache, notify, queue, worker, counters, history>>

\* The policy controller of the global hub, or a user, writes to a copy.
TargetTouch(k) ==
    /\ target[k].exists
    /\ touches < MaxTouches
    /\ touches' = touches + 1
    /\ target' = [target EXCEPT ![k].rv = @ + 1]
    /\ UNCHANGED <<source, hcp, informer, queue, worker, writes, faults, relists,
                   crashes, history>>

-------------------------------------------------------------------------------
(* The informers and the event handlers of New.                            *)

Relist ==
    /\ running
    /\ I!HasSynced(stream)
    /\ relists < MaxRelists
    /\ relists' = relists + 1
    /\ stream' = [k \in Keys |-> I!ReList(source[k], cache[k])]
    /\ UNCHANGED <<external, running, cache, notify, queue, worker, writes,
                   touches, faults, crashes, history>>

InformerStep(k) ==
    /\ stream[k] # <<>>
    /\ LET event == Head(stream[k])
       IN  /\ cache' = [cache EXCEPT ![k] = I!CacheAfter(event)]
           /\ notify' = [notify EXCEPT
                            ![k] = Append(@, I!NotificationOf(event, cache[k]))]
    /\ stream' = [stream EXCEPT ![k] = Tail(@)]
    /\ UNCHANGED <<external, running, queue, worker, counters, history>>

\* Mutant: the availability alone is compared.
ComparesAvailability(old, new) == old.avail = new.avail

deepEqualStatus(old, new) == old = new

\* AddFunc, UpdateFunc and DeleteFunc: is the object added to the queue?
ShouldEnqueue(k, n) ==
    /\ k \notin OtherCrds
    /\ \/ n.type \in {"add", "delete"}
       \/ n.type = "update" /\ ~deepEqualStatus(n.old, n.new)

\* A tombstone is not queued; for a CRD, whose name DeleteFunc looks at, it is
\* a nil pointer whose dereference ends the process.
Panics(k, n) == n.type = "tombstone" /\ k \in {HubCrd} \cup OtherCrds

Handle(k) ==
    /\ notify[k] # <<>>
    /\ ~Panics(k, Head(notify[k]))
    /\ queue' = IF ShouldEnqueue(k, Head(notify[k])) THEN Add(queue, k) ELSE queue
    /\ notify' = [notify EXCEPT ![k] = Tail(@)]
    /\ UNCHANGED <<external, running, stream, cache, worker, counters, history>>

HandleTombstone(k) ==
    /\ notify[k] # <<>>
    /\ Panics(k, Head(notify[k]))
    /\ NoProcess
    /\ UNCHANGED <<external, counters>>

-------------------------------------------------------------------------------
(* The workers: processNextWorkItem, process and updateStatusInUpstream.   *)

\* Mutant: the item is done before it is processed.
DoneAtOnce(w, k) ==
    /\ running
    /\ I!HasSynced(stream)
    /\ worker[w].pc = "idle"
    /\ CanGet(queue, k)
    /\ queue' = Done(Get(queue, k), k)
    /\ worker' = [worker EXCEPT ![w].pc = "process", ![w].key = k]
    /\ UNCHANGED <<external, informer, counters, history>>

\* Start waits for the caches before it starts the workers.
GetItem(w, k) ==
    /\ running
    /\ I!HasSynced(stream)
    /\ worker[w].pc = "idle"
    /\ CanGet(queue, k)
    /\ queue' = Get(queue, k)
    /\ worker' = [worker EXCEPT ![w].pc = "process", ![w].key = k]
    /\ UNCHANGED <<external, informer, counters, history>>

Move(w, pc) == worker' = [worker EXCEPT ![w].pc = pc]

\* An object that is gone is an error: there is no deleteFn for this direction.
Process(w) ==
    /\ worker[w].pc = "process"
    /\ LET k == worker[w].key
       IN  worker' = [worker EXCEPT
               ![w].obj = cache[k],
               ![w].pc = IF cache[k] = Absent THEN "failed"
                         ELSE IF k \in Policies THEN "get" ELSE "hcp"]
    /\ dropped' = dropped \ {worker[w].key}
    /\ UNCHANGED <<external, informer, queue, counters, contested>>

\* Mutant: the lister is not the one of managed clusters.
ListedOfAnyKind(avail) == {k \in Keys : cache[k] # Absent /\ cache[k].avail = avail}

Listed(avail) == {k \in ManagedClusters : cache[k] # Absent /\ cache[k].avail = avail}

\* The HubControlPlane the caches make.  The code lists the clusters and the addons one
\* after the other; here the caches are read in one step.
HubControlPlane ==
    [available |-> Listed("True"),
     unavailable |-> Listed("False"),
     unknown |-> Listed("Unknown") \cup Listed("NoConditions"),
     addons |-> {k \in Addons : cache[k] # Absent}]

\* Where a worker goes on after the HubControlPlane, whether or not that worked:
\* applyHubControlPlaneInUpstream drops the error of applyToUpstream.
AfterHubControlPlane(k) == IF k \in ManagedClusters THEN "get" ELSE "done"

\* A HubControlPlane that was computed is still to be applied by worker w.
Applying(w) == worker[w].pc \in {"hcpMain", "hcpStatus"}

\* The start of applyHubControlPlaneInUpstream.  Its own error is logged for a
\* managed cluster and returned for the other kinds.
ComputeHubControlPlane(w) ==
    /\ worker[w].pc = "hcp"
    /\ worker' = IF PodNamespace
                 THEN [worker EXCEPT ![w].pc = "hcpMain", ![w].hcp = HubControlPlane]
                 ELSE [worker EXCEPT ![w].pc = IF worker[w].key \in ManagedClusters
                                               THEN "get" ELSE "failed"]
    /\ contested' = \E v \in Workers : Applying(v)
    /\ UNCHANGED <<external, informer, queue, counters, dropped>>

\* The two server-side applies of the HubControlPlane: the status is a
\* subresource that the first leaves alone.
ApplyHubControlPlane(w) ==
    /\ worker[w].pc = "hcpMain"
    /\ Move(w, "hcpStatus")
    /\ UNCHANGED <<external, informer, queue, counters, history>>

ApplyHubControlPlaneStatus(w) ==
    /\ worker[w].pc = "hcpStatus"
    /\ hcp' = worker[w].hcp
    /\ Move(w, AfterHubControlPlane(worker[w].key))
    /\ UNCHANGED <<source, target, informer, queue, counters, history>>

\* Get of the copy in the namespace of the syncer.  A managed cluster has no
\* namespace and is never found there.
GetCopy(w) ==
    /\ worker[w].pc = "get"
    /\ LET k == worker[w].key
       IN  worker' = IF k \in Policies /\ target[k].exists
                     THEN [worker EXCEPT ![w].pc = "update", ![w].rv = target[k].rv]
                     ELSE [worker EXCEPT ![w].pc = "applyMain"]
    /\ UNCHANGED <<external, informer, queue, counters, history>>

\* The copy once a request has taken effect.  UpdateStatus carries the resource
\* version that was read.  Of the two server-side applies of applyToUpstream
\* the first creates the copy without a status, the second writes the status.
CopyAfter(w) ==
    LET k == worker[w].key
        c == target[k]
    IN  CASE worker[w].pc = "update" ->
               IF c.rv = worker[w].rv
               THEN [c EXCEPT !.gen = worker[w].obj.gen, !.rv = @ + 1] ELSE c
          [] worker[w].pc = "applyMain" -> [c EXCEPT !.exists = TRUE, !.rv = @ + 1]
          [] worker[w].pc = "applyStatus" ->
               [c EXCEPT !.gen = worker[w].obj.gen, !.rv = @ + 1]

WriteCopy(w) == target' = [target EXCEPT ![worker[w].key] = CopyAfter(w)]

UpdateStatus(w) ==
    /\ worker[w].pc = "update"
    /\ WriteCopy(w)
    /\ Move(w, IF target[worker[w].key].rv = worker[w].rv THEN "done" ELSE "failed")
    /\ UNCHANGED <<source, hcp, informer, queue, counters, history>>

ApplyMain(w) ==
    /\ worker[w].pc = "applyMain"
    /\ WriteCopy(w)
    /\ Move(w, "applyStatus")
    /\ UNCHANGED <<source, hcp, informer, queue, counters, history>>

\* Mutant: the status is expected to come with the apply of the main resource.
SkipsStatus(w) ==
    /\ worker[w].pc = "applyStatus"
    /\ Move(w, "done")
    /\ UNCHANGED <<external, informer, queue, counters, history>>

ApplyStatus(w) ==
    /\ worker[w].pc = "applyStatus"
    /\ WriteCopy(w)
    /\ Move(w, "done")
    /\ UNCHANGED <<source, hcp, informer, queue, counters, history>>

\* A request fails; done says whether it took effect before its answer was lost.
\* The errors of Get and UpdateStatus are returned, those of the applies are
\* dropped, with what was still to be applied.
RequestFails(w, done) ==
    /\ worker[w].pc \in FaultPoints
    /\ faults < MaxFaults
    /\ faults' = faults + 1
    /\ Move(w, IF worker[w].pc \in {"get", "update"} THEN "failed"
               ELSE IF Applying(w)
               THEN AfterHubControlPlane(worker[w].key)
               ELSE "done")
    /\ IF done /\ worker[w].pc \in {"update", "applyMain", "applyStatus"}
       THEN WriteCopy(w) ELSE UNCHANGED target
    /\ hcp' = IF done /\ worker[w].pc = "hcpStatus" THEN worker[w].hcp ELSE hcp
    /\ dropped' = IF worker[w].pc \in {"applyMain", "applyStatus"}
                  THEN dropped \cup {worker[w].key} ELSE dropped
    /\ contested' = (contested \/ Applying(w))
    /\ UNCHANGED <<source, informer, queue, writes, touches, relists, crashes>>

\* Mutant: the error of process is dropped.
ForgetsError(w) ==
    /\ worker[w].pc \in {"done", "failed"}
    /\ queue' = Done(queue, worker[w].key)
    /\ worker' = [worker EXCEPT ![w] = IdleWorker]
    /\ UNCHANGED <<external, informer, counters, history>>

FinishItem(w) ==
    /\ worker[w].pc \in {"done", "failed"}
    /\ LET k == worker[w].key
       IN  queue' = IF worker[w].pc = "failed"
                    THEN Done(AddRateLimited(queue, k), k)
                    ELSE Done(queue, k)
    /\ worker' = [worker EXCEPT ![w] = IdleWorker]
    /\ UNCHANGED <<external, informer, counters, history>>

Backoff(k) ==
    /\ k \in queue.delayed
    /\ queue' = BackoffOver(queue, k)
    /\ UNCHANGED <<external, informer, worker, counters, history>>

-------------------------------------------------------------------------------
(* The process.                                                            *)

Crash ==
    /\ running
    /\ crashes < MaxCrashes
    /\ crashes' = crashes + 1
    /\ NoProcess
    /\ UNCHANGED <<external, writes, touches, faults, relists>>

Start ==
    /\ ~running
    /\ running' = TRUE
    /\ stream' = [k \in Keys |-> I!FirstList(source[k])]
    /\ UNCHANGED <<external, cache, notify, queue, worker, counters, history>>

WorkerStep(w) ==
    \/ Process(w)
    \/ ComputeHubControlPlane(w)
    \/ ApplyHubControlPlane(w)
    \/ ApplyHubControlPlaneStatus(w)
    \/ GetCopy(w)
    \/ UpdateStatus(w)
    \/ ApplyMain(w)
    \/ ApplyStatus(w)
    \/ FinishItem(w)

Next ==
    \/ \E k \in Keys :
          \/ \E avail \in Availabilities : SourceWrite(k, avail)
          \/ SourceSpecWrite(k)
          \/ SourceDelete(k)
          \/ InformerStep(k)
          \/ Handle(k)
          \/ HandleTombstone(k)
          \/ Backoff(k)
          \/ \E w \in Workers : GetItem(w, k)
    \/ \E k \in Copied : TargetTouch(k)
    \/ \E w \in Workers : WorkerStep(w) \/ \E done \in BOOLEAN : RequestFails(w, done)
    \/ Relist
    \/ Crash
    \/ Start

Spec == Init /\ [][Next]_vars

\* As for the spec syncer: goroutines keep running, a crashed syncer is started
\* again, and the FIFO queue gives out what can be taken again and again.
Fairness ==
    /\ \A k \in Keys :
          /\ WF_vars(InformerStep(k))
          /\ WF_vars(Handle(k) \/ HandleTombstone(k))
          /\ WF_vars(Backoff(k))
          /\ SF_vars(\E w \in Workers : GetItem(w, k))
    /\ \A w \in Workers : WF_vars(WorkerStep(w))
    /\ WF_vars(Start)

FairSpec == Spec /\ Fairness

-------------------------------------------------------------------------------
(* Properties.                                                             *)

\* Nothing about k is on its way through the syncer.
Quiet(k) == stream[k] = <<>> /\ notify[k] = <<>> /\ Idle(queue, k)

\* The global hub has the latest status of every policy and managed cluster the
\* syncer has finished with, through conflicts, failed requests, broken watches and
\* restarts.  The one exception is an object whose latest apply failed: the error is
\* dropped (applyToUpstream), and the next change or restart makes up for it.
StatusInSync ==
    running => \A k \in Copied :
        Quiet(k) /\ source[k] # Absent /\ k \notin dropped
            => target[k].gen = source[k].gen

\* The statuses of k that its copy may still be given: the one in the hands of
\* a worker, the one in the cache and those of the events under way.
Trail(k) ==
    LET holders == {w \in Workers : /\ worker[w].key = k
                                    /\ worker[w].pc \in Requests \cup {"hcp"}}
        coming == I!Upcoming(cache[k], stream[k])
        objects == IF \A w \in holders : worker[w].obj = Head(coming)
                   THEN coming
                   ELSE <<worker[CHOOSE w \in holders : TRUE].obj>> \o coming
    IN  IF running THEN [i \in 1..Len(objects) |-> objects[i].gen]
        ELSE <<source[k].gen>>

R == INSTANCE Replication WITH
        Keys <- Copied, Absent <- 0,
        source <- [k \in Copied |-> source[k].gen],
        target <- [k \in Copied |-> target[k].gen],
        trail <- [k \in Copied |-> Trail(k)]

\* Every status written to the global hub follows the history of the object on
\* the regional hub, in order and never back, through conflicts, retries, dropped
\* errors and restarts (updateStatusInUpstream and applyToUpstream implement
\* Replication).
Replicates == R!Spec

\* While nothing is deleted, a syncer that has finished with everything leaves a
\* HubControlPlane that lists what the regional hub has, however many workers it
\* runs, unless the latest one was contested: nothing but an apply that failed or
\* was overtaken by another worker's makes it stale, and the next one that is
\* computed while no other is under way makes up for it.
ControlPlaneInSync ==
    running /\ (\A k \in Keys : Quiet(k)) /\ ~contested =>
        /\ hcp = HubControlPlane
        /\ cache = source

\* Once the regional hub stops changing, every status arrives at the global hub,
\* but for those whose latest apply failed.
StatusArrives ==
    \A k \in Copied :
        <>[](source[k] # Absent /\ k \notin dropped => target[k].gen = source[k].gen)

\* "for managedcluster change, need to apply it to hubcontrolplane and also
\* syncer it to upstream" (statussyncer.go:79): the HubControlPlane follows the
\* changes of the managed clusters, with the two workers the syncer runs.
ControlPlaneFollows ==
    running /\ (\A k \in Keys : Quiet(k)) => hcp = HubControlPlane
===============================================================================
