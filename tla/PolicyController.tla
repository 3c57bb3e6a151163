--------------------------- MODULE PolicyController ---------------------------
(***************************************************************************)
(* The controllers of the global hub: the GenericController and the policy *)
(* controller of server/controllers/globalhubcontroller, or one of the     *)
(* controllers of placement bindings and placement rules, which are the    *)
(* same GenericController with the labelling half of the reconciliation    *)
(* only: kind, chosen in Init, says which.                                 *)
(*                                                                         *)
(* One object name is modelled, in the namespaces of the global hub: the   *)
(* namespace Global, where users write the policy, and one namespace per   *)
(* regional hub, where its status syncer writes the copy that carries what *)
(* the hub reports.  The controller                                        *)
(*   - labels a policy that has no original-namespace label with its own   *)
(*     namespace, which releases it for the spec syncers;                  *)
(*   - folds the status of a hub's copy into the compliance summary of the *)
(*     policy that the label of the copy names.                            *)
(*                                                                         *)
(* spec identifies the content of a policy; every content write makes a    *)
(* fresh one.  status maps the clusters of the hub to their compliance and *)
(* is empty where the code sees a nil Status.Status.                       *)
(***************************************************************************)
EXTENDS Integers, Sequences, FiniteSets, FiniteSetsExt, Workqueue

CONSTANTS
    Hubs,          \* the namespaces of the regional hubs
    Global,        \* the namespace the policy is written in
    NoLabel,       \* the label of a policy that has none
    HubLabels,     \* the labels a regional hub's copy may come with
    Clusters,      \* managed clusters of a hub
    ClusterStates, \* what a hub reports of a cluster
    Width,         \* the counters are unsigned with Width values (2^32)
    Steps,         \* attempts of retry.DefaultRetry (5)
    EmptyReports,  \* may a hub report no cluster after it reported some?
    Deletions,     \* may users delete the policy?
    MaxWrites,     \* bound: writes and deletions by users and status syncers
    MaxFaults,     \* bound: failed requests
    MaxRelists,    \* bound: broken watches
    MaxResyncs,    \* bound: periodic resyncs of the informer
    MaxRestarts,   \* bound: restarts of the server
    MaxTogether    \* bound: these three together

Namespaces == Hubs \cup {Global}

ASSUME PolicyAssumption ==
    /\ Global \notin Hubs
    /\ NoLabel \notin Namespaces
    /\ HubLabels \subseteq {NoLabel, Global}
    /\ IsFiniteSet(Clusters)
    /\ {EmptyReports, Deletions} \subseteq BOOLEAN
    /\ {Width, Steps} \subseteq Nat \ {0}
    /\ {MaxWrites, MaxFaults, MaxRelists, MaxResyncs, MaxRestarts, MaxTogether}
          \subseteq Nat

VARIABLES
    kind,          \* the resource that the controller watches
    store,         \* the policies in etcd
    revision,      \* the last resource version given out
    stream,        \* watch events not yet applied to the informer's cache
    cache,         \* the informer's store
    notify,        \* how many notifications of a key are still to be handled
    queue,         \* the work queue
    worker,        \* the one worker: Run(1)
    failed,        \* has a request failed since the server started?
    writes, faults, relists, resyncs, restarts,
    created        \* history: the resource version the policy was created with

server == <<store, revision>>
informer == <<stream, cache, notify>>
process == <<failed, restarts>>
counters == <<failed, writes, faults, relists, resyncs, restarts, created>>
vars == <<kind, store, revision, stream, cache, notify, queue, worker, failed, writes,
          faults, relists, resyncs, restarts, created>>

\* AddControllers starts one generic controller for each.
Kinds == {"policies", "placementbindings", "placementrules"}

NoStatus == <<>>
Statuses == UNION {[C -> ClusterStates] : C \in SUBSET Clusters}
Counters == 0..(Width - 1)

Summaries == [compliant : Counters, noncompliant : Counters,
              summaries : Seq([name : Hubs, compliant : Counters,
                               noncompliant : Counters])]
NoSummary == [compliant |-> 0, noncompliant |-> 0, summaries |-> <<>>]

Policies == [rv : Nat, spec : Nat, label : Namespaces \cup {NoLabel},
             status : Statuses, summary : Summaries]
Absent == [rv |-> 0, spec |-> 0, label |-> NoLabel, status |-> NoStatus,
           summary |-> NoSummary]

I == INSTANCE Informer

\* pc, the key, the cached object, the global policy read and attempts left.
Phases == {"idle", "process", "label", "get", "update", "done"}
IdleWorker ==
    [pc |-> "idle", key |-> Global, obj |-> Absent, global |-> Absent, tries |-> 0]

TypeOK ==
    /\ kind \in Kinds
    /\ store \in [Namespaces -> Policies]
    /\ revision \in Nat
    /\ stream \in [Namespaces -> Seq(I!Events(Policies))]
    /\ cache \in [Namespaces -> Policies]
    /\ notify \in [Namespaces -> Nat]
    /\ queue \in Queues(Namespaces)
    /\ worker \in [pc : Phases, key : Namespaces, obj : Policies,
                   global : Policies, tries : 0..Steps]
    /\ writes \in 0..MaxWrites
    /\ faults \in 0..MaxFaults
    /\ relists \in 0..MaxRelists
    /\ resyncs \in 0..MaxResyncs
    /\ restarts \in 0..MaxRestarts
    /\ failed \in BOOLEAN
    /\ created \in Nat

Init ==
    /\ kind \in Kinds
    /\ store = [n \in Namespaces |-> Absent]
    /\ revision = 0
    /\ stream = [n \in Namespaces |-> <<>>]
    /\ cache = [n \in Namespaces |-> Absent]
    /\ notify = [n \in Namespaces |-> 0]
    /\ queue = EmptyQueue
    /\ worker = IdleWorker
    /\ writes = 0
    /\ faults = 0
    /\ relists = 0
    /\ resyncs = 0
    /\ restarts = 0
    /\ failed = FALSE
    /\ created = 0

MayDisturb == relists + resyncs + restarts < MaxTogether

-------------------------------------------------------------------------------
(* The API server.                                                         *)

\* The policy in n becomes obj; a write that changes nothing is none.
Write(n, obj) ==
    IF obj = store[n]
    THEN UNCHANGED <<store, revision, stream>>
    ELSE LET stored == [obj EXCEPT !.rv = revision + 1]
         IN  /\ store' = [store EXCEPT ![n] = stored]
             /\ revision' = revision + 1
             /\ stream' = [stream EXCEPT
                              ![n] = Append(@, [type |-> "modified", obj |-> stored])]

\* Users create and change the policy, and may drop the label when they do.
UserWrite(keepLabel) ==
    /\ writes < MaxWrites
    /\ writes' = writes + 1
    /\ Write(Global, [store[Global] EXCEPT
                         !.spec = writes + 1,
                         !.label = IF keepLabel THEN @ ELSE NoLabel])
    /\ created' = IF store[Global] = Absent THEN revision + 1 ELSE created
    /\ UNCHANGED <<cache, notify, queue, worker, process, faults, relists, resyncs>>

UserDelete ==
    /\ Deletions
    /\ store[Global] # Absent
    /\ writes < MaxWrites
    /\ writes' = writes + 1
    /\ store' = [store EXCEPT ![Global] = Absent]
    /\ revision' = revision + 1
    /\ stream' = [stream EXCEPT
                     ![Global] = Append(@, [type |-> "deleted", obj |-> store[Global]])]
    /\ UNCHANGED <<cache, notify, queue, worker, process, faults, relists, resyncs,
                   created>>

\* The status syncer of hub h creates the hub's copy, of a policy of the hub's
\* own or of the policy that was released for it ...
HubCreates(h, label) ==
    /\ kind = "policies"
    /\ store[h] = Absent
    /\ label = Global => store[Global].label = Global
    /\ writes < MaxWrites
    /\ writes' = writes + 1
    /\ Write(h, [Absent EXCEPT !.spec = writes + 1, !.label = label])
    /\ UNCHANGED <<cache, notify, queue, worker, process, faults, relists, resyncs,
                   created>>

\* ... and reports the status of the hub's clusters in it.
HubReports(h, status) ==
    /\ store[h] # Absent
    /\ status = NoStatus => EmptyReports
    /\ writes < MaxWrites
    /\ writes' = writes + 1
    /\ Write(h, [store[h] EXCEPT !.status = status])
    /\ UNCHANGED <<cache, notify, queue, worker, process, faults, relists, resyncs,
                   created>>

-------------------------------------------------------------------------------
(* The informer; its handlers queue every change of a policy but those it  *)
(* learns of from a tombstone, which has no key.                           *)

Relist ==
    /\ MayDisturb
    /\ relists < MaxRelists
    /\ relists' = relists + 1
    /\ stream' = [n \in Namespaces |-> I!ReList(store[n], cache[n])]
    /\ UNCHANGED <<server, cache, notify, queue, worker, process, writes, faults, resyncs,
                   created>>

\* Every ten hours the handlers are told again of everything in the cache.
Resync ==
    /\ MayDisturb
    /\ resyncs < MaxResyncs
    /\ resyncs' = resyncs + 1
    /\ notify' = [n \in Namespaces |->
                     IF cache[n] = Absent THEN notify[n] ELSE notify[n] + 1]
    /\ UNCHANGED <<server, stream, cache, queue, worker, process, writes, faults, relists,
                   created>>

\* Mutant: the handlers have no UpdateFunc.
NotifiesAddsOnly(n) ==
    /\ stream[n] # <<>>
    /\ cache' = [cache EXCEPT ![n] = I!CacheAfter(Head(stream[n]))]
    /\ notify' = [notify EXCEPT ![n] = IF cache[n] # Absent THEN @ ELSE @ + 1]
    /\ stream' = [stream EXCEPT ![n] = Tail(@)]
    /\ UNCHANGED <<server, queue, worker, counters>>

InformerStep(n) ==
    /\ stream[n] # <<>>
    /\ cache' = [cache EXCEPT ![n] = I!CacheAfter(Head(stream[n]))]
    /\ notify' = [notify EXCEPT ![n] = IF Head(stream[n]).type = "gone"
                                       THEN @ ELSE @ + 1]
    /\ stream' = [stream EXCEPT ![n] = Tail(@)]
    /\ UNCHANGED <<server, queue, worker, counters>>

enqueue(n) ==
    /\ notify[n] > 0
    /\ notify' = [notify EXCEPT ![n] = @ - 1]
    /\ queue' = Add(queue, n)
    /\ UNCHANGED <<server, stream, cache, worker, counters>>

-------------------------------------------------------------------------------
(* processNextWorkItem, process and the reconciliation of a policy.        *)

\* Run waits for the cache before it starts the worker.
GetItem(n) ==
    /\ I!HasSynced(stream)
    /\ worker.pc = "idle"
    /\ CanGet(queue, n)
    /\ queue' = Get(queue, n)
    /\ worker' = [worker EXCEPT !.pc = "process", !.key = n]
    /\ UNCHANGED <<server, informer, counters>>

\* Mutant: a hub's copy is taken for a policy of the global hub.
SkipsEveryLabel(obj, n) == obj.label # NoLabel

\* Nothing is to be done for a placement that has a label.
BindingSkipped(obj) == obj.label # NoLabel
RuleSkipped(obj) == obj.label # NoLabel

\* Nothing is to be done: the object is gone, it is a labelled policy of the
\* global hub, or the hub has reported nothing.
Skipped(obj, n) ==
    \/ obj = Absent
    \/ kind = "placementbindings" /\ BindingSkipped(obj)
    \/ kind = "placementrules" /\ RuleSkipped(obj)
    \/ obj.label = n
    \/ obj.label # NoLabel /\ obj.status = NoStatus

Process ==
    LET n == worker.key
        obj == cache[n]
    IN  /\ worker.pc = "process"
        /\ \/ /\ Skipped(obj, n)
              /\ worker' = [worker EXCEPT !.pc = "done"]
              /\ UNCHANGED cache
           \* The label is set on the object the cache holds, not on a copy.
           \/ /\ ~Skipped(obj, n)
              /\ obj.label = NoLabel
              /\ cache' = [cache EXCEPT ![n].label = n]
              /\ worker' = [worker EXCEPT !.pc = "label", !.obj = cache'[n]]
           \/ /\ ~Skipped(obj, n)
              /\ obj.label # NoLabel
              /\ worker' = [worker EXCEPT !.pc = "get", !.obj = obj, !.tries = Steps]
              /\ UNCHANGED cache
        /\ UNCHANGED <<server, stream, notify, queue, counters>>

\* The status is a subresource: an update of the policy leaves it alone.
Updated(n, obj) == [obj EXCEPT !.status = store[n].status,
                               !.summary = store[n].summary]

\* Mutant: the update does not carry the resource version it is based on.
UpdatesBlindly ==
    /\ worker.pc = "label"
    /\ Write(worker.key, Updated(worker.key, worker.obj))
    /\ worker' = [worker EXCEPT !.pc = "done"]
    /\ UNCHANGED <<cache, notify, queue, counters>>

\* Update of the labelled object: a policy that changed since is a conflict.
UpdateLabel ==
    LET n == worker.key
    IN  /\ worker.pc = "label"
        /\ IF store[n] # Absent /\ store[n].rv = worker.obj.rv
           THEN Write(n, Updated(n, worker.obj))
           ELSE UNCHANGED <<store, revision, stream>>
        /\ worker' = [worker EXCEPT !.pc = "done"]
        /\ UNCHANGED <<cache, notify, queue, counters>>

\* updateGlobalHubPolicy reads the policy that the label names; a policy that
\* is not there is an error RetryOnConflict does not retry.
GetGlobal ==
    LET g == store[worker.obj.label]
    IN  /\ worker.pc = "get"
        /\ worker' = IF g = Absent
                     THEN [worker EXCEPT !.pc = "done"]
                     ELSE [worker EXCEPT !.pc = "update", !.global = g]
        /\ UNCHANGED <<server, informer, queue, counters>>

Count(status, state) == Cardinality({c \in DOMAIN status : status[c] = state})

\* Mutant: the totals get the new counts on top of the old ones.
AddsToTotals(sum, new) ==
    LET hits == {i \in DOMAIN sum.summaries : sum.summaries[i].name = new.name}
    IN  [compliant |-> (sum.compliant + new.compliant) % Width,
         noncompliant |-> (sum.noncompliant + new.noncompliant) % Width,
         summaries |-> IF hits = {} THEN Append(sum.summaries, new)
                       ELSE [i \in DOMAIN sum.summaries |->
                                IF i \in hits THEN new ELSE sum.summaries[i]]]

\* Mutant: the counters do not wrap around.
CountsWithoutBound(sum, new) ==
    [compliant |-> sum.compliant + new.compliant,
     noncompliant |-> sum.noncompliant + new.noncompliant,
     summaries |-> Append(sum.summaries, new)]

\* Mutant: the entry of a hub is never found.
AppendsAlways(sum, new) ==
    [compliant |-> (sum.compliant + new.compliant) % Width,
     noncompliant |-> (sum.noncompliant + new.noncompliant) % Width,
     summaries |-> Append(sum.summaries, new)]

\* The entry of the hub is replaced and the totals are moved by the difference
\* of new and old counts, in unsigned arithmetic; a new hub gets an entry.
Fold(sum, new) ==
    LET hits == {i \in DOMAIN sum.summaries : sum.summaries[i].name = new.name}
        Delta(field) == IF hits = {} THEN new[field]
                        ELSE MapThenSumSet(
                            LAMBDA i : new[field] - sum.summaries[i][field], hits)
    IN  [compliant |-> (sum.compliant + Delta("compliant")) % Width,
         noncompliant |-> (sum.noncompliant + Delta("noncompliant")) % Width,
         summaries |-> IF hits = {} THEN Append(sum.summaries, new)
                       ELSE [i \in DOMAIN sum.summaries |->
                                IF i \in hits THEN new ELSE sum.summaries[i]]]

\* The entry of the hub whose copy is obj.
ClusterSummary(h, obj) ==
    [name |-> h,
     compliant |-> Count(obj.status, "Compliant") % Width,
     noncompliant |-> Count(obj.status, "NonCompliant") % Width]

\* The global policy with the hub's entry folded into its summary.
Summarised(g) ==
    [g EXCEPT !.summary = Fold(@, ClusterSummary(worker.key, worker.obj))]

\* Mutant: a conflict is an error like any other.
GivesUpOnConflict ==
    /\ worker.pc = "update"
    /\ IF store[worker.obj.label].rv = worker.global.rv
       THEN Write(worker.obj.label, Summarised(worker.global))
       ELSE UNCHANGED <<store, revision, stream>>
    /\ worker' = [worker EXCEPT !.pc = "done"]
    /\ UNCHANGED <<cache, notify, queue, counters>>

\* UpdateStatus of the global policy; a conflict is retried from the read.
UpdateGlobal ==
    LET n == worker.obj.label
    IN  /\ worker.pc = "update"
        /\ IF store[n] # Absent /\ store[n].rv = worker.global.rv
           THEN /\ Write(n, Summarised(worker.global))
                /\ worker' = [worker EXCEPT !.pc = "done"]
           ELSE /\ UNCHANGED <<store, revision, stream>>
                /\ worker' = IF store[n] # Absent /\ worker.tries > 1
                             THEN [worker EXCEPT !.pc = "get", !.tries = @ - 1]
                             ELSE [worker EXCEPT !.pc = "done"]
        /\ UNCHANGED <<cache, notify, queue, counters>>

\* A request fails for another reason than a conflict, without effect: one that
\* took effect looks like one that succeeded, since its error is dropped.
RequestFails ==
    /\ worker.pc \in {"label", "get", "update"}
    /\ faults < MaxFaults
    /\ faults' = faults + 1
    /\ failed' = TRUE
    /\ worker' = [worker EXCEPT !.pc = "done"]
    /\ UNCHANGED <<server, informer, queue, writes, relists, resyncs, restarts, created>>

\* process compares the error of the reconciliation with its own err, which is
\* nil, and returns the latter: whatever happened, the item is forgotten.
FinishItem ==
    /\ worker.pc = "done"
    /\ queue' = Done(queue, worker.key)
    /\ worker' = IdleWorker
    /\ UNCHANGED <<server, informer, counters>>

-------------------------------------------------------------------------------
\* The server ends, with everything its controllers have in memory, and starts
\* again.  Nobody can write in between, since what they write to is the server.
Restart ==
    /\ MayDisturb
    /\ restarts < MaxRestarts
    /\ restarts' = restarts + 1
    /\ stream' = [n \in Namespaces |-> I!FirstList(store[n])]
    /\ cache' = [n \in Namespaces |-> Absent]
    /\ notify' = [n \in Namespaces |-> 0]
    /\ queue' = EmptyQueue
    /\ worker' = IdleWorker
    /\ failed' = FALSE
    /\ UNCHANGED <<server, writes, faults, relists, resyncs, created>>

WorkerStep == Process \/ UpdateLabel \/ GetGlobal \/ UpdateGlobal \/ FinishItem

Step ==
    \/ \E keepLabel \in BOOLEAN : UserWrite(keepLabel)
    \/ UserDelete
    \/ \E h \in Hubs :
          \/ \E label \in HubLabels : HubCreates(h, label)
          \/ \E status \in Statuses : HubReports(h, status)
    \/ \E n \in Namespaces : InformerStep(n) \/ enqueue(n) \/ GetItem(n)
    \/ WorkerStep
    \/ RequestFails
    \/ Relist
    \/ Resync
    \/ Restart

Next == Step /\ UNCHANGED kind

Spec == Init /\ [][Next]_vars

\* The goroutines of the server keep running, and the queue is FIFO.
Fairness ==
    LET Fair(A) == A /\ UNCHANGED kind
    IN  /\ WF_vars(Fair(WorkerStep))
        /\ \A n \in Namespaces : /\ WF_vars(Fair(InformerStep(n)))
                                  /\ WF_vars(Fair(enqueue(n)))
                                  /\ SF_vars(Fair(GetItem(n)))

FairSpec == Spec /\ Fairness

-------------------------------------------------------------------------------
(* Properties.                                                             *)

\* Nothing about the policy in n is on its way through the controller.
Quiet(n) == stream[n] = <<>> /\ notify[n] = 0 /\ Idle(queue, n)

\* While no request fails, a policy the controller has finished with is
\* labelled: an update refused because the policy changed meanwhile is made up
\* for by the event of that change, although its error is dropped.
LabelledWhenQuiet ==
    \A n \in Namespaces :
        Quiet(n) /\ store[n] # Absent => store[n].label # NoLabel

\* Unless a request failed since the server was started or the retries were used
\* up, a hub that the controller has finished with has no outdated entry in the
\* summary, and it has one if its copy was written after the policy was created.
\* Users and the copies of other hubs may change the policy between its read and its
\* update, and a policy that is deleted and created again starts with an empty
\* summary and gets every report made since (updateGlobalHubPolicy).
SummaryCurrent ==
    LET sum == store[Global].summary.summaries
    IN  \A h \in Hubs :
            /\ Quiet(h)
            /\ ~failed
            /\ store[Global] # Absent
            /\ store[h].label = Global
            /\ store[h].status # NoStatus
            => /\ \A i \in DOMAIN sum :
                     sum[i].name = h => sum[i] = ClusterSummary(h, store[h])
               /\ store[h].rv > created => \E i \in DOMAIN sum : sum[i].name = h

\* The totals of a compliance summary are the sums of its entries, modulo the
\* width of the counters, and no hub has two entries: adding the difference of
\* unsigned counts never drifts (updateGlobalHubPolicy).
TotalsMatch ==
    LET sum == store[Global].summary
        Total(field) == MapThenSumSet(LAMBDA i : sum.summaries[i][field],
                                      DOMAIN sum.summaries)
    IN  /\ sum.compliant = Total("compliant") % Width
        /\ sum.noncompliant = Total("noncompliant") % Width
        /\ \A i, j \in DOMAIN sum.summaries :
              sum.summaries[i].name = sum.summaries[j].name => i = j

\* The controller never puts back an old content of a policy over what a user
\* wrote after it read the policy (ReconcileFunc updates the cached object).
NoLostWrite ==
    [][\A n \in Namespaces : store'[n] # Absent => store'[n].spec >= store[n].spec]_vars

\* Every policy is labelled in the end unless a request failed since the server
\* was started, through conflicts, broken watches, policies that are deleted and
\* written again, and restarts, which also make up for what failed before them
\* (ReconcileFunc, processNextWorkItem).
LabelledUnlessFaulty ==
    \A n \in Namespaces :
        <>[](~failed /\ store[n] # Absent => store[n].label # NoLabel)
===============================================================================
