# A verification project for the multicluster global hub

The repository holds two programs. The **global hub API server** (`cmd/server`)
is a small Kubernetes API server with an embedded etcd, the CRDs of the global
hub and a few controllers. The **syncer** (`cmd/syncer`) runs beside every
regional hub; it copies policies and placements down to the regional hub and
status up to the global hub. This directory models both in TLA+, model-checks
them with TLC and proves most of the safety properties with TLAPS for every value
of the constants.

## Inventory

| Part | State | Operations | Hard behaviour | What makes it correct |
|---|---|---|---|---|
| Spec syncer (`syncer/syncer.go`, `specsyncer.go`) | informer cache, work queue, two workers; objects and namespaces of the regional hub | AddFunc / UpdateFunc / DeleteFunc, AddToQueue, process, ensureDownstreamNamespaceExists, applyToDownstream, deleteFromDownstream | handler behind cache behind server; label checked early; tombstones; lost answers; restarts | no update of a released object is lost; content never goes back; deletions arrive |
| Status syncer (`syncer/syncer.go`, `statussyncer.go`) | as above; copies and HubControlPlane on the global hub | updateStatusInUpstream, applyToUpstream, applyHubControlPlaneInUpstream | optimistic concurrency; two requests per apply; dropped errors; one object computed by all workers | latest status arrives and never goes back; HubControlPlane lists the hub's clusters |
| Global hub controllers (`globalhubcontroller/`) | informer cache (changed in place), work queue, one worker; policies in etcd | enqueue, process, ReconcileFunc, updateGlobalHubPolicy | conflicts with users and hubs; unsigned arithmetic; an error that is dropped | every policy is released; the summary adds up and is current; no user write is lost |
| CRD installation (`install_crds.go`) | CRDs in etcd | InstallGlobalHubCRDs | error in the middle, restart | all CRDs are there |
| Server start-up (`apiserver/`, `etcd/`, `cmd/server`) | phase of the process, hooks, API services | Run, CreateServerChain, createAggregatorServer and its hooks, the boot health check | hooks run concurrently; fatal errors of one end all; restart on persisted state | the server comes up, is healthy only when it can serve, keeps what is installed |
| Kube controllers (`kubecontroller/`) | start sequence | RunKubeControllers, StartControllers | any start order, `klog.Fatalf` | they run, or the process restarts |
| Server options (`apiserver/options/`, `Complete` and `buildGenericConfig` of `server.go`) | the options, then the configuration | flags, `Validate`, `Complete`, `ToAuthenticationConfig`, `ApplyTo`, `CreateKubeAPIServerConfig` | defaults that depend on other options, set in several places and in a certain order; `Validate` is never called | what is signed is accepted, nobody anonymous is allowed everything, failures are foreseen |
| Admission, API enablement, kube controller options | none after the start | plumbing into libraries | none | not modelled |

How they interact. A user writes a policy on the global hub. The policy
controller labels it with its own namespace; only then do the spec syncers copy
it to their hubs. Each hub evaluates it, and its status syncer writes the hub's
copy, with the status, into the hub's namespace on the global hub. The policy
controller folds that status into the compliance summary of the original.
Everything goes through API servers: components share no memory, they watch and
write, with caches that lag behind. `Federation` composes them.

PROJECT.json lists the hazards of the code line by line; the properties below
are aimed at them.

## Modules

| Module | Models | Used by |
|---|---|---|
| `Workqueue` | client-go's rate-limited queue (external) | all controllers |
| `Informer` | client-go's shared informer: cache, notifications, re-lists, tombstones (external) | all controllers |
| `SpecSyncer`, `MCSpecSyncer` | the syncer's Controller, direction SyncDown | |
| `SpecSyncerProofs` | theorems about `SpecSyncer`: types, work, quiet moments | |
| `Replication` | what a syncer promises of every write (abstract), and lemmas on `LeavesOut` | refined by `SpecSyncer` and `StatusSyncer` |
| `SpecSyncerOrderProofs` | theorems about the order of `SpecSyncer`'s writes: `NoRegression`, the refinement | |
| `StatusSyncer`, `MCStatusSyncer` | the Controller, direction SyncUp | |
| `StatusSyncerProofs` | theorems about `StatusSyncer` | |
| `PolicyController`, `MCPolicyController` | GenericController with the policy reconciliation | |
| `PolicyControllerProofs` | theorems about `PolicyController` | |
| `Federation` | the policy controller and the syncers of several hubs together | |
| `FederationProofs` | theorems about `Federation` | |
| `ServerStartup`, `MCServerStartup` | start, hooks and end of the API server | |
| `ServerStartupProofs` | theorems about `ServerStartup` | |
| `ServerOptions`, `MCServerOptions` | from the flags to the configuration of the API server | |
| `ServerOptionsProofs` | theorems about `ServerOptions` | |

**Informer.** An API server write appends an event to `stream[k]`;
`InformerStep` applies it to `cache[k]` and appends a notification to
`notify[k]`; the handler takes it from there. Cache, handler and server are thus
three different points in time. A re-list replaces the pending events; an object
that vanished meanwhile becomes a tombstone.

**SpecSyncer.** An object is `gen`, which identifies its content apart from the
status, and `ready`, whether its label names its own namespace. `ShouldEnqueue`
is the condition of the three handlers, `HandleTombstone` the panic of
`DeleteFunc` on a tombstone. A worker goes through `GetItem`, `Process` (reads
the cache), `ensureDownstreamNamespaceExists`, `applyToDownstream` or
`deleteFromDownstream`, and `FinishItem`; each request may fail before or after
it took effect (`RequestFails`). `Crash` loses all memory, `Start` lists again.

**StatusSyncer.** The same controller in the other direction. `GetCopy`,
`UpdateStatus`, `ApplyMain` and `ApplyStatus` are the requests of
`updateStatusInUpstream` and `applyToUpstream`; copies have resource versions,
which `TargetTouch` (another writer on the global hub) changes.
`ComputeHubControlPlane` reads the caches, the two applies come later. The `List`
calls for clusters and addons are one read here, which makes the race of two workers
smaller than it is in the code. Two history variables, which no action looks at, say
where the code really loses something: `dropped` has the objects whose latest apply
failed, with an error that the code drops, and `contested` says that the latest
HubControlPlane was computed while another one was still to be applied, or that an
apply of one has failed since. There is one copy for each policy; policies of the same
name from different namespaces share theirs in the code, which `Federation` models.

**Replication.** Source, target, and `trail[k]`, the contents of `k` that the
target may still be given, oldest first. A change of the source appends to the
trail, a write to the target takes its oldest element, and contents may be left
out, but never reordered and never the last. Both syncers implement it
(`Replicates == R!Spec`). Their `Trail` is what a worker holds, followed by what the
informer's cache holds and by what its pending events will make of it. For the
status syncer the contents are the statuses; a deletion is a content that is always
left out, because the code does not carry deletions upwards.

**PolicyController.** One policy name in the global namespace and in the
namespace of every hub. `Process` is `process` and the first half of
`ReconcileFunc`, with the label set inside the cache. `UpdateLabel`, `GetGlobal`
and `UpdateGlobal` are its requests, with conflicts and the attempts of
`RetryOnConflict`; `Fold` is the arithmetic of `updateGlobalHubPolicy` modulo
`Width`. `FinishItem` forgets the item whatever happened, because `process`
returns the wrong `err`. `Restart` is the end and the next start of the server: the
memory of its controllers is lost, the policies in etcd are not, and nobody can
write in between. The controllers of placement bindings and rules are the
labelling half of it: `kind`, chosen in `Init`, says which of the three it is.
The history variable `created` is the resource version with which the policy was
created, the last time if it was deleted in between.

**ServerStartup.** `phase` follows `Run`: the files of etcd's certificates
(`secrets`, written one after the other), etcd, the configuration, the chain. The
hooks of `createAggregatorServer`
are goroutines with a state each: `installer`, `hub`, `kube`, the registration
(`synced`, `registers`, `wanted`) and the health check (`pending`). `crds` and
`apis` are in etcd. `Survives` says whether they outlive the process: they do
when etcd's directory is persistent, and do not in a container whose file system
is new after every restart. A server with an external etcd starts without the
first two phases and is otherwise the case in which everything survives.

**Federation.** The controllers without their insides, which the modules above
check: an event is handled when it happens and an item is processed in one step on
what its source then holds. What is left is how they feed each other. One policy
name is in the namespace `Global` of the global hub, where users write it, in the
namespace of each hub, where that hub's status syncer writes its copy, and on the
regional hubs, where there may also be a `Local` policy of the same name.
`Released` and `Reported` are the conditions of the handlers, `Reconcile` the
policy controller, `SyncSpec` and `SyncStatus` one item of a syncer. A content
carries who wrote it, so that `Origin` can ask where it came from. An
item that fails for ever (the deletion of what is not there, the status of what is
gone) stays in its queue, as it does in the code.

**ServerOptions.** The options are a record `s`. `ParseFlag` is `main`'s parsing
of the command line; `Complete`, `Run`, `CreateKubeAPIServerConfig` and
`StartControllers` follow the start, each with its way to end the process. The
steps of `Complete` are operators in the order of the code (`DefaultKeyFiles` looks
at the key file that `MaybeDefaultWithSelfSignedCerts` named). A file is the key or
certificate in it, or is `Unreadable`; a serving certificate that is already in the
directory, which the library takes as it is, is not told apart from a new one.
`AuthorizerFails` is the library's constructor (external): a webhook mode without a file
fails or not, depending on what the process finds around it. `Validate` is an operator, not a step,
because `main` does not call it. Only options are kept that the code itself looks
at; those that are handed to a library unseen are not.

Left out everywhere: the text of objects, logging, label selectors of the
informers, rate limits, finalizers and owner references (stripped by the code).

## Runs

Every run sets `CHECK_DEADLOCK FALSE`: a controller with an empty queue and no
more writes to come really stops. The bounds (`MaxWrites`, `MaxFaults`,
`MaxRelists`, `MaxCrashes`, `MaxStops`...) limit how often the environment acts,
never what the code does.

| Run | Checks | Bounds, and why they are enough |
|---|---|---|
| SpecSyncerSafety | TypeOK, WorkSerialised, ReadyInSync, NoRegression, Replicates | one object, two workers, three writes with and without the label, one fault, one re-list, one crash: an update during the apply of another, lost answers and a restart in between; the proofs cover any number of objects and workers |
| SpecSyncerLiveness | DeletedInSync, ReadyArrives, DeletionArrives | the same disturbances with objects that keep their label; the two properties of deletions say nothing once the watch broke or the process restarted (`NothingMissed`), because deletions are then lost (below) |
| PolicyControllerSafety | TypeOK, LabelledWhenQuiet, SummaryCurrent, TotalsMatch, NoLostWrite | two hubs, five writes and deletions (the user, a copy and a report of each hub, or a deletion and re-creation between them), conflicts between them, reports that become empty, counters modulo 2, so that totals wrap around; no failed request |
| PolicyControllerLiveness | TotalsMatch, SummaryCurrent, NoLostWrite, LabelledUnlessFaulty | one hub, four writes and deletions (the policy, a report, a deletion and a re-creation), a failed request, and one of a re-list, a resync and a restart (`MaxTogether`), before or after it |
| StatusSyncerSafety | TypeOK, StatusInSync, Replicates | a policy and a managed cluster, two workers, deletions, a re-list, and a fault of any request |
| StatusSyncerLiveness | ControlPlaneInSync, StatusInSync, StatusArrives | a policy, a cluster and an addon, two workers, two writes, a conflict with another writer, a fault of any request, a crash: an apply that is overtaken, one that fails, and the item after it that makes up for it |
| ServerStartup | TypeOK, InstalledInOrder, HealthyMeansAvailable, SecretsMatch, CrdServicesKept, ServerComesUp, HubControllersComeUp | three manifests, one fault and one end of the process, with and without a storage that survives it |
| ServerOptions | TypeOK, ValidateForesees, IssuedTokensAccepted, AnonymousRestricted, ServingKeyApart, ServingCertForService | every command line of up to four of the 22 flags, with every value the code tells apart; the properties relate at most four of them (signing key, key files, issuers, audiences) |
| Federation | TypeOK, Origin, SummaryComplete, HubsFollow | two hubs, three changes by users and hubs: enough for a policy to be written, evaluated and evaluated again, or written, deleted and written again, while a hub has one of its own |

The policies that a regional hub has of its own (`HubLabels` with `NoLabel`) are
labelled on the same path as a user's policy, and are left out of these runs to
keep them small.

Three runs show where the code does not do what its own text says; TLC finds the
violation and PROJECT.json quotes the line:

| Run | What happens |
|---|---|
| SpecSyncerLostDeletion | a tombstone panics the handler, and the restarted syncer does not know of the deletion |
| StatusSyncerTwoWorkers | an older HubControlPlane overwrites a newer one |
| ServerStartupInterrupted | an interrupted CRD installation is never completed, where etcd's data survive the process (an external etcd, or a directory on a volume; the shipped Deployment has none and begins with an empty etcd) |

Also seen in the code and kept in the model. Where a property has a condition that
looks arbitrary, it is there because of one of these:

* one failed update of the label leaves a policy without it for ever: the error is
  dropped (`generic_controller.go:139`) and the cached object already carries the
  label (`policy_controller.go:77`). A restart makes up for it, and nothing else does,
  hence `~failed` in `LabelledUnlessFaulty`;
* a failed apply of a managed cluster, or of the first copy of a policy, is not retried
  (`statussyncer.go:94`): the status arrives with the next change of the object or the
  next start of the syncer, hence `dropped` in `StatusInSync` and `StatusArrives`;
* two workers that apply the HubControlPlane overtake each other, and a failed apply of it
  is not retried (`statussyncer.go:244`), hence `contested` in `ControlPlaneInSync`. The
  next HubControlPlane that is computed alone makes up for both;
* an object that lost its label after it was queued is still applied, and one that
  has no label when it is deleted stays on the regional hub. So a policy that is
  deleted, written again and deleted again before the controller labels it can stay
  on the hubs for ever (`HubsFollow` asks for `deletes < 2`; with four changes TLC
  shows why);
* a policy that is deleted and written again may be applied to a hub without its
  label; its copy then comes up without a label, is labelled with the hub's
  namespace, and is sent down to every hub in that namespace (`Origin` asks for
  `deletes = 0`). A policy that a hub has of its own takes the same way: it is
  copied up, labelled and sent to every hub;
* two policies of one hub with the same name in different namespaces share one copy
  (`SummaryComplete` asks for `locals = 0`);
* a policy that is deleted and written again before a hub notices has no entry of that
  hub in its summary until the hub's copy is written again (`deletes = 0` there, and
  `store[h].rv > created` in `SummaryCurrent`);
* a hub's counts stay in the summary when it reports no cluster any more; a managed
  cluster with conditions but none of availability is in none of the three lists;
  copies of deleted objects stay on the global hub;
* `main` never calls `Validate`. Without `--service-account-issuer` the server
  panics at `server.go:251`, and without a mode it fails in the authorizer;
  `ValidateForesees` shows that `Validate` would have said so. It does not look at
  the number of requests in flight, nor at unreadable files;
* a third service range is ignored, although the comment at `server.go:633` and the
  text of the flag speak of at most two; a serving certificate without a directory
  is made for the service by `Complete` and again for localhost by `Run`
  (`ServingCertForService` asks for `certDir`).

**Fairness.** Goroutines keep running (weak fairness of informer, handlers,
workers, back-off, hooks), a process that ended is started again (the
Deployments), and the FIFO queue gives out an item that can be taken again and
again (strong fairness of `GetItem` for each key, since another worker may hold
the key in between). Nothing is assumed of users, hubs or failures: these are
bounded instead. There is no fairness for `Crash`, `RequestFails` or `Relist`. `Federation` has weak
fairness of every controller for every item it could process, which is what the
fairness inside each of them amounts to. `ServerOptions` has no liveness.

## Proofs

Every theorem holds for all sets of objects, namespaces, hubs and workers and for
all bounds, from the named assumption of its module and what is said below. The
inductive invariants were checked with TLC on the bounds of the runs before they
were proved. A proof has one step for each action; facts about queues, sequences of
events, records and folds are lemmas.

### The spec syncer

`SpecSyncerProofs` proves

* `TypeCorrect`: `Spec => []TypeOK`.
* `Serialised`: `Spec => []WorkSerialised`. The invariant adds that a worker has
  a key exactly while it is not idle.
* `ReadyObjectsInSync`: `Spec => []ReadyInSync`.
* `DeletionsInSync`: `Spec => []DeletedInSync`, if `ReadyLabels \subseteq {TRUE}`. The
  assumption is that of the run: `DeleteFunc` skips an object without its label, so
  the deletion of one that lost it is never carried out.

`ReadyInSync` speaks only of quiet moments and is not inductive. `SyncInv` adds

* `StoppedIsEmpty`: a process that is down has no memory;
* `CacheFollows`: the last event under way leads the cache to what the global hub
  has, so that a cache without pending events is current;
* `NothingForgotten`: for a ready object of the cache, a handler will still queue
  it, or it is queued or backing off, or a worker will apply what the cache holds
  or fail and queue it again, or it is applied.

The last is the heart of the argument. The delicate cases are an event that
changes the cache while a worker holds the older object (the notification of
that event then carries the promise), a handler that skips an update as equal
(then old and new agree, and the promise lies elsewhere), and a worker that ends
an item while the key is queued again. `DeletionsInSync` is the same argument for an
object that is gone from the cache (`Due`).

`SpecSyncerOrderProofs` proves

* `NeverGoesBack`: `Spec => NoRegression`. Contents are ordered by their generation
  along the way they take: the regional hub, the worker, the cache, the events under
  way, the global hub (`Ordered`). Each action moves a content one place along, and
  serialised work means that at most one worker holds the object.
* `FollowsHistory`: `Spec => Replicates`, the refinement of `Replication` with
  `Trail` for `trail`. `InLine` says that the trail is what the one worker holds
  followed by what the cache goes through. A write to the global hub is `Change`, a
  write to the regional hub `Give`, everything else `Refresh` or a stutter; lemmas in
  `Replication`, shared with the status syncer, say which changes of a sequence are a
  `LeavesOut` and what a `Line` becomes. A first list after
  a restart is where the trail may become shorter; `FirstListFirst` keeps it from
  coming after other events.

### The status syncer

`StatusSyncerProofs` proves `StatusTyped` (`TypeOK`) and `StatusesInSync`
(`StatusInSync`), with every request allowed to fail. `StatusInv` has the parts
of `SyncInv`; its `NothingForgotten` says which request of the several that
`updateStatusInUpstream` makes a worker still has to do for the status that it read,
that a worker whose update is refused will fail and queue the item again, or that the
latest apply of the object failed (`dropped`).

`PlaneInSync` (`ControlPlaneInSync`) holds for any number of workers and any failed
requests. It assumes `PlaneUndisturbed`: `POD_NAMESPACE` is set and nothing is deleted,
because an object that is gone makes `process` fail before the HubControlPlane is
computed. What a second worker (the run `StatusSyncerTwoWorkers`) or a failed apply spoils
is `contested`, until a HubControlPlane is computed while no other is under way. `PlaneInv`
adds to the parts above that what is cached exists
(`NothingVanishes`), that a HubControlPlane that lists something has a reason to
(`PlaneHasReason`, which is what makes a restart on an empty cache harmless), and
`PlanePending`: some managed cluster or addon is on its way to a worker that will compute
the HubControlPlane, or it is contested, or `PlaneComing`: the one worker that applies is
about to apply the one the caches make, or it is there and no worker applies another. The
history variables of a worker that goes on with its item are compared in
`CarryOnHistory`, the applies of the others in `PlaneBeside`.

`StatusesFollowHistory`: `Spec => Replicates`, the refinement of `Replication` for
statuses, without any assumption on failures. `Way` is what is under way of an object as
whole objects, `InLine` says that it is what the one worker holds followed by what the
cache goes through, and that `Trail` is its statuses (`Mapped` of `GenOf`). Elements that
are left out of `Way` are left out of the statuses (`TrailLeavesOut`, from
`MappedLeavesOut`), so the steps are compared as objects. `CarryOnGives` says what the
requests of `updateStatusInUpstream` and `applyToUpstream` do: they give the copy the status
of the object that the worker read from the cache, which is `Give`, or leave its status as
it is, as a refused update, the apply of the main resource and everything about the
HubControlPlane do. Whether a failed request took effect makes no difference
to what may follow, because the worker still holds the head of the line. The invariant is
`Typed`, `WorkSerialised`, `StoppedIsEmpty` and `FirstListFirst`.

### The policy controller

`PolicyControllerProofs` proves

* `PolicyTyped` (`TypeOK`) and `TotalsNeverDrift`: `Spec => []TotalsMatch`, the totals
  are the sums of the entries modulo `Width`, and the summary never has two entries of
  a hub. Both need that every version of a policy, wherever one is kept, has a summary
  that is `Sound`, and that `Fold` keeps it so (`FoldEffect`): each branch of
  `updateGlobalHubPolicy` adds to the totals what it adds to the entries, and takes away
  what it takes away, so that totals and entries cannot drift apart even where
  the counters wrap around. What a sum over the entries becomes when one of them changes,
  is added or is removed (`TotalChanges`) needs an induction over finite sets. It
  is done by a least counterexample: a non-empty set of numbers has a smallest one
  (`SmallestOf`, from `WFMin` and `NatLessThanWellFounded`), taken of the sizes of the sets
  for which the recursion of the fold has no solution (`AddsExists`), or for which its
  value depends on the order of summation (`AddsAnyOrder`).
* `LabelledOnceDone`: `Spec => [](~failed => LabelledWhenQuiet)`. `LabelPending`: a
  policy without a label will be seen again as it is stored, or the update under way
  is of the stored version and will be accepted. So a refused update, whose error is
  dropped, is made up for by the event of the write that caused the conflict. `failed`
  is set by a failed request, after which the property is false (above).
* `NothingLost`: `Spec => NoLostWrite`. `GenuineInv`: whoever holds a version of a
  policy with the stored resource version has the stored content, because resource
  versions only grow.
* `SummaryOnceDone`: `Spec /\ [][~GivesUp]_vars => []SummaryCurrent`, deletion and
  re-creation of the policy included. `SummaryPending`: what a hub reports will be seen again, is
  being folded, or is in the summary while nothing older is being folded. `GivesUp` is
  the refusal of the last attempt of `RetryOnConflict`.
* `RetriesSuffice`: it does not happen while there are no more writes and deletions than
  attempts (`MaxWrites <= Steps`), because every refused attempt costs a write (`TriesLeft`).
  `SummaryWithinRetries` combines the two. The runs have `MaxWrites <= Steps`.

### The start of the server

`ServerStartupProofs` proves `ServerTyped` (`TypeOK`), `CertificatesTogether`
(`SecretsMatch`), `CrdsInOrder` (`InstalledInOrder`), `HealthChecked`
(`HealthyMeansAvailable`) and `ServicesKept` (`CrdServicesKept`), from `StartInv`: the
files that this process has written come first (`SecretsInOrder`), what the installer
has walked past is installed (`WalkedInstalled`), what the health check has counted off
is available (`SeenAvailable`), and once the CRDs are synchronised whatever has an API
service is wanted (`ServedWanted`). `ServerAssumption` asks for at least one manifest.
The health check of the code is about services that have been seen available at least
once (`aggregator.go:217-218`). The model has nothing that makes a service unavailable
again, so `HealthChecked` says this and that the auto-registration withdraws none of them.

`ServerOptionsProofs` proves all six invariants of `ServerOptions` for command lines
of any length: `OptionsTyped` (`TypeOK`), `FailuresForeseen` (`ValidateForesees`),
`TokensAccepted` (`IssuedTokensAccepted`), `NobodyAllowedEverything`
(`AnonymousRestricted`), `KeysApart` (`ServingKeyApart`) and `CertificateForService`
(`ServingCertForService`).
`OptionsAssumption` says that a flag has values of its type and that there are finitely
many default cache sizes. There is a lemma for each step of `Complete`, saying which
options it changes and what it makes of them, and `CompletedEffect` puts them together
in the order of the code. `OptionsInv` says what is true of the options before and
after `Complete`, that the configuration is the one of the options as they are
(nothing changes them behind its back), and what was wrong with them when the process
ended.

### The federation

`FederationProofs` proves, from `FederationAssumption` only, `TypeCorrect` (`TypeOK`),
`PoliciesKeepTheirOrigin` (`Origin`) and `FindingsReachSummary` (`SummaryComplete`).
`Origin` speaks of the regional hubs only;
what they get depends on the labels and contents on the global hub, which depend on
what the hubs send up. `OriginInv` goes once round that circle, as long as nothing was
deleted: a policy of the global hub that is or will be released in its namespace was
written there (`OwnContent`), what is queued for the hubs is released
(`QueuedIsReleased`), what the hubs got has the label and content of its namespace
(`AppliedIsReleased`), so that the copies they send up keep the label of where they are
from, and what they have of their own has no label (`LocalIsUnlabelled`). Two lemmas,
one for each side, say which writes keep this; every action is then one of these
writes.

`FindingsReachSummary` needs `CompleteInv`, which is claimed while nothing was deleted
and no hub has a policy of its own. Then only the policy of the users is released
(`OnlyGlobalReleased`), applied on the hubs (`OnlyGlobalApplied`) and copied into their
namespaces (`CopiesOfGlobal`); what a hub found is in its copy or still to be sent up
(`FoundSentUp`), and what a copy says is in the summary or still to be folded into it
(`SentUpFolded`).

### Only model-checked

Liveness: `ReadyArrives`, `DeletionArrives`, `StatusArrives`, `LabelledUnlessFaulty`,
`ServerComesUp`, `HubControllersComeUp` and `HubsFollow` are stated under fairness, which
is out of the prover's reach. Every invariant, every action property and both refinements
that the passing runs check are also proved, under the conditions named above.

## Plan

1. Done: `Workqueue`, `Informer`, `SpecSyncer`, `PolicyController`, `StatusSyncer`,
   `ServerStartup`, `ServerOptions`, `Federation`, each with its proofs; `Replication`
   and the proofs of its two refinements.
2. Left for the model: managed clusters in `Federation`.

## Not modelled

Options that the code only hands to a library (webhook and request header
authentication, OIDC beyond its validation, admission plugins, logging and
feature flags); API enablement, whose `RuntimeConfig` no flag can set; the
per-signer files of the kube controllers, which have no flag either; the content of
the generated certificates; the controllers and API machinery of Kubernetes and
etcd (libraries); generated code, manifests and deployment scripts. Changes made
directly on a regional hub, apart from `Local` policies and status, are not
modelled: the syncer does not watch its target.
