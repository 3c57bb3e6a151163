----------------------------- MODULE ServerStartup -----------------------------
(***************************************************************************)
(* The start of the global hub's API server: Run of apiserver/server.go,   *)
(* the embedded etcd, the server chain, and the post-start hooks that      *)
(* createAggregatorServer adds, which run concurrently once the server     *)
(* serves:                                                                 *)
(*   - the installation of the CRDs of the global hub, in the order of the *)
(*     embedded manifests;                                                 *)
(*   - the global hub controllers, each waiting for the cache of its CRD;  *)
(*   - the kube controllers, whose errors end the whole process;           *)
(*   - the registration of API services, which the health check watches.   *)
(*                                                                         *)
(* What etcd holds and the files of its certificates survive the process   *)
(* when the directory does, everything else does not.                      *)
(***************************************************************************)
EXTENDS Naturals, Sequences, FiniteSets, Functions

CONSTANTS
    Manifests,        \* the CRDs in the order in which they are walked
    Watched,          \* the CRDs that have a global hub controller
    KubeControllers,  \* the controllers of NewControllerInitializers
    Listed,           \* the API groups that the chained servers list
    Prioritised,      \* the groups that apiVersionPriorities knows
    Survives,         \* may what etcd holds survive the process, may it be lost?
    MaxFaults,        \* bound: failed requests and failed starts
    MaxStops          \* bound: crashes and terminations of the process

Crds == Range(Manifests)

\* apiServicesToRegister: a listed group without a priority gets no service.
Services == Listed \cap Prioritised

ASSUME ServerAssumption ==
    /\ Manifests \in Seq(Crds) \ {<<>>}
    /\ IsInjective(Manifests)
    /\ Watched \subseteq Crds
    /\ Listed \cap Crds = {}
    /\ Survives \subseteq BOOLEAN
    /\ {MaxFaults, MaxStops} \subseteq Nat

VARIABLES
    crds,       \* etcd: the CRDs
    apis,       \* etcd: the API services
    secrets,    \* the files of etcd's certificates and keys
    written,    \* how many of these files this process has written
    phase,      \* how far the process is
    etcd,       \* the embedded etcd answers
    installer,  \* the goroutine of InstallGlobalHubCRDs
    hub,        \* the global hub controllers whose caches have synced
    kube,       \* the goroutine of RunKubeControllers
    synced,     \* the CRD registration has handled the initial set of CRDs
    registers,  \* the auto-registration is running
    wanted,     \* the API services to be registered
    pending,    \* the services the health check has not seen available
    faults, stops

stored == <<crds, apis>>
pki == <<secrets, written>>
registration == <<synced, registers, wanted>>
counters == <<faults, stops>>
vars == <<crds, apis, secrets, written, phase, etcd, installer, hub, kube, synced,
          registers, wanted, pending, faults, stops>>

Apis == Services \cup Crds

\* The files of generateClientAndServerCerts in the order they are written.  A
\* file is absent, of an earlier process, or of the keys of this process.
SecretFiles == <<"ca/key", "ca/cert", "peer/key", "peer/cert", "client/key",
                 "client/cert">>

TypeOK ==
    /\ crds \subseteq Crds
    /\ apis \in [Apis -> {"missing", "registered", "available"}]
    /\ secrets \in [Range(SecretFiles) -> {"none", "earlier", "own"}]
    /\ phase \in {"down", "secrets", "etcd", "config", "chain", "serving", "stopping"}
    /\ written \in 0..Len(SecretFiles)
    /\ etcd \in BOOLEAN
    /\ installer \in [pc : {"off", "walking", "returned"}, next : 1..Len(Manifests)]
    /\ hub \subseteq Watched
    /\ kube \in [pc : {"off", "context", "starting", "running"},
                 todo : SUBSET KubeControllers]
    /\ {synced, registers} \subseteq BOOLEAN
    /\ wanted \subseteq Apis
    /\ pending \subseteq Services
    /\ faults \in 0..MaxFaults
    /\ stops \in 0..MaxStops

\* The process ends: a return of Run is klog.Fatal in main.
Exit ==
    /\ \E kept \in Survives :
          /\ crds' = IF kept THEN crds ELSE {}
          /\ apis' = IF kept THEN apis ELSE [s \in Apis |-> "missing"]
          /\ secrets' = [f \in DOMAIN secrets |->
                            IF kept /\ secrets[f] # "none" THEN "earlier" ELSE "none"]
    /\ phase' = "down"
    /\ written' = 0
    /\ etcd' = FALSE
    /\ installer' = [pc |-> "off", next |-> 1]
    /\ hub' = {}
    /\ kube' = [pc |-> "off", todo |-> {}]
    /\ synced' = FALSE
    /\ registers' = FALSE
    /\ wanted' = {}
    /\ pending' = {}

Init ==
    /\ crds = {}
    /\ apis = [s \in Apis |-> "missing"]
    /\ secrets = [f \in Range(SecretFiles) |-> "none"]
    /\ phase = "down"
    /\ written = 0
    /\ etcd = FALSE
    /\ installer = [pc |-> "off", next |-> 1]
    /\ hub = {}
    /\ kube = [pc |-> "off", todo |-> {}]
    /\ synced = FALSE
    /\ registers = FALSE
    /\ wanted = {}
    /\ pending = {}
    /\ faults = 0
    /\ stops = 0

Fault == faults < MaxFaults /\ faults' = faults + 1

-------------------------------------------------------------------------------
(* Run: certificates, etcd, the chain, serving.                            *)

StartProcess ==
    /\ phase = "down"
    /\ phase' = "secrets"
    /\ UNCHANGED <<stored, pki, etcd, installer, hub, kube, registration,
                   pending, counters>>

\* Mutant: a file that is there is kept.
KeepsExisting ==
    /\ phase = "secrets"
    /\ written < Len(SecretFiles)
    /\ written' = written + 1
    /\ secrets' = [secrets EXCEPT ![SecretFiles[written + 1]] =
                                     IF @ = "none" THEN "own" ELSE @]
    /\ UNCHANGED <<stored, phase, etcd, installer, hub, kube, registration,
                   pending, counters>>

\* The process makes new keys and writes them and their certificates one file
\* after the other, over what an earlier process left.
generateClientAndServerCerts ==
    /\ phase = "secrets"
    /\ written < Len(SecretFiles)
    /\ written' = written + 1
    /\ secrets' = [secrets EXCEPT ![SecretFiles[written + 1]] = "own"]
    /\ UNCHANGED <<stored, phase, etcd, installer, hub, kube, registration,
                   pending, counters>>

StartEtcd ==
    /\ phase = "secrets"
    /\ written = Len(SecretFiles)
    /\ phase' = "etcd"
    /\ UNCHANGED <<stored, pki, etcd, installer, hub, kube, registration,
                   pending, counters>>

EtcdReady ==
    /\ phase = "etcd"
    /\ phase' = "config"
    /\ etcd' = TRUE
    /\ UNCHANGED <<stored, pki, installer, hub, kube, registration, pending,
                   counters>>

\* The configuration of the chained servers; nothing runs yet.
CreateKubeAPIServerConfig ==
    /\ phase = "config"
    /\ phase' = "chain"
    /\ UNCHANGED <<stored, pki, etcd, installer, hub, kube, registration,
                   pending, counters>>

\* A file cannot be written, etcd fails or is not ready in 60 seconds, or the
\* configuration or the chain cannot be built.
StartFails ==
    /\ phase \in {"secrets", "etcd", "config", "chain"}
    /\ Fault
    /\ Exit
    /\ UNCHANGED stops

\* The services to register and to wait for, and the hooks; the global hub
\* controllers start without a cache.
createAggregatorServer ==
    /\ wanted' = Services
    /\ pending' = Services
    /\ installer' = [pc |-> "walking", next |-> 1]
    /\ kube' = [pc |-> "context", todo |-> KubeControllers]

\* prepared.Run serves and starts every hook.
CreateServerChain ==
    /\ phase = "chain"
    /\ phase' = "serving"
    /\ createAggregatorServer
    /\ UNCHANGED <<stored, pki, etcd, hub, synced, registers, counters>>

\* SIGTERM cancels the context: the server drains, the global hub controllers
\* stop, and etcd is closed by its own goroutine.  The kube controllers and
\* the installation go on until the process ends.  (A SIGTERM before the server
\* serves ends the process as a crash does.)
Terminate ==
    /\ phase = "serving"
    /\ stops < MaxStops
    /\ stops' = stops + 1
    /\ phase' = "stopping"
    /\ hub' = {}
    /\ UNCHANGED <<stored, pki, etcd, installer, kube, registration, pending,
                   faults>>

CloseEtcd ==
    /\ phase = "stopping"
    /\ etcd
    /\ etcd' = FALSE
    /\ UNCHANGED <<stored, pki, phase, installer, hub, kube, registration,
                   pending, counters>>

Drained ==
    /\ phase = "stopping"
    /\ Exit
    /\ UNCHANGED counters

Crash ==
    /\ phase # "down"
    /\ stops < MaxStops
    /\ stops' = stops + 1
    /\ Exit
    /\ UNCHANGED faults

-------------------------------------------------------------------------------
(* The hooks global-hub-crds and global-hub-controllers.                   *)

\* Mutant: the walk goes on after a request that failed.
WalksOn(ok) ==
    installer' = IF installer.next < Len(Manifests)
                 THEN [installer EXCEPT !.next = @ + 1]
                 ELSE [installer EXCEPT !.pc = "returned"]

\* Mutant: the walk ends before the last manifest.
StopsShort(ok) ==
    installer' = IF ok /\ installer.next + 1 < Len(Manifests)
                 THEN [installer EXCEPT !.next = @ + 1]
                 ELSE [installer EXCEPT !.pc = "returned"]

\* Mutant: the walk does not end at the last manifest.
WalksPastTheEnd(ok) ==
    installer' = IF ok THEN [installer EXCEPT !.next = @ + 1]
                 ELSE [installer EXCEPT !.pc = "returned"]

\* The function given to WalkDir returned: an error ends the walk.
Walked(ok) ==
    installer' = IF ok /\ installer.next < Len(Manifests)
                 THEN [installer EXCEPT !.next = @ + 1]
                 ELSE [installer EXCEPT !.pc = "returned"]

\* A CRD that is there already is an error like any other.
InstallCrd ==
    /\ installer.pc = "walking"
    /\ etcd
    /\ crds' = crds \cup {Manifests[installer.next]}
    /\ Walked(Manifests[installer.next] \notin crds)
    /\ UNCHANGED <<apis, pki, phase, etcd, hub, kube, registration, pending,
                   counters>>

\* The request fails; done says whether the CRD was created nevertheless.
InstallFails(done) ==
    /\ installer.pc = "walking"
    /\ done => etcd
    /\ Fault
    /\ crds' = IF done THEN crds \cup {Manifests[installer.next]} ELSE crds
    /\ Walked(FALSE)
    /\ UNCHANGED <<apis, pki, phase, etcd, hub, kube, registration, pending,
                   stops>>

\* GenericController.Run: WaitForCacheSync returns once a list succeeds, which
\* it does when the CRD is served.
CacheSynced(c) ==
    /\ phase = "serving"
    /\ c \in (Watched \cap crds) \ hub
    /\ hub' = hub \cup {c}
    /\ UNCHANGED <<stored, pki, phase, etcd, installer, kube, registration,
                   pending, counters>>

-------------------------------------------------------------------------------
(* The hook kube-controller.                                               *)

CreateControllerContext ==
    /\ kube.pc = "context"
    /\ etcd
    /\ kube' = [kube EXCEPT !.pc = "starting"]
    /\ UNCHANGED <<stored, pki, phase, etcd, installer, hub, registration,
                   pending, counters>>

\* StartControllers ranges over a map: in any order.
StartController(k) ==
    /\ kube.pc = "starting"
    /\ k \in kube.todo
    /\ kube' = [kube EXCEPT !.todo = @ \ {k}]
    /\ UNCHANGED <<stored, pki, phase, etcd, installer, hub, registration,
                   pending, counters>>

StartInformers ==
    /\ kube.pc = "starting"
    /\ kube.todo = {}
    /\ kube' = [kube EXCEPT !.pc = "running"]
    /\ UNCHANGED <<stored, pki, phase, etcd, installer, hub, registration,
                   pending, counters>>

\* Mutant: the error is returned, and only logged.
KubeGivesUp ==
    /\ kube.pc \in {"context", "starting"}
    /\ Fault
    /\ kube' = [pc |-> "off", todo |-> {}]
    /\ UNCHANGED <<stored, pki, phase, etcd, installer, hub, registration,
                   pending, stops>>

\* klog.Fatalf ends the API server as well, whatever its other hooks do.
KubeFatal ==
    /\ kube.pc \in {"context", "starting"}
    /\ Fault
    /\ Exit
    /\ UNCHANGED stops

-------------------------------------------------------------------------------
(* The hook kube-apiserver-autoregistration and the health check.          *)

\* CRD registration: the initial set of CRDs, then the ones that are added.
CrdInitialSync ==
    /\ phase = "serving"
    /\ etcd
    /\ ~synced
    /\ synced' = TRUE
    /\ wanted' = wanted \cup crds
    /\ UNCHANGED <<stored, pki, phase, etcd, installer, hub, kube, registers,
                   pending, counters>>

CrdAdded(c) ==
    /\ phase = "serving"
    /\ synced
    /\ c \in crds \ wanted
    /\ wanted' = wanted \cup {c}
    /\ UNCHANGED <<stored, pki, phase, etcd, installer, hub, kube, synced,
                   registers, pending, counters>>

\* Mutant: the auto-registration does not wait for the CRDs.
RegistersAtOnce ==
    /\ phase = "serving"
    /\ ~registers
    /\ registers' = TRUE
    /\ UNCHANGED <<stored, pki, phase, etcd, installer, hub, kube, synced,
                   wanted, pending, counters>>

\* WaitForInitialSync, then autoRegistrationController.Run.
RunAutoRegistration ==
    /\ phase = "serving"
    /\ synced
    /\ ~registers
    /\ registers' = TRUE
    /\ UNCHANGED <<stored, pki, phase, etcd, installer, hub, kube, synced,
                   wanted, pending, counters>>

\* A wanted service is created, one that nobody wants is deleted.
AutoRegister(s) ==
    /\ registers
    /\ etcd
    /\ s \in wanted <=> apis[s] = "missing"
    /\ apis' = [apis EXCEPT ![s] = IF s \in wanted THEN "registered" ELSE "missing"]
    /\ UNCHANGED <<crds, pki, phase, etcd, installer, hub, kube, registration,
                   pending, counters>>

\* The aggregator's own controller marks a service that it can serve.
MarkAvailable(s) ==
    /\ phase = "serving"
    /\ etcd
    /\ apis[s] = "registered"
    /\ apis' = [apis EXCEPT ![s] = "available"]
    /\ UNCHANGED <<crds, pki, phase, etcd, installer, hub, kube, registration,
                   pending, counters>>

\* Mutant: a service is taken off the list as soon as it is there.
IgnoresCondition(s) ==
    /\ phase = "serving"
    /\ s \in pending
    /\ apis[s] # "missing"
    /\ pending' = pending \ {s}
    /\ UNCHANGED <<stored, pki, phase, etcd, installer, hub, kube, registration,
                   counters>>

\* The informer shows the service to the handler of the health check; a service
\* that is not available yet changes nothing.
handleAPIServiceChange(s) ==
    /\ phase = "serving"
    /\ s \in pending
    /\ apis[s] = "available"
    /\ pending' = pending \ {s}
    /\ UNCHANGED <<stored, pki, phase, etcd, installer, hub, kube, registration,
                   counters>>

-------------------------------------------------------------------------------
Start ==
    \/ StartProcess
    \/ generateClientAndServerCerts
    \/ StartEtcd
    \/ EtcdReady
    \/ CreateKubeAPIServerConfig
    \/ CreateServerChain

StartKubeControllers ==
    \/ CreateControllerContext
    \/ \E k \in KubeControllers : StartController(k)
    \/ StartInformers

Next ==
    \/ Start
    \/ StartFails
    \/ Terminate
    \/ CloseEtcd
    \/ Drained
    \/ Crash
    \/ InstallCrd
    \/ \E done \in BOOLEAN : InstallFails(done)
    \/ StartKubeControllers
    \/ KubeFatal
    \/ CrdInitialSync
    \/ RunAutoRegistration
    \/ \E c \in Crds : CacheSynced(c) \/ CrdAdded(c)
    \/ \E s \in Apis : AutoRegister(s) \/ MarkAvailable(s)
    \/ \E s \in Services : handleAPIServiceChange(s)

Spec == Init /\ [][Next]_vars

\* The goroutines of a process keep running, a terminating process ends, and a
\* process that ended is started again (a Deployment).
Fairness ==
    /\ WF_vars(Start)
    /\ WF_vars(Drained)
    /\ WF_vars(InstallCrd)
    /\ WF_vars(StartKubeControllers)
    /\ WF_vars(CrdInitialSync)
    /\ WF_vars(RunAutoRegistration)
    /\ \A c \in Crds : WF_vars(CacheSynced(c)) /\ WF_vars(CrdAdded(c))
    /\ \A s \in Apis : WF_vars(AutoRegister(s)) /\ WF_vars(MarkAvailable(s))
    /\ \A s \in Services : WF_vars(handleAPIServiceChange(s))

FairSpec == Spec /\ Fairness

-------------------------------------------------------------------------------
(* Properties.                                                             *)

AllInstalled == crds = Crds
Healthy == phase = "serving" /\ pending = {}

\* The CRDs in etcd are always the first ones of the manifests, whatever fails
\* and whenever the process ends: InstallGlobalHubCRDs stops at an error and
\* never leaves a gap that a later start would have to find.
InstalledInOrder ==
    \A i, j \in DOMAIN Manifests :
        i < j /\ Manifests[j] \in crds => Manifests[i] \in crds

\* etcd runs only with keys, certificates and a CA that were made together, also
\* after a process that ended while it wrote them (generateClientAndServerCerts).
SecretsMatch ==
    etcd => \A f \in DOMAIN secrets : secrets[f] = "own"

\* A restarted server never withdraws the API service of a CRD that is still
\* installed: the auto-registration deletes what it does not know of, and is
\* held back until it knows of every CRD (createAggregatorServer).
CrdServicesKept ==
    [][\A c \in crds \cap crds' : apis[c] # "missing" => apis'[c] # "missing"]_vars

\* A process is healthy only when it has seen every built-in service available, each
\* at least once since it was started (aggregator.go:217-218), and the check forgets
\* what an earlier process saw.  An API server that is up does not lose a service
\* in this model, so one that was seen available still is
\* (makeAPIServiceAvailableHealthCheck).
HealthyMeansAvailable ==
    Healthy => \A s \in Services : apis[s] = "available"

\* Whatever fails and however often the process ends, the server comes up in
\* the end: it is healthy, its kube controllers run and every CRD that is
\* installed has its API service.
ServerComesUp ==
    <>[](/\ Healthy
         /\ kube.pc = "running"
         /\ \A c \in crds : apis[c] = "available")

\* A start that nothing disturbs installs every CRD, and once the CRDs are all
\* installed every global hub controller runs again after any restart.
HubControllersComeUp ==
    <>[](AllInstalled \/ faults + stops = 0 => AllInstalled /\ hub = Watched)

\* "Add PostStartHook to install global hub crds" and "... controllers"
\* (apiserver/aggregator.go:174, 187): the CRDs are there in the end, even when
\* the process ended in the middle of their installation.
CrdsInstalled == <>[]AllInstalled
===============================================================================
