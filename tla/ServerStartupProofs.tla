-------------------------- MODULE ServerStartupProofs --------------------------
(***************************************************************************)
(* Proofs about the start of the global hub's API server, for any manifests,*)
(* API groups and controllers and any number of failures and restarts: the *)
(* state is well typed, etcd runs only with certificates that belong       *)
(* together, the CRDs are installed in order, a healthy server has its     *)
(* services, and no service of an installed CRD is withdrawn.              *)
(***************************************************************************)
EXTENDS ServerStartup, TLAPS

\* Why SecretsMatch holds: the files are written one after the other, and etcd is
\* started once all of them are.
SecretsInOrder ==
    /\ \A i \in 1..written : secrets[SecretFiles[i]] = "own"
    /\ phase \notin {"down", "secrets"} => written = Len(SecretFiles)
    /\ etcd => phase \notin {"down", "secrets"}

\* Why InstalledInOrder holds: what comes before the manifest at which the walk is
\* has been installed.
WalkedInstalled ==
    installer.pc = "walking" =>
        \A i \in 1..installer.next - 1 : Manifests[i] \in crds

\* Why HealthyMeansAvailable holds: a service that is off the list of the health
\* check is available, and is not withdrawn since it is wanted.
SeenAvailable ==
    phase = "serving" =>
        /\ Services \subseteq wanted
        /\ \A s \in Services \ pending : apis[s] = "available"

\* Why CrdServicesKept holds: once the initial CRDs have been handled, the CRDs that
\* have a service are all wanted.
ServedWanted ==
    /\ wanted \subseteq Services \cup crds
    /\ \A c \in Crds : apis[c] # "missing" => c \in crds
    /\ synced => \A c \in Crds : apis[c] # "missing" => c \in wanted
    /\ registers => synced
    /\ synced => phase \in {"serving", "stopping"}

StartInv ==
    /\ TypeOK
    /\ SecretsInOrder
    /\ WalkedInstalled
    /\ InstalledInOrder
    /\ SeenAvailable
    /\ ServedWanted

-------------------------------------------------------------------------------
(* The constants.                                                          *)

\* The files of the certificates.
LEMMA Files ==
    /\ Len(SecretFiles) = 6
    /\ \A i \in 1..6 : SecretFiles[i] \in Range(SecretFiles)
    /\ \A f \in Range(SecretFiles) : \E i \in 1..6 : f = SecretFiles[i]
    /\ \A i, j \in 1..6 : SecretFiles[i] = SecretFiles[j] => i = j
<1>1. DOMAIN SecretFiles = 1..6 /\ Len(SecretFiles) = 6
  BY DEF SecretFiles
<1>2. Range(SecretFiles) = {SecretFiles[i] : i \in 1..6}
  BY <1>1 DEF Range
<1>3. \A i, j \in 1..6 : SecretFiles[i] = SecretFiles[j] => i = j
  BY DEF SecretFiles
<1> QED BY <1>1, <1>2, <1>3

\* The manifests are different CRDs, and there is one.
LEMMA ManifestCrds ==
    /\ Len(Manifests) \in Nat \ {0}
    /\ DOMAIN Manifests = 1..Len(Manifests)
    /\ \A i \in 1..Len(Manifests) : Manifests[i] \in Crds
    /\ \A i, j \in 1..Len(Manifests) : Manifests[i] = Manifests[j] => i = j
<1>1. Manifests \in Seq(Crds) /\ Manifests # <<>> /\ IsInjective(Manifests)
  BY ServerAssumption
<1>2. Len(Manifests) \in Nat \ {0} /\ DOMAIN Manifests = 1..Len(Manifests)
  BY <1>1
<1>3. \A i, j \in DOMAIN Manifests : Manifests[i] = Manifests[j] => i = j
  BY <1>1 DEF IsInjective
<1>4. \A i \in DOMAIN Manifests : Manifests[i] \in Crds
  BY DEF Crds, Range
<1> QED BY <1>2, <1>3, <1>4

-------------------------------------------------------------------------------
(* Types.                                                                  *)

\* The end of a process leaves a well typed state.
LEMMA ExitType ==
    ASSUME TypeOK, Exit, faults' \in 0..MaxFaults, stops' \in 0..MaxStops
    PROVE  TypeOK'
<1>1. secrets' \in [Range(SecretFiles) -> {"none", "earlier", "own"}]
  BY DEF TypeOK, Exit
<1>2. crds' \subseteq Crds /\ apis' \in [Apis -> {"missing", "registered", "available"}]
  BY DEF TypeOK, Exit
<1>3. installer' \in [pc : {"off", "walking", "returned"}, next : 1..Len(Manifests)]
  BY ManifestCrds DEF Exit
<1>4. /\ phase' = "down" /\ written' = 0 /\ etcd' = FALSE /\ hub' = {}
      /\ kube' = [pc |-> "off", todo |-> {}] /\ synced' = FALSE /\ registers' = FALSE
      /\ wanted' = {} /\ pending' = {}
  BY DEF Exit
<1>5. kube' \in [pc : {"off", "context", "starting", "running"}, todo : SUBSET KubeControllers]
  BY <1>4
<1>6. written' \in 0..Len(SecretFiles)
  BY <1>4, Files
<1>7. {synced', registers'} \subseteq BOOLEAN
  BY <1>4
<1> QED BY <1>1, <1>2, <1>3, <1>4, <1>5, <1>6, <1>7 DEF TypeOK

\* The walk stays within the manifests.
LEMMA WalkedType ==
    ASSUME TypeOK, NEW ok, Walked(ok)
    PROVE  installer' \in [pc : {"off", "walking", "returned"}, next : 1..Len(Manifests)]
<1>1. installer.next \in 1..Len(Manifests) /\ installer.pc \in {"off", "walking", "returned"}
  BY DEF TypeOK
<1>2. CASE installer.next < Len(Manifests)
  <2>1. installer.next + 1 \in 1..Len(Manifests)
    BY <1>1, <1>2, ManifestCrds
  <2> QED BY <1>1, <2>1 DEF Walked, TypeOK
<1>3. CASE ~(installer.next < Len(Manifests))
  BY <1>1, <1>3 DEF Walked, TypeOK
<1> QED BY <1>2, <1>3

\* Every step keeps the state well typed.
LEMMA NextType == TypeOK /\ [Next]_vars => TypeOK'
<1> SUFFICES ASSUME TypeOK, [Next]_vars PROVE TypeOK'
  OBVIOUS
<1>n. MaxFaults \in Nat /\ MaxStops \in Nat /\ Watched \subseteq Crds
  BY ServerAssumption
<1>f. Fault => faults' \in 0..MaxFaults
  BY <1>n DEF TypeOK, Fault
<1>1. CASE StartProcess \/ StartEtcd \/ EtcdReady \/ CreateKubeAPIServerConfig \/ CloseEtcd
  BY <1>1 DEF TypeOK, StartProcess, StartEtcd, EtcdReady, CreateKubeAPIServerConfig,
     CloseEtcd, stored, pki, registration, counters
<1>2. CASE generateClientAndServerCerts
  <2>1. written' \in 0..Len(SecretFiles) /\ written + 1 \in 1..6
    BY <1>2, Files DEF TypeOK, generateClientAndServerCerts
  <2>2. secrets' \in [Range(SecretFiles) -> {"none", "earlier", "own"}]
    BY <1>2, <2>1 DEF TypeOK, generateClientAndServerCerts
  <2> QED BY <1>2, <2>1, <2>2
          DEF TypeOK, generateClientAndServerCerts, stored, registration, counters
<1>3. CASE StartFails
  BY <1>3, <1>f, ExitType DEF StartFails, TypeOK
<1>4. CASE CreateServerChain
  <2>1. Services \subseteq Apis
    BY DEF Apis
  <2>2. installer' \in [pc : {"off", "walking", "returned"}, next : 1..Len(Manifests)]
    BY <1>4, ManifestCrds DEF CreateServerChain, createAggregatorServer
  <2> QED BY <1>4, <2>1, <2>2
          DEF TypeOK, CreateServerChain, createAggregatorServer, stored, pki, counters
<1>5. CASE Terminate
  BY <1>5, <1>n DEF TypeOK, Terminate, stored, pki, registration
<1>6. CASE Drained
  BY <1>6, ExitType DEF Drained, TypeOK, counters
<1>7. CASE Crash
  <2>1. stops' \in 0..MaxStops
    BY <1>7, <1>n DEF Crash, TypeOK
  <2> QED BY <1>7, <2>1, ExitType DEF Crash, TypeOK
<1>8. CASE InstallCrd
  <2>1. Manifests[installer.next] \in Crds
    BY ManifestCrds DEF TypeOK
  <2>2. installer' \in [pc : {"off", "walking", "returned"}, next : 1..Len(Manifests)]
    BY <1>8, WalkedType DEF InstallCrd
  <2> QED BY <1>8, <2>1, <2>2 DEF TypeOK, InstallCrd, pki, registration, counters
<1>9. ASSUME NEW done \in BOOLEAN, InstallFails(done) PROVE TypeOK'
  <2>1. Manifests[installer.next] \in Crds
    BY ManifestCrds DEF TypeOK
  <2>2. installer' \in [pc : {"off", "walking", "returned"}, next : 1..Len(Manifests)]
    BY <1>9, WalkedType DEF InstallFails
  <2> QED BY <1>9, <1>f, <2>1, <2>2 DEF TypeOK, InstallFails, pki, registration
<1>10. CASE StartKubeControllers
  <2>1. kube' \in [pc : {"off", "context", "starting", "running"}, todo : SUBSET KubeControllers]
    BY <1>10 DEF TypeOK, StartKubeControllers, CreateControllerContext, StartController,
       StartInformers
  <2> QED BY <1>10, <2>1
          DEF TypeOK, StartKubeControllers, CreateControllerContext, StartController,
              StartInformers, stored, pki, registration, counters
<1>11. CASE KubeFatal
  BY <1>11, <1>f, ExitType DEF KubeFatal, TypeOK
<1>12. CASE CrdInitialSync \/ RunAutoRegistration
  BY <1>12 DEF TypeOK, CrdInitialSync, RunAutoRegistration, stored, pki, counters, Apis
<1>13. ASSUME NEW c \in Crds, CacheSynced(c) \/ CrdAdded(c) PROVE TypeOK'
  BY <1>13 DEF TypeOK, CacheSynced, CrdAdded, stored, pki, registration, counters, Apis
<1>14. ASSUME NEW a \in Apis, AutoRegister(a) \/ MarkAvailable(a) PROVE TypeOK'
  BY <1>14 DEF TypeOK, AutoRegister, MarkAvailable, pki, registration, counters
<1>15. ASSUME NEW a \in Services, handleAPIServiceChange(a) PROVE TypeOK'
  BY <1>15 DEF TypeOK, handleAPIServiceChange, stored, pki, registration, counters
<1>16. CASE UNCHANGED vars
  BY <1>16 DEF TypeOK, vars
<1> QED BY <1>1, <1>2, <1>3, <1>4, <1>5, <1>6, <1>7, <1>8, <1>9, <1>10, <1>11, <1>12,
           <1>13, <1>14, <1>15, <1>16 DEF Next, Start

-------------------------------------------------------------------------------
(* The parts of the invariant.                                             *)

\* Every step keeps the order of the certificates and of etcd's start.
LEMMA NextSecrets == TypeOK /\ SecretsInOrder /\ [Next]_vars => SecretsInOrder'
<1> SUFFICES ASSUME TypeOK, SecretsInOrder, [Next]_vars PROVE SecretsInOrder'
  OBVIOUS
<1>e. Exit => SecretsInOrder'
  BY DEF Exit, SecretsInOrder
<1>1. CASE generateClientAndServerCerts
  <2>1. written \in 0..5 /\ written' = written + 1 /\ phase' = phase /\ phase = "secrets"
    BY <1>1, Files DEF generateClientAndServerCerts, TypeOK
  <2>2. secrets' = [secrets EXCEPT ![SecretFiles[written + 1]] = "own"] /\ etcd' = etcd
    BY <1>1 DEF generateClientAndServerCerts
  <2>3. ASSUME NEW i \in 1..written' PROVE secrets'[SecretFiles[i]] = "own"
    <3>1. i \in 1..6 /\ written + 1 \in 1..6 /\ (i = written + 1 \/ i \in 1..written)
      BY <2>1
    <3>2. secrets \in [Range(SecretFiles) -> {"none", "earlier", "own"}]
      BY DEF TypeOK
    <3>3. SecretFiles[i] \in Range(SecretFiles) /\ SecretFiles[written + 1] \in Range(SecretFiles)
      BY <3>1, Files
    <3> QED BY <2>2, <3>1, <3>2, <3>3 DEF SecretsInOrder
  <2> QED BY <2>1, <2>2, <2>3 DEF SecretsInOrder
<1>2. CASE StartProcess \/ StartEtcd \/ EtcdReady \/ CreateKubeAPIServerConfig
             \/ CreateServerChain \/ Terminate \/ CloseEtcd
  BY <1>2 DEF SecretsInOrder, StartProcess, StartEtcd, EtcdReady,
     CreateKubeAPIServerConfig, CreateServerChain, Terminate, CloseEtcd, pki
<1>3. CASE UNCHANGED <<secrets, written, phase, etcd>>
  BY <1>3 DEF SecretsInOrder
<1> QED BY <1>e, <1>1, <1>2, <1>3
        DEF Next, Start, StartFails, Drained, Crash, InstallCrd, InstallFails,
            StartKubeControllers, CreateControllerContext, StartController, StartInformers,
            KubeFatal, CrdInitialSync, RunAutoRegistration, CacheSynced, CrdAdded,
            AutoRegister, MarkAvailable, handleAPIServiceChange, pki, vars

\* Every step keeps the CRDs in the order of the manifests.
LEMMA NextInstalled ==
    TypeOK /\ WalkedInstalled /\ InstalledInOrder /\ [Next]_vars
        => WalkedInstalled' /\ InstalledInOrder'
<1> SUFFICES ASSUME TypeOK, WalkedInstalled, InstalledInOrder, [Next]_vars
             PROVE  WalkedInstalled' /\ InstalledInOrder'
  OBVIOUS
<1>e. Exit => WalkedInstalled' /\ InstalledInOrder'
  BY DEF Exit, WalkedInstalled, InstalledInOrder
<1>c. CASE CreateServerChain
  <2>1. installer'.next = 1 /\ crds' = crds
    BY <1>c DEF CreateServerChain, createAggregatorServer, stored
  <2>2. 1..installer'.next - 1 = {}
    BY <2>1
  <2> QED BY <2>1, <2>2 DEF WalkedInstalled, InstalledInOrder
<1>1. ASSUME NEW ok, Walked(ok), installer.pc = "walking",
             \/ crds' = crds \cup {Manifests[installer.next]}
             \/ crds' = crds /\ ~ok
      PROVE  WalkedInstalled' /\ InstalledInOrder'
  <2> DEFINE n == installer.next
  <2>1. n \in 1..Len(Manifests) /\ Len(Manifests) \in Nat /\ DOMAIN Manifests = 1..Len(Manifests)
    BY ManifestCrds DEF TypeOK
  <2>2. \A i \in 1..n - 1 : Manifests[i] \in crds
    BY <1>1 DEF WalkedInstalled
  <2>3. \/ installer'.next = n + 1 /\ ok
        \/ installer'.pc = "returned"
    BY <1>1, <2>1 DEF Walked, TypeOK
  <2>4. WalkedInstalled'
    <3>1. CASE installer'.pc = "returned"
      BY <3>1 DEF WalkedInstalled
    <3>2. CASE installer'.next = n + 1 /\ ok
      <4>1. crds' = crds \cup {Manifests[n]}
        BY <1>1, <3>2
      <4>2. ASSUME NEW i \in 1..installer'.next - 1 PROVE Manifests[i] \in crds'
        <5>1. i \in 1..n - 1 \/ i = n
          BY <2>1, <3>2
        <5> QED BY <2>2, <4>1, <5>1
      <4> QED BY <4>2 DEF WalkedInstalled
    <3> QED BY <2>3, <3>1, <3>2
  <2> HIDE DEF n
  <2>5. ASSUME NEW i \in DOMAIN Manifests, NEW j \in DOMAIN Manifests, i < j,
               Manifests[j] \in crds'
        PROVE  Manifests[i] \in crds'
    <3>1. CASE Manifests[j] \in crds
      BY <1>1, <2>5, <3>1 DEF InstalledInOrder
    <3>2. CASE Manifests[j] \notin crds
      <4>1. Manifests[j] = Manifests[n]
        BY <1>1, <2>5, <3>2 DEF n
      <4>2. j = n
        BY <2>1, <4>1, ManifestCrds
      <4>3. i \in 1..n - 1
        BY <2>1, <2>5, <4>2
      <4> QED BY <1>1, <2>2, <4>3
    <3> QED BY <3>1, <3>2
  <2> QED BY <2>4, <2>5 DEF InstalledInOrder
<1>2. CASE InstallCrd
  BY <1>1, <1>2 DEF InstallCrd
<1>3. ASSUME NEW done \in BOOLEAN, InstallFails(done)
      PROVE  WalkedInstalled' /\ InstalledInOrder'
  BY <1>1, <1>3 DEF InstallFails
<1>4. CASE UNCHANGED <<crds, installer>>
  BY <1>4 DEF WalkedInstalled, InstalledInOrder
<1> QED BY <1>e, <1>c, <1>2, <1>3, <1>4
        DEF Next, Start, StartProcess, generateClientAndServerCerts, StartEtcd, EtcdReady,
            CreateKubeAPIServerConfig, StartFails, Terminate, CloseEtcd, Drained, Crash,
            StartKubeControllers, CreateControllerContext, StartController, StartInformers,
            KubeFatal, CrdInitialSync, RunAutoRegistration, CacheSynced, CrdAdded,
            AutoRegister, MarkAvailable, handleAPIServiceChange, stored, vars

\* Every step keeps the services that the health check has seen.
LEMMA NextSeen == TypeOK /\ SeenAvailable /\ [Next]_vars => SeenAvailable'
<1> SUFFICES ASSUME TypeOK, SeenAvailable, [Next]_vars PROVE SeenAvailable'
  OBVIOUS
<1>a. apis \in [Apis -> {"missing", "registered", "available"}] /\ Services \subseteq Apis
  BY DEF TypeOK, Apis
<1>e. Exit => SeenAvailable'
  BY DEF Exit, SeenAvailable
<1>1. CASE CreateServerChain
  BY <1>1 DEF CreateServerChain, createAggregatorServer, SeenAvailable
<1>2. CASE phase' # "serving"
  BY <1>2 DEF SeenAvailable
<1>3. CASE CrdInitialSync
  BY <1>3 DEF SeenAvailable, CrdInitialSync, stored
<1>4. ASSUME NEW c \in Crds, CrdAdded(c) PROVE SeenAvailable'
  BY <1>4 DEF SeenAvailable, CrdAdded, stored
<1>5. ASSUME NEW a \in Apis, AutoRegister(a) PROVE SeenAvailable'
  BY <1>5, <1>a DEF SeenAvailable, AutoRegister, registration
<1>6. ASSUME NEW a \in Apis, MarkAvailable(a) PROVE SeenAvailable'
  BY <1>6, <1>a DEF SeenAvailable, MarkAvailable, registration
<1>7. ASSUME NEW a \in Services, handleAPIServiceChange(a) PROVE SeenAvailable'
  BY <1>7 DEF SeenAvailable, handleAPIServiceChange, stored, registration
<1>8. CASE UNCHANGED <<apis, phase, wanted, pending>>
  BY <1>8 DEF SeenAvailable
<1> QED BY <1>e, <1>1, <1>2, <1>3, <1>4, <1>5, <1>6, <1>7, <1>8
        DEF Next, Start, StartProcess, generateClientAndServerCerts, StartEtcd, EtcdReady,
            CreateKubeAPIServerConfig, StartFails, Terminate, CloseEtcd, Drained, Crash,
            InstallCrd, InstallFails, StartKubeControllers, CreateControllerContext,
            StartController, StartInformers, KubeFatal, RunAutoRegistration, CacheSynced,
            stored, registration, vars

\* Every step keeps the services of CRDs wanted.
LEMMA NextServed == TypeOK /\ ServedWanted /\ [Next]_vars => ServedWanted'
<1> SUFFICES ASSUME TypeOK, ServedWanted, [Next]_vars PROVE ServedWanted'
  OBVIOUS
<1>a. /\ apis \in [Apis -> {"missing", "registered", "available"}]
      /\ Crds \subseteq Apis /\ Services \cap Crds = {}
      /\ {synced, registers} \subseteq BOOLEAN
  BY ServerAssumption DEF TypeOK, Apis, Services
<1>e. CASE Exit
  <2>1. wanted' = {} /\ synced' = FALSE /\ registers' = FALSE
    BY <1>e DEF Exit
  <2>2. PICK kept \in Survives :
            /\ crds' = IF kept THEN crds ELSE {}
            /\ apis' = IF kept THEN apis ELSE [s \in Apis |-> "missing"]
    BY <1>e DEF Exit
  <2>3. \A c \in Crds : apis'[c] # "missing" => c \in crds'
    BY <1>a, <2>2 DEF ServedWanted
  <2> QED BY <2>1, <2>3 DEF ServedWanted
<1>1. CASE CreateServerChain
  <2>1. /\ wanted' = Services /\ crds' = crds /\ apis' = apis
        /\ synced' = synced /\ registers' = registers
    BY <1>1 DEF CreateServerChain, createAggregatorServer, stored
  <2>2. ~synced
    BY <1>1 DEF CreateServerChain, ServedWanted
  <2> QED BY <2>1, <2>2 DEF ServedWanted
<1>2. CASE CrdInitialSync
  BY <1>2, <1>a DEF ServedWanted, CrdInitialSync, stored
<1>3. ASSUME NEW c \in Crds, CrdAdded(c) PROVE ServedWanted'
  BY <1>3, <1>a DEF ServedWanted, CrdAdded, stored
<1>4. ASSUME NEW a \in Apis, AutoRegister(a) PROVE ServedWanted'
  BY <1>4, <1>a DEF ServedWanted, AutoRegister, registration
<1>5. ASSUME NEW a \in Apis, MarkAvailable(a) PROVE ServedWanted'
  BY <1>5, <1>a DEF ServedWanted, MarkAvailable, registration
<1>6. CASE RunAutoRegistration
  BY <1>6, <1>a DEF ServedWanted, RunAutoRegistration, stored
<1>7. ASSUME crds \subseteq crds', UNCHANGED <<apis, synced, registers, wanted>>,
             phase \in {"serving", "stopping"} => phase' \in {"serving", "stopping"}
      PROVE  ServedWanted'
  BY <1>7 DEF ServedWanted
<1> QED BY <1>e, <1>1, <1>2, <1>3, <1>4, <1>5, <1>6, <1>7
        DEF Next, Start, StartProcess, generateClientAndServerCerts, StartEtcd, EtcdReady,
            CreateKubeAPIServerConfig, StartFails, Terminate, CloseEtcd, Drained, Crash,
            InstallCrd, InstallFails, StartKubeControllers, CreateControllerContext,
            StartController, StartInformers, KubeFatal, CacheSynced,
            handleAPIServiceChange, stored, registration, vars

-------------------------------------------------------------------------------
(* The results.                                                            *)

\* The invariant holds of every start.
LEMMA StartInvariant == Spec => []StartInv
<1>1. Init => StartInv
  <2> SUFFICES ASSUME Init PROVE StartInv
    OBVIOUS
  <2>1. TypeOK
    <3>1. installer \in [pc : {"off", "walking", "returned"}, next : 1..Len(Manifests)]
      BY ManifestCrds DEF Init
    <3>2. kube \in [pc : {"off", "context", "starting", "running"},
                    todo : SUBSET KubeControllers]
      BY DEF Init
    <3>3. written \in 0..Len(SecretFiles) /\ faults \in 0..MaxFaults /\ stops \in 0..MaxStops
      BY Files, ServerAssumption DEF Init
    <3>4. {synced, registers} \subseteq BOOLEAN
      BY DEF Init
    <3>5. secrets \in [Range(SecretFiles) -> {"none", "earlier", "own"}]
      BY DEF Init
    <3> QED BY <3>1, <3>2, <3>3, <3>4, <3>5 DEF TypeOK, Init
  <2>2. SecretsInOrder
    BY DEF Init, SecretsInOrder
  <2>3. WalkedInstalled /\ InstalledInOrder /\ SeenAvailable
    BY DEF Init, WalkedInstalled, InstalledInOrder, SeenAvailable
  <2>4. ServedWanted
    BY DEF Init, ServedWanted, Apis
  <2> QED BY <2>1, <2>2, <2>3, <2>4 DEF StartInv
<1>2. StartInv /\ [Next]_vars => StartInv'
  BY NextType, NextSecrets, NextInstalled, NextSeen, NextServed DEF StartInv
<1> QED BY <1>1, <1>2, PTL DEF Spec

\* The state of the server stays well typed through every failure and restart.
THEOREM ServerTyped == Spec => []TypeOK
<1>1. StartInv => TypeOK
  BY DEF StartInv
<1> QED BY <1>1, StartInvariant, PTL

\* etcd is never up with a key, a certificate or a CA that an earlier process made,
\* wherever that process ended while it wrote them.
THEOREM CertificatesTogether == Spec => []SecretsMatch
<1>1. StartInv => SecretsMatch
  <2> SUFFICES ASSUME StartInv, etcd, NEW f \in DOMAIN secrets PROVE secrets[f] = "own"
    BY DEF SecretsMatch
  <2>1. f \in Range(SecretFiles) /\ written = 6
    BY Files DEF StartInv, TypeOK, SecretsInOrder
  <2> QED BY <2>1, Files DEF StartInv, SecretsInOrder
<1> QED BY <1>1, StartInvariant, PTL

\* The installed CRDs are always the first ones of the manifests.
THEOREM CrdsInOrder == Spec => []InstalledInOrder
<1>1. StartInv => InstalledInOrder
  BY DEF StartInv
<1> QED BY <1>1, StartInvariant, PTL

\* A server that reports itself healthy has seen every built-in API service available
\* at least once, and the auto-registration, which goes on creating and deleting
\* services, has not withdrawn one of them (makeAPIServiceAvailableHealthCheck).
THEOREM HealthChecked == Spec => []HealthyMeansAvailable
<1>1. StartInv => HealthyMeansAvailable
  BY DEF StartInv, SeenAvailable, HealthyMeansAvailable, Healthy
<1> QED BY <1>1, StartInvariant, PTL

\* No step, the end of a process included, withdraws the API service of a CRD that
\* stays installed.
THEOREM ServicesKept == Spec => CrdServicesKept
<1>1. StartInv /\ [Next]_vars
        => [\A c \in crds \cap crds' : apis[c] # "missing" => apis'[c] # "missing"]_vars
  <2> SUFFICES ASSUME StartInv, [Next]_vars, NEW c \in crds \cap crds', apis[c] # "missing"
               PROVE  apis'[c] # "missing"
    OBVIOUS
  <2>a. /\ apis \in [Apis -> {"missing", "registered", "available"}]
        /\ c \in Crds /\ c \in Apis
    BY DEF StartInv, TypeOK, Apis
  <2>1. CASE Exit
    BY <2>1 DEF Exit
  <2>2. ASSUME NEW a \in Apis, AutoRegister(a) PROVE apis'[c] # "missing"
    <3>1. c \in wanted
      BY <2>2, <2>a DEF AutoRegister, StartInv, ServedWanted
    <3> QED BY <2>2, <2>a, <3>1 DEF AutoRegister
  <2>3. ASSUME NEW a \in Apis, MarkAvailable(a) PROVE apis'[c] # "missing"
    BY <2>3, <2>a DEF MarkAvailable
  <2>4. CASE apis' = apis
    BY <2>4
  <2> QED BY <2>1, <2>2, <2>3, <2>4
          DEF Next, Start, StartProcess, generateClientAndServerCerts, StartEtcd,
              EtcdReady, CreateKubeAPIServerConfig, CreateServerChain, StartFails,
              Terminate, CloseEtcd, Drained, Crash, InstallCrd, InstallFails,
              StartKubeControllers, CreateControllerContext, StartController,
              StartInformers, KubeFatal, CrdInitialSync, RunAutoRegistration,
              CacheSynced, CrdAdded, handleAPIServiceChange, stored, vars
<1> QED BY <1>1, StartInvariant, PTL DEF Spec, CrdServicesKept

===============================================================================
