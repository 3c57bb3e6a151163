--------------------------- MODULE ServerOptionsProofs ---------------------------
(***************************************************************************)
(* Theorems about ServerOptions: for every set of values of the flags and  *)
(* command lines of any length, what the start makes of the options fits   *)
(* together.                                                               *)
(***************************************************************************)
EXTENDS ServerOptions, FiniteSetTheorems, WellFoundedInduction, TLAPS

OptionNames ==
    {"anonymous", "clientCA", "oidcIssuer", "oidcClient", "keyFiles", "issuers",
     "audiences", "maxExpiration", "jwksURI", "modes", "policyFile", "webhookFile",
     "embedded", "peerPort", "clientPort", "tlsKey", "certDir", "watchCache",
     "cacheSizes", "fairness", "inFlight", "servingNames", "primary", "secondary",
     "generator", "tokenMax", "storage", "signingKey", "clientKey", "ranges"}

\* The options as a function: p is one, and agrees with o but for the options in C.
IsOptions(o) == o = [f \in OptionNames |-> o[f]]
Changes(o, p, C) == IsOptions(p) /\ \A f \in OptionNames \ C : p[f] = o[f]

-------------------------------------------------------------------------------
(* What each step of the start does to the options.                        *)

\* The defaults of NewServerRunOptions have every option, and these values.
LEMMA DefaultOptions ==
    /\ DOMAIN Defaults = OptionNames
    /\ IsOptions(Defaults)
    /\ Defaults.keyFiles = <<>> /\ Defaults.issuers = <<>> /\ Defaults.audiences = <<>>
    /\ Defaults.modes = <<"AlwaysAllow">> /\ Defaults.ranges = <<>>
    /\ Defaults.anonymous = TRUE /\ Defaults.certDir = TRUE /\ Defaults.watchCache = TRUE
    /\ Defaults.cacheSizes = <<>> /\ Defaults.servingNames = "given"
    /\ Defaults.generator = None /\ Defaults.tokenMax = 0
<1> DEFINE A == AuthenticationDefaults
           B == AuthorizationDefaults
           C == EmbeddedEtcdDefaults
           D == SecureServingDefaults
           E == LibraryDefaults
           F == Later
           G == [signingKey |-> None, clientKey |-> None, ranges |-> <<>>]
           AB == Overridden(A, B)
           CD == Overridden(C, D)
           EF == Overridden(E, F)
           ABCD == Overridden(AB, CD)
           EFG == Overridden(EF, G)
<1>a. /\ DOMAIN A = {"anonymous", "clientCA", "oidcIssuer", "oidcClient", "keyFiles",
                     "issuers", "audiences", "maxExpiration", "jwksURI"}
      /\ A.keyFiles = <<>> /\ A.issuers = <<>> /\ A.audiences = <<>> /\ A.anonymous = TRUE
  BY DEF AuthenticationDefaults
<1>b. DOMAIN B = {"modes", "policyFile", "webhookFile"} /\ B.modes = <<"AlwaysAllow">>
  BY DEF AuthorizationDefaults
<1>c. DOMAIN C = {"embedded", "peerPort", "clientPort"}
  BY DEF EmbeddedEtcdDefaults
<1>d. DOMAIN D = {"tlsKey", "certDir"} /\ D.certDir = TRUE
  BY DEF SecureServingDefaults
<1>e. /\ DOMAIN E = {"watchCache", "cacheSizes", "fairness", "inFlight"}
      /\ E.watchCache = TRUE /\ E.cacheSizes = <<>>
  BY DEF LibraryDefaults
<1>f. /\ DOMAIN F = {"servingNames", "primary", "secondary", "generator", "tokenMax", "storage"}
      /\ F.servingNames = "given" /\ F.generator = None /\ F.tokenMax = 0
  BY DEF Later
<1>g. DOMAIN G = {"signingKey", "clientKey", "ranges"} /\ G.ranges = <<>>
  OBVIOUS
<1>0. Defaults = Overridden(ABCD, EFG)
  BY DEF Defaults
<1> HIDE DEF A, B, C, D, E, F, G
<1>1. /\ DOMAIN AB = {"anonymous", "clientCA", "oidcIssuer", "oidcClient", "keyFiles",
                     "issuers", "audiences", "maxExpiration", "jwksURI",
                     "modes", "policyFile", "webhookFile"}
      /\ AB.keyFiles = <<>> /\ AB.issuers = <<>> /\ AB.audiences = <<>> /\ AB.anonymous = TRUE
      /\ AB.modes = <<"AlwaysAllow">>
  BY <1>a, <1>b DEF Overridden
<1>2. DOMAIN CD = {"embedded", "peerPort", "clientPort", "tlsKey", "certDir"} /\ CD.certDir = TRUE
  BY <1>c, <1>d DEF Overridden
<1>3. /\ DOMAIN EF = {"watchCache", "cacheSizes", "fairness", "inFlight",
                      "servingNames", "primary", "secondary", "generator", "tokenMax", "storage"}
      /\ EF.watchCache = TRUE /\ EF.cacheSizes = <<>>
      /\ EF.servingNames = "given" /\ EF.generator = None /\ EF.tokenMax = 0
  BY <1>e, <1>f DEF Overridden
<1> HIDE DEF AB, CD, EF
<1>4. /\ DOMAIN ABCD = {"anonymous", "clientCA", "oidcIssuer", "oidcClient", "keyFiles",
                     "issuers", "audiences", "maxExpiration", "jwksURI",
                     "modes", "policyFile", "webhookFile",
                     "embedded", "peerPort", "clientPort", "tlsKey", "certDir"}
      /\ ABCD.keyFiles = <<>> /\ ABCD.issuers = <<>> /\ ABCD.audiences = <<>>
      /\ ABCD.anonymous = TRUE /\ ABCD.modes = <<"AlwaysAllow">> /\ ABCD.certDir = TRUE
  BY <1>1, <1>2 DEF Overridden
<1>5. /\ DOMAIN EFG = {"watchCache", "cacheSizes", "fairness", "inFlight",
                      "servingNames", "primary", "secondary", "generator", "tokenMax", "storage",
                      "signingKey", "clientKey", "ranges"}
      /\ EFG.watchCache = TRUE /\ EFG.cacheSizes = <<>> /\ EFG.ranges = <<>>
      /\ EFG.servingNames = "given" /\ EFG.generator = None /\ EFG.tokenMax = 0
  BY <1>3, <1>g DEF Overridden
<1> HIDE DEF ABCD, EFG
<1>6. DOMAIN Defaults = OptionNames
  BY <1>0, <1>4, <1>5 DEF Overridden, OptionNames
<1>7. IsOptions(Defaults)
  <2>1. DOMAIN ABCD \cup DOMAIN EFG = OptionNames
    BY <1>4, <1>5 DEF OptionNames
  <2> QED BY <1>0, <2>1 DEF Overridden, IsOptions
<1>8. /\ Defaults.keyFiles = <<>> /\ Defaults.issuers = <<>> /\ Defaults.audiences = <<>>
      /\ Defaults.modes = <<"AlwaysAllow">>
      /\ Defaults.anonymous = TRUE /\ Defaults.certDir = TRUE
  BY <1>0, <1>4, <1>5 DEF Overridden
<1>9. /\ Defaults.watchCache = TRUE /\ Defaults.ranges = <<>>
      /\ Defaults.cacheSizes = <<>> /\ Defaults.servingNames = "given"
      /\ Defaults.generator = None /\ Defaults.tokenMax = 0
  BY <1>0, <1>4, <1>5 DEF Overridden
<1> QED BY <1>6, <1>7, <1>8, <1>9

\* Options stay options when some of them are set.
LEMMA SetOption ==
    ASSUME NEW o, IsOptions(o), NEW f \in OptionNames, NEW v
    PROVE  Changes(o, [o EXCEPT ![f] = v], {f}) /\ [o EXCEPT ![f] = v][f] = v
BY DEF IsOptions, Changes

\* getServiceIPAndRanges sets the two service ranges only.
LEMMA RangesEffect ==
    ASSUME NEW o, IsOptions(o)
    PROVE  Changes(o, getServiceIPAndRanges(o), {"primary", "secondary"})
BY DEF IsOptions, Changes, getServiceIPAndRanges, OptionNames

\* MaybeDefaultWithSelfSignedCerts leaves a key file alone, and otherwise names the
\* one it makes if it has a directory for it.
LEMMA CertsEffect ==
    ASSUME NEW o, IsOptions(o), NEW names
    PROVE  LET p == MaybeDefaultWithSelfSignedCerts(o, names)
           IN  /\ Changes(o, p, {"servingNames", "tlsKey"})
               /\ o.tlsKey # None => p = o
               /\ p.servingNames \in {o.servingNames, names}
               /\ o.certDir => p.tlsKey # None
BY DEF IsOptions, Changes, MaybeDefaultWithSelfSignedCerts, OptionNames, None

\* ApplyAuthorization leaves no anonymous requests where everything is allowed.
LEMMA AuthorizationEffect ==
    ASSUME NEW o, IsOptions(o)
    PROVE  LET p == ApplyAuthorization(o)
           IN  /\ Changes(o, p, {"anonymous"})
               /\ p.anonymous \in BOOLEAN
               /\ ~(p.anonymous /\ "AlwaysAllow" \in Range(p.modes))
<1> DEFINE v == o.anonymous /\ "AlwaysAllow" \notin Range(o.modes)
<1>1. ApplyAuthorization(o) = [o EXCEPT !.anonymous = v]
  BY DEF ApplyAuthorization
<1>2. v \in BOOLEAN
  OBVIOUS
<1>3. "anonymous" \in OptionNames /\ "modes" \in OptionNames \ {"anonymous"}
  BY DEF OptionNames
<1>4. ~(v /\ "AlwaysAllow" \in Range(o.modes))
  OBVIOUS
<1> HIDE DEF v
<1>5. Changes(o, [o EXCEPT !.anonymous = v], {"anonymous"}) /\ [o EXCEPT !.anonymous = v].anonymous = v
  BY <1>3, SetOption
<1>6. [o EXCEPT !.anonymous = v].modes = o.modes
  BY <1>3, <1>5 DEF Changes
<1> QED BY <1>1, <1>2, <1>4, <1>5, <1>6

\* The key files that DefaultKeyFiles adds are added only without a signing key.
LEMMA KeyFilesEffect ==
    ASSUME NEW o, IsOptions(o)
    PROVE  LET p == DefaultKeyFiles(o)
           IN  /\ Changes(o, p, {"keyFiles"})
               /\ p.keyFiles = o.keyFiles \/ o.signingKey = None
BY DEF IsOptions, Changes, DefaultKeyFiles, OptionNames

\* JWTTokenGenerator signs for the first issuer, with a lifetime within its bounds.
LEMMA GeneratorEffect ==
    ASSUME NEW o, IsOptions(o), ~GeneratorFails(o), o.generator = None, o.tokenMax = 0
    PROVE  LET p == JWTTokenGenerator(o)
           IN  /\ Changes(o, p, {"generator", "tokenMax"})
               /\ p.generator # None => o.issuers # <<>> /\ p.generator = o.issuers[1]
               /\ p.tokenMax \in {0} \cup LowBound..UpBound
BY DEF IsOptions, Changes, JWTTokenGenerator, GeneratorFails, Issues, HasIssuer, OptionNames

-------------------------------------------------------------------------------
(* The sizes of the watch caches.                                          *)

\* A set of indexes that is not empty has a last one.
LEMMA LastIndex ==
    ASSUME NEW n \in Nat, NEW T \in SUBSET (1..n), T # {}
    PROVE  \E i \in T : \A j \in T : j <= i
<1> DEFINE U == {n - i : i \in T}
           R == OpToRel(<, Nat)
<1>1. U \subseteq Nat /\ U # {}
  <2>1. \A i \in T : i \in Int /\ n - i \in Nat
    OBVIOUS
  <2> QED BY <2>1
<1>2. \A x, y \in Nat : <<y, x>> \in R <=> y < x
  BY DEF OpToRel
<1>3. IsWellFoundedOn(R, Nat)
  BY NatLessThanWellFounded
<1> HIDE DEF R, U
<1>4. PICK x \in U : \A y \in U : ~(<<y, x>> \in R)
  BY <1>1, <1>3, WFMin
<1>5. \A y \in U : x <= y
  <2>1. x \in Nat /\ \A y \in U : y \in Nat
    BY <1>1
  <2>2. \A y \in U : ~(y < x)
    BY <1>2, <1>4, <2>1
  <2> QED BY <2>1, <2>2
<1>6. PICK i \in T : x = n - i
  BY DEF U
<1>7. \A j \in T : n - i <= n - j
  BY <1>5, <1>6 DEF U
<1>8. \A j \in T : j <= i
  BY <1>7
<1> QED BY <1>8

\* ParseWatchCacheSizes reads a natural number for every resource that is named.
LEMMA ParsedSizes ==
    ASSUME NEW sizes \in CacheSizes, ~ParseFails(sizes)
    PROVE  LET p == ParseWatchCacheSizes(sizes)
           IN  IsFiniteSet(DOMAIN p) /\ \A r \in DOMAIN p : p[r] \in Nat
<1> DEFINE N == {sizes[i].resource : i \in DOMAIN sizes}
           f == [i \in DOMAIN sizes |-> sizes[i].resource]
           p == ParseWatchCacheSizes(sizes)
           Last(r, i) == /\ sizes[i].resource = r
                         /\ \A j \in i + 1..Len(sizes) : sizes[j].resource # r
<1>1. DOMAIN sizes = 1..Len(sizes) /\ Len(sizes) \in Nat
  BY DEF CacheSizes
<1>2. \A i \in DOMAIN sizes : sizes[i].size \in Nat
  <2>1. \A i \in DOMAIN sizes : sizes[i].size \in Int
    <3> DEFINE Entry == [resource : STRING, size : Int, wellFormed : BOOLEAN]
    <3>1. sizes \in Seq(Entry)
      BY DEF CacheSizes
    <3>2. \A e \in Entry : e.size \in Int
      OBVIOUS
    <3> HIDE DEF Entry
    <3>3. \A i \in DOMAIN sizes : sizes[i] \in Entry
      BY <1>1, <3>1
    <3> QED BY <3>2, <3>3
  <2>2. \A i \in DOMAIN sizes : sizes[i].size >= 0
    BY DEF ParseFails
  <2> QED BY <2>1, <2>2
<1>3. IsFiniteSet(N)
  <2>1. f \in Surjection(DOMAIN sizes, N)
    BY DEF Surjection
  <2>2. IsFiniteSet(DOMAIN sizes)
    BY <1>1, FS_Interval
  <2> HIDE DEF f, N
  <2> QED BY <2>1, <2>2, FS_Surjection
<1>4. DOMAIN p = N
  BY DEF ParseWatchCacheSizes
<1>5. ASSUME NEW r \in N
      PROVE  p[r] \in Nat
  <2>1. \E i \in DOMAIN sizes : Last(r, i)
    <3> DEFINE T == {i \in 1..Len(sizes) : sizes[i].resource = r}
    <3>1. T \in SUBSET (1..Len(sizes)) /\ T # {}
      BY <1>1
    <3> HIDE DEF T
    <3>2. PICK i \in T : \A j \in T : j <= i
      BY <1>1, <3>1, LastIndex
    <3>3. i \in 1..Len(sizes) /\ sizes[i].resource = r
      BY DEF T
    <3>4. ASSUME NEW j \in i + 1..Len(sizes), sizes[j].resource = r
          PROVE  FALSE
      <4>1. j \in 1..Len(sizes) /\ ~(j <= i)
        BY <1>1, <3>3
      <4>2. j \in T
        BY <3>4, <4>1 DEF T
      <4> QED BY <3>2, <4>1, <4>2
    <3> QED BY <1>1, <3>3, <3>4
  <2>2. p[r] = sizes[CHOOSE i \in DOMAIN sizes : Last(r, i)].size
    BY DEF ParseWatchCacheSizes
  <2> HIDE DEF Last
  <2>3. (CHOOSE i \in DOMAIN sizes : Last(r, i)) \in DOMAIN sizes
    BY <2>1
  <2> QED BY <1>2, <2>2, <2>3
<1> QED BY <1>3, <1>4, <1>5

\* WriteWatchCacheSizes writes an entry with a natural number for each resource.
LEMMA WrittenSizes ==
    ASSUME NEW sizes, IsFiniteSet(DOMAIN sizes), \A r \in DOMAIN sizes : sizes[r] \in Nat
    PROVE  LET w == WriteWatchCacheSizes(sizes)
           IN  \A i \in DOMAIN w : w[i].size \in Nat
<1> DEFINE F == [1..Cardinality(DOMAIN sizes) -> DOMAIN sizes]
           order == CHOOSE f \in F : IsInjective(f)
<1>1. \E f \in F : IsInjective(f)
  BY FS_CardinalityType DEF ExistsBijection, Bijection, Injection
<1>2. order \in F
  <2> HIDE DEF F
  <2> QED BY <1>1
<1>3. WriteWatchCacheSizes(sizes) =
        [i \in DOMAIN order |->
            [resource |-> order[i], size |-> sizes[order[i]], wellFormed |-> TRUE]]
  BY DEF WriteWatchCacheSizes
<1> HIDE DEF order
<1>4. \A i \in DOMAIN order : order[i] \in DOMAIN sizes
  BY <1>2
<1> QED BY <1>3, <1>4

\* After DefaultCacheSizes the sizes are natural numbers, if there is a cache.
LEMMA CacheEffect ==
    ASSUME NEW o, IsOptions(o), o.cacheSizes \in CacheSizes,
           ~(o.watchCache /\ ParseFails(o.cacheSizes))
    PROVE  LET p == DefaultCacheSizes(o)
           IN  /\ Changes(o, p, {"cacheSizes"})
               /\ p.watchCache => \A i \in DOMAIN p.cacheSizes : p.cacheSizes[i].size \in Nat
<1>1. CASE ~o.watchCache
  <2>1. DefaultCacheSizes(o) = o
    BY <1>1 DEF DefaultCacheSizes
  <2> QED BY <1>1, <2>1 DEF Changes
<1>2. CASE o.watchCache
  <2> DEFINE q == ParseWatchCacheSizes(o.cacheSizes)
             g == Overridden(DefaultSizes, q)
             w == WriteWatchCacheSizes(g)
  <2>1. IsFiniteSet(DOMAIN q) /\ \A r \in DOMAIN q : q[r] \in Nat
    BY <1>2, ParsedSizes
  <2>2. DefaultCacheSizes(o) = [o EXCEPT !.cacheSizes = w]
    BY <1>2 DEF DefaultCacheSizes
  <2>3. "cacheSizes" \in OptionNames /\ "watchCache" \in OptionNames \ {"cacheSizes"}
    BY DEF OptionNames
  <2> HIDE DEF q
  <2>4. DOMAIN g = DOMAIN DefaultSizes \cup DOMAIN q
    BY DEF Overridden
  <2>5. \A r \in DOMAIN g : g[r] \in Nat
    BY <2>1, OptionsAssumption DEF Overridden
  <2> HIDE DEF g
  <2>6. IsFiniteSet(DOMAIN g)
    <3>1. IsFiniteSet(DOMAIN DefaultSizes)
      BY OptionsAssumption
    <3>2. IsFiniteSet(DOMAIN DefaultSizes \cup DOMAIN q)
      BY <2>1, <3>1, FS_Union
    <3> QED BY <2>4, <3>2
  <2>7. \A i \in DOMAIN w : w[i].size \in Nat
    BY <2>5, <2>6, WrittenSizes
  <2> HIDE DEF w
  <2>8. /\ Changes(o, [o EXCEPT !.cacheSizes = w], {"cacheSizes"})
        /\ [o EXCEPT !.cacheSizes = w].cacheSizes = w
    BY <2>3, SetOption
  <2> QED BY <2>2, <2>7, <2>8
<1> QED BY <1>1, <1>2

-------------------------------------------------------------------------------
(* The options after Complete.                                             *)

\* What is true of the options once they are completed: nobody anonymous is allowed
\* everything; a certificate that has a directory has a file, which Run will not
\* replace; and the sizes of the watch caches are natural numbers.
CompletedOptions(o) ==
    /\ ~(o.anonymous /\ "AlwaysAllow" \in Range(o.modes))
    /\ o.certDir => o.tlsKey # None /\ o.servingNames # "localhost"
    /\ o.watchCache => \A i \in DOMAIN o.cacheSizes : o.cacheSizes[i].size \in Nat

\* The tokens are signed for the first issuer, with a lifetime within the bounds.
SoundGenerator(o) ==
    /\ o.generator # None => o.issuers # <<>> /\ o.generator = o.issuers[1]
    /\ o.tokenMax \in {0} \cup LowBound..UpBound

Untouched ==
    OptionNames \ {"primary", "secondary", "servingNames", "tlsKey", "anonymous",
                   "keyFiles", "generator", "tokenMax", "cacheSizes"}

\* Complete: its steps together.
LEMMA CompletedEffect ==
    ASSUME NEW o, IsOptions(o), ~CompleteFails(o), o.generator = None, o.tokenMax = 0,
           o.servingNames = "given", o.cacheSizes \in CacheSizes
    PROVE  LET p == Completed(o)
           IN  /\ IsOptions(p)
               /\ \A f \in Untouched : p[f] = o[f]
               /\ CompletedOptions(p)
               /\ SoundGenerator(p)
               /\ p.servingNames \in {"given", "service"}
               /\ p.keyFiles = o.keyFiles \/ p.signingKey = None
<1> DEFINE o1 == getServiceIPAndRanges(o)
           o2 == MaybeDefaultWithSelfSignedCerts(o1, "service")
           o3 == ApplyAuthorization(o2)
           o4 == DefaultKeyFiles(o3)
           o5 == JWTTokenGenerator(o4)
           o6 == DefaultCacheSizes(o5)
<1>0. Completed(o) = o6
  BY DEF Completed
<1>1. Changes(o, o1, {"primary", "secondary"})
  BY RangesEffect
<1> HIDE DEF o1
<1>2. /\ Changes(o1, o2, {"servingNames", "tlsKey"})
      /\ o2.servingNames \in {o1.servingNames, "service"}
      /\ o1.certDir => o2.tlsKey # None
  BY <1>1, CertsEffect DEF Changes
<1> HIDE DEF o2
<1>3. /\ Changes(o2, o3, {"anonymous"})
      /\ ~(o3.anonymous /\ "AlwaysAllow" \in Range(o3.modes))
  BY <1>2, AuthorizationEffect DEF Changes
<1> HIDE DEF o3
<1>4. /\ Changes(o3, o4, {"keyFiles"})
      /\ o4.keyFiles = o3.keyFiles \/ o3.signingKey = None
  BY <1>3, KeyFilesEffect DEF Changes
<1> HIDE DEF o4
<1>a. /\ o4.generator = None /\ o4.tokenMax = 0
      /\ o4.signingKey = o.signingKey /\ o4.issuers = o.issuers
      /\ o4.maxExpiration = o.maxExpiration
  BY <1>1, <1>2, <1>3, <1>4 DEF Changes, OptionNames
<1>b. ~GeneratorFails(o4)
  BY <1>a DEF CompleteFails, GeneratorFails, Issues, HasIssuer
<1>5. /\ Changes(o4, o5, {"generator", "tokenMax"})
      /\ o5.generator # None => o4.issuers # <<>> /\ o5.generator = o4.issuers[1]
      /\ o5.tokenMax \in {0} \cup LowBound..UpBound
  <2>1. IsOptions(o4)
    BY <1>4 DEF Changes
  <2> QED BY <2>1, <1>a, <1>b, GeneratorEffect
<1> HIDE DEF o5
<1>c. o5.cacheSizes = o.cacheSizes /\ o5.watchCache = o.watchCache
  BY <1>1, <1>2, <1>3, <1>4, <1>5 DEF Changes, OptionNames
<1>6. /\ Changes(o5, o6, {"cacheSizes"})
      /\ o6.watchCache => \A i \in DOMAIN o6.cacheSizes : o6.cacheSizes[i].size \in Nat
  <2>1. IsOptions(o5)
    BY <1>5 DEF Changes
  <2>2. o5.cacheSizes \in CacheSizes /\ ~(o5.watchCache /\ ParseFails(o5.cacheSizes))
    BY <1>c DEF CompleteFails
  <2> QED BY <2>1, <2>2, CacheEffect
<1> HIDE DEF o6
<1>7. IsOptions(o6)
  BY <1>6 DEF Changes
<1>8. \A f \in Untouched : o6[f] = o[f]
  BY <1>1, <1>2, <1>3, <1>4, <1>5, <1>6 DEF Changes, Untouched, OptionNames
<1>9. /\ o6.anonymous = o3.anonymous /\ o6.modes = o3.modes
      /\ o6.certDir = o1.certDir /\ o6.tlsKey = o2.tlsKey
      /\ o6.servingNames = o2.servingNames /\ o1.servingNames = "given"
      /\ o6.keyFiles = o4.keyFiles /\ o3.keyFiles = o.keyFiles
      /\ o6.signingKey = o3.signingKey
      /\ o6.generator = o5.generator /\ o6.tokenMax = o5.tokenMax
      /\ o6.issuers = o4.issuers
  BY <1>1, <1>2, <1>3, <1>4, <1>5, <1>6 DEF Changes, OptionNames
<1>10. o6.servingNames \in {"given", "service"}
  BY <1>2, <1>9
<1>11. CompletedOptions(o6)
  <2>1. ~(o6.anonymous /\ "AlwaysAllow" \in Range(o6.modes))
    BY <1>3, <1>9
  <2>2. o6.certDir => o6.tlsKey # None /\ o6.servingNames # "localhost"
    BY <1>2, <1>9, <1>10
  <2> QED BY <2>1, <2>2, <1>6 DEF CompletedOptions
<1>12. SoundGenerator(o6)
  BY <1>5, <1>9 DEF SoundGenerator
<1>13. o6.keyFiles = o.keyFiles \/ o6.signingKey = None
  BY <1>4, <1>9
<1> QED BY <1>0, <1>7, <1>8, <1>10, <1>11, <1>12, <1>13

\* Run: what Complete made of the options stays, the certificate included.
LEMMA RunEffect ==
    ASSUME NEW o, IsOptions(o), CompletedOptions(o), NEW store
    PROVE  LET p == [MaybeDefaultWithSelfSignedCerts(o, "localhost") EXCEPT !.storage = store]
           IN  /\ Changes(o, p, {"servingNames", "tlsKey", "storage"})
               /\ CompletedOptions(p)
               /\ p.servingNames \in {o.servingNames, "localhost"}
<1> DEFINE q == MaybeDefaultWithSelfSignedCerts(o, "localhost")
           p == [q EXCEPT !.storage = store]
<1>1. /\ Changes(o, q, {"servingNames", "tlsKey"})
      /\ o.tlsKey # None => q = o
      /\ q.servingNames \in {o.servingNames, "localhost"}
  BY CertsEffect
<1> HIDE DEF q
<1>2. Changes(q, p, {"storage"})
  <2>1. IsOptions(q)
    BY <1>1 DEF Changes
  <2>2. "storage" \in OptionNames
    BY DEF OptionNames
  <2> QED BY <2>1, <2>2, SetOption
<1> HIDE DEF p
<1>3. Changes(o, p, {"servingNames", "tlsKey", "storage"})
  BY <1>1, <1>2 DEF Changes
<1>4. /\ p.servingNames = q.servingNames /\ p.tlsKey = q.tlsKey
      /\ p.anonymous = o.anonymous /\ p.modes = o.modes /\ p.certDir = o.certDir
      /\ p.watchCache = o.watchCache /\ p.cacheSizes = o.cacheSizes
  BY <1>2, <1>3 DEF Changes, OptionNames
<1>5. CompletedOptions(p)
  <2>1. o.certDir => q = o
    BY <1>1 DEF CompletedOptions
  <2>2. p.certDir => p.tlsKey # None /\ p.servingNames # "localhost"
    BY <1>4, <2>1 DEF CompletedOptions
  <2> QED BY <1>4, <2>2 DEF CompletedOptions
<1> QED BY <1>1, <1>3, <1>4, <1>5 DEF p, q

-------------------------------------------------------------------------------
(* The inductive invariant.                                                *)

\* While the flags are parsed the options that have no flag have their defaults.
GivenOptions(o) ==
    /\ o.generator = None
    /\ o.tokenMax = 0
    /\ o.servingNames = "given"
    /\ o.cacheSizes \in CacheSizes

ConfigOf(o) ==
    [serves |-> TRUE, authenticator |-> ToAuthenticationConfig(o),
     audiences |-> APIAudiences(o), modes |-> Range(o.modes),
     rbacHook |-> "RBAC" \in Range(o.modes),
     issuerURL |-> o.issuers[1], publicKeys |-> Range(o.keyFiles)]

Serves == stage \in {"serving", "controllers"} \/ cause = "signers"

\* The options have their types, and the key files are those of the flags, or
\* there are none, or there is no signing key.
SoundOptions ==
    /\ IsOptions(s)
    /\ s.issuers \in Seq(STRING) /\ s.audiences \in Seq(STRING)
    /\ SoundGenerator(s)
    /\ s.servingNames \in {"given", "service", "localhost"}
    /\ "keyFiles" \in given \/ s.keyFiles = <<>> \/ s.signingKey = None

Progress ==
    /\ given \subseteq Flags
    /\ stage \in Stages
    /\ cause \in Causes
    /\ (cause # "none") <=> (stage = "ended")

OptionsInv ==
    /\ Progress
    /\ SoundOptions
    /\ stage = "flags" => GivenOptions(s) /\ ("keyFiles" \in given \/ s.keyFiles = <<>>)
    /\ stage # "flags" /\ cause # "options" => CompletedOptions(s)
    /\ config = IF Serves THEN ConfigOf(s) ELSE NoConfig
    /\ signers = NoSigners \/ (stage = "controllers" /\ signers = SigningFiles(s))
    /\ cause = "panic" => s.issuers = <<>>
    /\ cause = "authorizer" =>
          \E b \in BOOLEAN : AuthorizerFails(ToAuthorizationConfig(s), b)

\* The defaults of NewServerRunOptions satisfy the invariant.
LEMMA InitOptions == Init => OptionsInv
<1> SUFFICES ASSUME Init PROVE OptionsInv
  OBVIOUS
<1>1. Progress /\ ~Serves
  BY DEF Init, Progress, Serves, Stages, Causes
<1>2. SoundOptions
  BY DefaultOptions DEF Init, SoundOptions, SoundGenerator
<1>3. GivenOptions(s) /\ s.keyFiles = <<>>
  BY DefaultOptions DEF Init, GivenOptions, CacheSizes
<1> QED BY <1>1, <1>2, <1>3 DEF Init, OptionsInv

\* No flag sets an option that the code fills in later (AddFlags).
LEMMA FlagsOnly ==
    Flags \subseteq OptionNames \ {"servingNames", "primary", "secondary", "generator",
                                   "tokenMax", "storage"}
<1>1. AddFlags \subseteq OptionNames \ {"servingNames", "primary", "secondary", "generator",
                                        "tokenMax", "storage"}
  BY DEF AddFlags, AuthenticationFlags, AuthorizationFlags, EmbeddedEtcdFlags,
         AuthenticationDefaults, AuthorizationDefaults, EmbeddedEtcdDefaults,
         SecureServingDefaults, LibraryDefaults, OptionNames
<1> QED BY <1>1, OptionsAssumption

\* Every step keeps the invariant.
LEMMA NextOptions == OptionsInv /\ [Next]_vars => OptionsInv'
<1> SUFFICES ASSUME OptionsInv, [Next]_vars PROVE OptionsInv'
  OBVIOUS
<1> USE DEF OptionsInv
<1>1. ASSUME NEW f \in Flags, NEW v \in Values[f], ParseFlag(f, v)
      PROVE  OptionsInv'
  <2>1. /\ s' = [s EXCEPT ![f] = v] /\ given' = given \cup {f}
        /\ stage = "flags" /\ stage' = stage /\ cause' = cause
        /\ config' = config /\ signers' = signers
    BY <1>1 DEF ParseFlag
  <2>2. f \in OptionNames \ {"servingNames", "primary", "secondary", "generator",
                             "tokenMax", "storage"}
    BY FlagsOnly
  <2>3. Changes(s, s', {f}) /\ s'[f] = v
    BY <2>1, <2>2, SetOption DEF SoundOptions
  <2>4. /\ s'.servingNames = s.servingNames /\ s'.generator = s.generator
        /\ s'.tokenMax = s.tokenMax
    BY <2>2, <2>3 DEF Changes, OptionNames
  <2>5. /\ f # "issuers" => s'.issuers = s.issuers
        /\ f # "audiences" => s'.audiences = s.audiences
        /\ f # "keyFiles" => s'.keyFiles = s.keyFiles
        /\ f # "cacheSizes" => s'.cacheSizes = s.cacheSizes
    BY <2>3 DEF Changes, OptionNames
  <2>6. s'.issuers \in Seq(STRING) /\ s'.audiences \in Seq(STRING)
    BY <2>3, <2>5, OptionsAssumption DEF ListFlags, SoundOptions
  <2>7. s'.cacheSizes \in CacheSizes
    BY <2>1, <2>3, <2>5, OptionsAssumption DEF GivenOptions
  <2>8. "keyFiles" \in given' \/ s'.keyFiles = <<>>
    BY <2>1, <2>5
  <2>9. GivenOptions(s)'
    BY <2>1, <2>4, <2>7 DEF GivenOptions
  <2>10. SoundGenerator(s)'
    BY <2>9, <2>4 DEF SoundOptions, SoundGenerator, GivenOptions
  <2>11. SoundOptions'
    BY <2>3, <2>4, <2>6, <2>8, <2>10 DEF SoundOptions, Changes
  <2>12. Progress'
    BY <2>1 DEF Progress
  <2>13. ~Serves /\ ~Serves' /\ cause = "none"
    BY <2>1 DEF Serves, Progress
  <2> QED BY <2>1, <2>8, <2>9, <2>11, <2>12, <2>13
<1>2. CASE Complete
  <2>1. /\ s' = Completed(s) /\ stage = "flags" /\ stage' = "completed" /\ given' = given
        /\ cause' = cause /\ config' = config /\ signers' = signers /\ ~CompleteFails(s)
    BY <1>2 DEF Complete
  <2>2. IsOptions(s) /\ GivenOptions(s) /\ cause = "none"
    BY <2>1 DEF SoundOptions, Progress
  <2>3. /\ IsOptions(s') /\ \A f \in Untouched : s'[f] = s[f]
        /\ CompletedOptions(s') /\ SoundGenerator(s')
        /\ s'.servingNames \in {"given", "service"}
        /\ s'.keyFiles = s.keyFiles \/ s'.signingKey = None
    <3>1. s.generator = None /\ s.tokenMax = 0 /\ s.servingNames = "given" /\ s.cacheSizes \in CacheSizes
      BY <2>2 DEF GivenOptions
    <3> QED BY <2>1, <2>2, <3>1, CompletedEffect
  <2>4. s'.issuers = s.issuers /\ s'.audiences = s.audiences
    BY <2>3 DEF Untouched, OptionNames
  <2>5. SoundOptions'
    BY <2>1, <2>3, <2>4 DEF SoundOptions
  <2>6. Progress'
    BY <2>1, <2>2 DEF Progress, Stages
  <2>7. ~Serves /\ ~Serves'
    BY <2>1, <2>2 DEF Serves
  <2>8. CompletedOptions(s)'
    BY <2>3
  <2> QED BY <2>1, <2>2, <2>5, <2>6, <2>7, <2>8
<1>3. CASE CompleteEnds
  <2>1. /\ s' = s /\ stage = "flags" /\ stage' = "ended" /\ given' = given
        /\ cause' = "options" /\ config' = config /\ signers' = signers
    BY <1>3 DEF CompleteEnds, End
  <2>2. SoundOptions'
    BY <2>1 DEF SoundOptions
  <2>3. Progress' /\ ~Serves /\ ~Serves'
    BY <2>1 DEF Progress, Stages, Causes, Serves
  <2> QED BY <2>1, <2>2, <2>3
<1>4. CASE Run
  <2> DEFINE store == IF s.embedded THEN "embedded" ELSE
                        MaybeDefaultWithSelfSignedCerts(s, "localhost").storage
  <2>1. /\ s' = [MaybeDefaultWithSelfSignedCerts(s, "localhost") EXCEPT !.storage = store]
        /\ stage = "completed" /\ stage' = "prepared" /\ given' = given
        /\ cause' = cause /\ config' = config /\ signers' = signers
    BY <1>4 DEF Run
  <2>2. IsOptions(s) /\ CompletedOptions(s) /\ cause = "none"
    BY <2>1 DEF SoundOptions, Progress
  <2> HIDE DEF store
  <2>3. /\ Changes(s, s', {"servingNames", "tlsKey", "storage"})
        /\ CompletedOptions(s')
        /\ s'.servingNames \in {s.servingNames, "localhost"}
    BY <2>1, <2>2, RunEffect
  <2>4. /\ s'.issuers = s.issuers /\ s'.audiences = s.audiences /\ s'.keyFiles = s.keyFiles
        /\ s'.signingKey = s.signingKey /\ s'.generator = s.generator
        /\ s'.tokenMax = s.tokenMax
    BY <2>3 DEF Changes, OptionNames
  <2>5. SoundGenerator(s)'
    BY <2>4 DEF SoundOptions, SoundGenerator
  <2>6. SoundOptions'
    BY <2>1, <2>3, <2>4, <2>5 DEF SoundOptions, Changes
  <2>7. Progress' /\ ~Serves /\ ~Serves'
    BY <2>1, <2>2 DEF Progress, Stages, Serves
  <2>8. CompletedOptions(s)'
    BY <2>3
  <2> QED BY <2>1, <2>2, <2>6, <2>7, <2>8
<1>5. CASE CreateKubeAPIServerConfig
  <2>1. /\ s' = s /\ stage = "prepared" /\ stage' = "serving" /\ given' = given
        /\ cause' = cause /\ signers' = signers /\ config' = ConfigOf(s)
    BY <1>5 DEF CreateKubeAPIServerConfig, ConfigOf
  <2>2. SoundOptions'
    BY <2>1 DEF SoundOptions
  <2>3. Progress' /\ Serves'
    BY <2>1 DEF Progress, Stages, Serves
  <2>4. cause = "none"
    BY <2>1 DEF Progress
  <2> QED BY <2>1, <2>2, <2>3, <2>4
<1>6. CASE ConfigEnds
  <2>1. /\ s' = s /\ stage = "prepared" /\ stage' = "ended" /\ given' = given
        /\ signers' = signers /\ config' = config
        /\ \/ \E b \in BOOLEAN : cause' = buildGenericConfig(s, b) /\ cause' # "none"
           \/ cause' = "panic" /\ s.issuers = <<>>
    BY <1>6 DEF ConfigEnds, End
  <2>2. \A b \in BOOLEAN :
            /\ buildGenericConfig(s, b) \in {"clientCA", "serviceAccountKeys", "authorizer",
                                            "flowControl", "none"}
            /\ buildGenericConfig(s, b) = "authorizer" =>
                  AuthorizerFails(ToAuthorizationConfig(s), b)
    BY DEF buildGenericConfig
  <2>3. SoundOptions'
    BY <2>1 DEF SoundOptions
  <2>4. Progress' /\ ~Serves /\ ~Serves'
    BY <2>1, <2>2 DEF Progress, Stages, Causes, Serves
  <2>5. /\ cause' = "panic" => s.issuers = <<>>
        /\ cause' = "authorizer" =>
              \E b \in BOOLEAN : AuthorizerFails(ToAuthorizationConfig(s), b)
        /\ cause = "none"
    BY <2>1, <2>2 DEF Progress
  <2> QED BY <2>1, <2>3, <2>4, <2>5
<1>7. CASE StartControllers
  <2>1. /\ s' = s /\ stage = "serving" /\ given' = given /\ config' = config
        /\ \/ stage' = "controllers" /\ cause' = cause /\ signers' \in {NoSigners, SigningFiles(s)}
           \/ stage' = "ended" /\ cause' = "signers" /\ signers' = signers
    BY <1>7 DEF StartControllers, End
  <2>2. SoundOptions'
    BY <2>1 DEF SoundOptions
  <2>3. cause = "none"
    BY <2>1 DEF Progress
  <2>4. Progress' /\ Serves /\ Serves'
    BY <2>1, <2>3 DEF Progress, Stages, Causes, Serves
  <2>5. signers = NoSigners
    BY <2>1
  <2> QED BY <2>1, <2>2, <2>3, <2>4, <2>5
<1>8. CASE UNCHANGED vars
  BY <1>8 DEF vars, SoundOptions, Progress, Serves
<1> QED BY <1>1, <1>2, <1>3, <1>4, <1>5, <1>6, <1>7, <1>8 DEF Next

\* The invariant holds in every state.
LEMMA OptionsInvariant == Spec => []OptionsInv
BY InitOptions, NextOptions, PTL DEF Spec

-------------------------------------------------------------------------------
(* The theorems.                                                           *)

\* The options and the configuration always have their types; among them the
\* lifetime of tokens is within its bounds, and every size that the watch caches
\* are given after Complete is a natural number.
THEOREM OptionsTyped == Spec => []TypeOK
<1>1. OptionsInv => TypeOK
  <2> SUFFICES ASSUME OptionsInv PROVE TypeOK
    OBVIOUS
  <2>1. /\ DOMAIN s = DOMAIN Defaults
        /\ s.servingNames \in {"given", "service", "localhost"}
        /\ s.tokenMax \in {0} \cup LowBound..UpBound
    BY DefaultOptions DEF OptionsInv, SoundOptions, IsOptions, SoundGenerator
  <2>2. config.serves <=> Serves
    BY DEF OptionsInv, ConfigOf, NoConfig
  <2>3. stage \in {"completed", "prepared"} /\ s.watchCache =>
            \A i \in DOMAIN s.cacheSizes : s.cacheSizes[i].size \in Nat
    BY DEF OptionsInv, Progress, CompletedOptions
  <2>4. signers # NoSigners => stage = "controllers"
    BY DEF OptionsInv
  <2> QED BY <2>1, <2>2, <2>3, <2>4 DEF OptionsInv, Progress, Serves, TypeOK
<1> QED BY <1>1, OptionsInvariant, PTL

\* Validate has an error for the options with which CreateKubeAPIServerConfig panics,
\* and for those with which there is no authorizer, unless a file cannot be read.
THEOREM FailuresForeseen == Spec => []ValidateForesees
<1>1. OptionsInv => ValidateForesees
  <2> SUFFICES ASSUME OptionsInv PROVE ValidateForesees
    OBVIOUS
  <2>1. s.issuers = <<>> => "issuerRequired" \in AuthenticationErrors(s)
    BY DEF AuthenticationErrors
  <2>2. ASSUME NEW b \in BOOLEAN, AuthorizerFails(ToAuthorizationConfig(s), b),
               {s.policyFile, s.webhookFile} \cap Unreadable = {}
        PROVE  AuthorizationErrors(s) # {}
    <3>1. CASE s.modes = <<>>
      <4>1. "modes" \in AuthorizationErrors(s)
        BY <3>1 DEF AuthorizationErrors
      <4> QED BY <4>1
    <3>2. CASE "ABAC" \in Range(s.modes) /\ s.policyFile = None
      <4>1. "policyFile" \in AuthorizationErrors(s)
        BY <3>2 DEF AuthorizationErrors
      <4> QED BY <4>1
    <3>3. CASE "Webhook" \in Range(s.modes) /\ s.webhookFile = None
      <4>1. "webhookFile" \in AuthorizationErrors(s)
        BY <3>3 DEF AuthorizationErrors
      <4> QED BY <4>1
    <3>4. CASE ~(Range(s.modes) \subseteq ValidModes)
      <4>1. "validMode" \in AuthorizationErrors(s)
        BY <3>4 DEF AuthorizationErrors
      <4> QED BY <4>1
    <3> QED BY <2>2, <3>1, <3>2, <3>3, <3>4 DEF AuthorizerFails, ToAuthorizationConfig
  <2>3. cause = "panic" => Validate(s) # {}
    BY <2>1 DEF OptionsInv, Validate
  <2>4. cause = "authorizer" =>
            {s.policyFile, s.webhookFile} \cap Unreadable # {} \/ Validate(s) # {}
    BY <2>2 DEF OptionsInv, Validate
  <2> QED BY <2>3, <2>4 DEF ValidateForesees
<1> QED BY <1>1, OptionsInvariant, PTL

\* A server accepts the tokens that it signs with a key that it verifies with, and
\* publishes what others need to verify them.
THEOREM TokensAccepted == Spec => []IssuedTokensAccepted
<1>1. OptionsInv => IssuedTokensAccepted
  <2> SUFFICES ASSUME OptionsInv, config.serves, s.generator # None,
                      s.signingKey \in Range(s.keyFiles)
               PROVE  /\ s.generator \in config.authenticator.issuers
                      /\ s.signingKey \in config.authenticator.keys
                      /\ config.audiences \cap config.authenticator.audiences # {}
                      /\ s.generator = config.issuerURL
                      /\ s.signingKey \in config.publicKeys
    BY DEF IssuedTokensAccepted
  <2>1. config = ConfigOf(s)
    BY DEF OptionsInv, NoConfig
  <2>2. /\ s.issuers \in Seq(STRING) /\ s.audiences \in Seq(STRING)
        /\ s.issuers # <<>> /\ s.generator = s.issuers[1]
    BY DEF OptionsInv, SoundOptions, SoundGenerator
  <2>3. s.issuers[1] \in Range(s.issuers)
    BY <2>2 DEF Range
  <2>4. s.audiences # <<>> => s.audiences[1] \in Range(s.audiences)
    BY <2>2 DEF Range
  <2>5. /\ config.audiences = APIAudiences(s) /\ config.issuerURL = s.issuers[1]
        /\ config.publicKeys = Range(s.keyFiles)
        /\ config.authenticator = ToAuthenticationConfig(s)
    BY <2>1 DEF ConfigOf
  <2>6. /\ config.authenticator.issuers = Range(s.issuers)
        /\ config.authenticator.keys = Range(s.keyFiles)
        /\ config.authenticator.audiences =
              Range(IF s.audiences = <<>> THEN s.issuers ELSE s.audiences)
    BY <2>5 DEF ToAuthenticationConfig
  <2>7. config.audiences = config.authenticator.audiences
    BY <2>2, <2>5, <2>6 DEF APIAudiences
  <2>8. config.authenticator.audiences # {}
    BY <2>3, <2>4, <2>6
  <2> QED BY <2>2, <2>3, <2>5, <2>6, <2>7, <2>8
<1> QED BY <1>1, OptionsInvariant, PTL

\* No server lets everybody do everything.
THEOREM NobodyAllowedEverything == Spec => []AnonymousRestricted
<1>1. OptionsInv => AnonymousRestricted
  <2> SUFFICES ASSUME OptionsInv, config.serves
               PROVE  ~(config.authenticator.anonymous /\ "AlwaysAllow" \in config.modes)
    BY DEF AnonymousRestricted
  <2>1. Serves /\ config = ConfigOf(s)
    BY DEF OptionsInv, NoConfig
  <2>2. config.modes = Range(s.modes) /\ config.authenticator = ToAuthenticationConfig(s)
    BY <2>1 DEF ConfigOf
  <2>3. config.authenticator.anonymous = s.anonymous
    BY <2>2 DEF ToAuthenticationConfig
  <2>4. CompletedOptions(s)
    BY <2>1 DEF OptionsInv, Serves, Progress
  <2> QED BY <2>2, <2>3, <2>4 DEF CompletedOptions
<1> QED BY <1>1, OptionsInvariant, PTL

\* The key of the serving certificate verifies tokens only if the flags say so or
\* there is no signing key.
THEOREM KeysApart == Spec => []ServingKeyApart
<1>1. OptionsInv => ServingKeyApart
  <2>1. s.keyFiles = <<>> => Range(s.keyFiles) = {}
    BY DEF Range
  <2> QED BY <2>1 DEF OptionsInv, SoundOptions, ServingKeyApart
<1> QED BY <1>1, OptionsInvariant, PTL

\* A certificate that the server made and keeps in a directory is for its service.
THEOREM CertificateForService == Spec => []ServingCertForService
<1>1. OptionsInv => ServingCertForService
  <2> SUFFICES ASSUME OptionsInv, config.serves PROVE s.certDir => s.servingNames # "localhost"
    BY DEF ServingCertForService
  <2>1. Serves
    BY DEF OptionsInv, NoConfig
  <2>2. CompletedOptions(s)
    BY <2>1 DEF OptionsInv, Serves, Progress
  <2> QED BY <2>2 DEF CompletedOptions
<1> QED BY <1>1, OptionsInvariant, PTL
=============================================================================
