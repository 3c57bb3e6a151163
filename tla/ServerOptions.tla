----------------------------- MODULE ServerOptions -----------------------------
(***************************************************************************)
(* From the flags of the global hub's API server to its configuration:     *)
(* main, apiserver/options, and of apiserver/server.go Complete, Run,      *)
(* CreateKubeAPIServerConfig and buildGenericConfig, and what the kube     *)
(* controllers take from the options.                                      *)
(*                                                                         *)
(* The options are the record s.  main parses the flags, completes the     *)
(* options and runs the server; it never calls Validate, which is an       *)
(* operator here, to be compared with what the later steps do with the     *)
(* same options.  A file is abstracted to the key or certificate in it.    *)
(***************************************************************************)
EXTENDS Integers, Sequences, FiniteSets, Functions

CONSTANTS
    Values,        \* the values that every flag may be given
    MaxFlags,      \* bound: the flags on the command line
    Unreadable,    \* files without a key for tokens, certificate or configuration,
                   \* and issuers with a colon that are not URLs
    InvalidRanges, \* service ranges that do not parse
    SmallRanges,   \* service ranges without room for the API server
    LowBound,      \* an hour, the least maximum of a token's lifetime,
    UpBound,       \* and 2^32 seconds, the greatest
    DefaultSizes   \* kubeapiserver.DefaultWatchCacheSizes

None == ""

\* g, and f where g says nothing.
Overridden(f, g) ==
    [r \in DOMAIN f \cup DOMAIN g |-> IF r \in DOMAIN g THEN g[r] ELSE f[r]]

-------------------------------------------------------------------------------
(* The options, their defaults, and which of them have a flag.             *)

\* NewBuiltInAuthenticationOptions().WithAll().
AuthenticationDefaults ==
    [anonymous |-> TRUE, clientCA |-> None, oidcIssuer |-> FALSE, oidcClient |-> FALSE,
     keyFiles |-> <<>>, issuers |-> <<>>, audiences |-> <<>>, maxExpiration |-> 0,
     jwksURI |-> None]

AuthenticationFlags == DOMAIN AuthenticationDefaults

AuthorizationDefaults ==
    [modes |-> <<"AlwaysAllow">>, policyFile |-> None, webhookFile |-> None]

AuthorizationFlags == DOMAIN AuthorizationDefaults

\* Is there an embedded etcd, and are its ports named?
EmbeddedEtcdDefaults == [embedded |-> FALSE, peerPort |-> TRUE, clientPort |-> TRUE]

EmbeddedEtcdFlags == DOMAIN EmbeddedEtcdDefaults

\* The serving key file and the directory for a certificate that is made.
SecureServingDefaults == [tlsKey |-> None, certDir |-> TRUE]

\* Options of the libraries that the code above them looks at.
LibraryDefaults ==
    [watchCache |-> TRUE, cacheSizes |-> <<>>, fairness |-> TRUE, inFlight |-> 600]

\* The options that are filled in later: who the serving certificate is made for,
\* the service ranges, the issuer of the tokens that the server signs with their
\* greatest lifetime, and where the storage is.
Later ==
    [servingNames |-> "given", primary |-> None, secondary |-> None,
     generator |-> None, tokenMax |-> 0, storage |-> "flags"]

\* NewServerRunOptions.
Defaults ==
    Overridden(
        Overridden(Overridden(AuthenticationDefaults, AuthorizationDefaults),
                   Overridden(EmbeddedEtcdDefaults, SecureServingDefaults)),
        Overridden(Overridden(LibraryDefaults, Later),
                   [signingKey |-> None, clientKey |-> None, ranges |-> <<>>]))

\* ServerRunOptions.AddFlags.
AddFlags ==
    AuthenticationFlags \cup AuthorizationFlags \cup EmbeddedEtcdFlags
        \cup DOMAIN SecureServingDefaults \cup DOMAIN LibraryDefaults
        \cup {"signingKey", "clientKey", "ranges"}

Flags == DOMAIN Values

\* pflag parses a value as the type of its flag; a list is split at its commas.
BoolFlags ==
    {"anonymous", "oidcIssuer", "oidcClient", "embedded", "peerPort", "clientPort",
     "certDir", "watchCache", "fairness"}
ListFlags == {"keyFiles", "issuers", "audiences", "modes", "ranges"}
CacheSizes == Seq([resource : STRING, size : Int, wellFormed : BOOLEAN])

ASSUME OptionsAssumption ==
    /\ Flags \subseteq AddFlags
    /\ \A f \in Flags \cap BoolFlags : Values[f] \subseteq BOOLEAN
    /\ \A f \in Flags \cap ListFlags : Values[f] \subseteq Seq(STRING)
    /\ \A f \in Flags \cap {"cacheSizes"} : Values[f] \subseteq CacheSizes
    /\ {MaxFlags, LowBound, UpBound} \subseteq Nat
    /\ None \notin Unreadable
    /\ IsFiniteSet(DOMAIN DefaultSizes)
    /\ \A r \in DOMAIN DefaultSizes : DefaultSizes[r] \in Nat

VARIABLES
    s,        \* the options
    given,    \* the flags on the command line
    stage,    \* how far the process is
    cause,    \* why it ended
    config,   \* the configuration of the server
    signers   \* the certificate and the key of the signers of certificates

vars == <<s, given, stage, cause, config, signers>>

Stages == {"flags", "completed", "prepared", "serving", "controllers", "ended"}
Causes == {"none", "options", "serviceAccountKeys", "clientCA", "authorizer",
           "flowControl", "panic", "signers"}
NoConfig == [serves |-> FALSE]
NoSigners == [cert |-> None, key |-> None]

TypeOK ==
    /\ DOMAIN s = DOMAIN Defaults
    /\ given \subseteq Flags
    /\ stage \in Stages
    /\ cause \in Causes
    /\ config.serves <=> stage \in {"serving", "controllers"} \/ cause = "signers"
    /\ (cause # "none") <=> (stage = "ended")
    /\ (signers # NoSigners) => (stage = "controllers")
    /\ s.servingNames \in {"given", "service", "localhost"}
    /\ s.tokenMax \in {0} \cup LowBound..UpBound
    /\ stage \in {"completed", "prepared"} /\ s.watchCache =>
          \A i \in DOMAIN s.cacheSizes : s.cacheSizes[i].size \in Nat

Init ==
    /\ s = Defaults
    /\ given = {}
    /\ stage = "flags"
    /\ cause = "none"
    /\ config = NoConfig
    /\ signers = NoSigners

\* flag.InitFlags.
ParseFlag(f, v) ==
    /\ stage = "flags"
    /\ f \notin given
    /\ Cardinality(given) < MaxFlags
    /\ s' = [s EXCEPT ![f] = v]
    /\ given' = given \cup {f}
    /\ UNCHANGED <<stage, cause, config, signers>>

\* klog.Fatal, or a panic.
End(why) ==
    /\ stage' = "ended"
    /\ cause' = why

-------------------------------------------------------------------------------
(* Validate.                                                               *)

\* BuiltInAuthenticationOptions.Validate.  (The attempts of the webhook have no flag,
\* and their default is valid.)
AuthenticationErrors(o) ==
    LET wrong ==
          [oidc |-> o.oidcIssuer # o.oidcClient,
           issuer |-> \/ Range(o.issuers) \cap ({None} \cup Unreadable) # {}
                      \/ ~IsInjective(o.issuers),
           issuerRequired |-> o.issuers = <<>>,
           keyFileRequired |-> o.keyFiles = <<>>,
           jwksURI |-> o.jwksURI \notin {None, "https"}]
    IN  {e \in DOMAIN wrong : wrong[e]}

\* authzmodes.AuthorizationModeChoices.
ValidModes == {"AlwaysAllow", "AlwaysDeny", "ABAC", "Webhook", "RBAC", "Node"}

\* Mutant: the file of a mode is not asked for.
IgnoresFiles(o) ==
    IF o.modes = <<>> \/ ~IsInjective(o.modes) THEN {"modes"} ELSE {}

\* BuiltInAuthorizationOptions.Validate.
AuthorizationErrors(o) ==
    LET wrong ==
          [modes |-> o.modes = <<>> \/ ~IsInjective(o.modes),
           validMode |-> ~(Range(o.modes) \subseteq ValidModes),
           policyFile |-> ("ABAC" \in Range(o.modes)) # (o.policyFile # None),
           webhookFile |-> ("Webhook" \in Range(o.modes)) # (o.webhookFile # None)]
    IN  {e \in DOMAIN wrong : wrong[e]}

\* The first issuer, if it is not empty.
HasIssuer(o) == o.issuers # <<>> /\ o.issuers[1] # None

validateTokenRequest(o) ==
    LET enableAttempted == o.signingKey # None \/ HasIssuer(o) \/ o.audiences # <<>>
    IN  IF enableAttempted /\ o.generator # None THEN {} ELSE {"tokenRequest"}

EmbeddedEtcdErrors(o) ==
    IF o.embedded /\ ~(o.peerPort /\ o.clientPort) THEN {"etcdPort"} ELSE {}

Validate(o) ==
    AuthenticationErrors(o) \cup AuthorizationErrors(o) \cup validateTokenRequest(o)
        \cup EmbeddedEtcdErrors(o)

-------------------------------------------------------------------------------
(* Complete.                                                               *)

\* The first range has to be there and big enough, the second to be there, and
\* nobody looks at a third.
RangesFail(ranges) ==
    /\ ranges # <<>>
    /\ \/ ranges[1] \in InvalidRanges \cup SmallRanges
       \/ Len(ranges) > 1 /\ ranges[2] \in InvalidRanges

getServiceIPAndRanges(o) ==
    [o EXCEPT !.primary = IF o.ranges = <<>> THEN "default" ELSE o.ranges[1],
              !.secondary = IF Len(o.ranges) > 1 THEN o.ranges[2] ELSE @]

\* A certificate is made when no file is named.  It is written to files, which
\* are then named, if there is a directory for them.  (Files that an earlier process
\* left in the directory are taken as they are, with the names they were made for.)
MaybeDefaultWithSelfSignedCerts(o, names) ==
    IF o.tlsKey # None THEN o
    ELSE [o EXCEPT !.servingNames = names,
                   !.tlsKey = IF o.certDir THEN "apiserver" ELSE None]

\* Mutant: only the mode alone is looked for.
ResetsIfAlone(o) ==
    [o EXCEPT !.anonymous = @ /\ o.modes # <<"AlwaysAllow">>]

ApplyAuthorization(o) ==
    [o EXCEPT !.anonymous = @ /\ "AlwaysAllow" \notin Range(o.modes)]

\* Mutant: the keys are defaulted although there is a signing key.
DefaultsAlways(o) ==
    IF o.keyFiles = <<>> /\ o.tlsKey \notin {None} \cup Unreadable
    THEN [o EXCEPT !.keyFiles = <<o.tlsKey>>]
    ELSE o

DefaultKeyFiles(o) ==
    IF /\ o.signingKey = None
       /\ o.keyFiles = <<>>
       /\ o.tlsKey \notin {None} \cup Unreadable
    THEN [o EXCEPT !.keyFiles = <<o.tlsKey>>]
    ELSE o

Issues(o) == o.signingKey # None /\ HasIssuer(o)

GeneratorFails(o) ==
    /\ Issues(o)
    /\ \/ o.signingKey \in Unreadable
       \/ o.maxExpiration # 0 /\ o.maxExpiration \notin LowBound..UpBound

\* Mutant: the tokens are those of the last issuer.
SignsForLastIssuer(o) ==
    IF Issues(o)
    THEN [o EXCEPT !.generator = o.issuers[Len(o.issuers)], !.tokenMax = o.maxExpiration]
    ELSE o

JWTTokenGenerator(o) ==
    IF Issues(o)
    THEN [o EXCEPT !.generator = o.issuers[1], !.tokenMax = o.maxExpiration]
    ELSE o

\* Mutant: a negative size is taken.
TakesNegative(sizes) ==
    \E i \in DOMAIN sizes : ~sizes[i].wellFormed

ParseFails(sizes) ==
    \E i \in DOMAIN sizes : ~(sizes[i].wellFormed /\ sizes[i].size >= 0)

\* The last entry of a resource counts.
ParseWatchCacheSizes(sizes) ==
    [r \in {sizes[i].resource : i \in DOMAIN sizes} |->
        LET last == CHOOSE i \in DOMAIN sizes :
                        /\ sizes[i].resource = r
                        /\ \A j \in i + 1..Len(sizes) : sizes[j].resource # r
        IN  sizes[last].size]

\* One entry per resource, in some order.
WriteWatchCacheSizes(sizes) ==
    LET order == CHOOSE f \in [1..Cardinality(DOMAIN sizes) -> DOMAIN sizes] :
                    IsInjective(f)
    IN  [i \in DOMAIN order |->
            [resource |-> order[i], size |-> sizes[order[i]], wellFormed |-> TRUE]]

DefaultCacheSizes(o) ==
    IF o.watchCache
    THEN [o EXCEPT !.cacheSizes = WriteWatchCacheSizes(
             Overridden(DefaultSizes, ParseWatchCacheSizes(o.cacheSizes)))]
    ELSE o

\* Mutant: the serving certificate is left to Run.
CompletedWithoutCert(o) ==
    DefaultCacheSizes(JWTTokenGenerator(DefaultKeyFiles(ApplyAuthorization(
        getServiceIPAndRanges(o)))))

Completed(o) ==
    DefaultCacheSizes(JWTTokenGenerator(DefaultKeyFiles(ApplyAuthorization(
        MaybeDefaultWithSelfSignedCerts(getServiceIPAndRanges(o), "service")))))

CompleteFails(o) ==
    \/ RangesFail(o.ranges)
    \/ GeneratorFails(o)
    \/ o.watchCache /\ ParseFails(o.cacheSizes)

Complete ==
    /\ stage = "flags"
    /\ ~CompleteFails(s)
    /\ s' = Completed(s)
    /\ stage' = "completed"
    /\ UNCHANGED <<given, cause, config, signers>>

CompleteEnds ==
    /\ stage = "flags"
    /\ CompleteFails(s)
    /\ End("options")
    /\ UNCHANGED <<s, given, config, signers>>

-------------------------------------------------------------------------------
(* Run, CreateKubeAPIServerConfig and the kube controllers.                *)

\* The embedded etcd replaces the storage of the flags.  A certificate that has
\* no files is made again, for other names.
Run ==
    /\ stage = "completed"
    /\ s' = [MaybeDefaultWithSelfSignedCerts(s, "localhost") EXCEPT
                !.storage = IF s.embedded THEN "embedded" ELSE @]
    /\ stage' = "prepared"
    /\ UNCHANGED <<given, cause, config, signers>>

ToAuthenticationConfig(o) ==
    [anonymous |-> o.anonymous, clientCA |-> o.clientCA,
     audiences |-> Range(IF o.audiences = <<>> THEN o.issuers ELSE o.audiences),
     issuers |-> Range(o.issuers), keys |-> Range(o.keyFiles)]

\* The audiences that ApplyTo gives to the server, for tokens that name none.
APIAudiences(o) ==
    Range(IF o.issuers # <<>> /\ o.audiences = <<>> THEN o.issuers ELSE o.audiences)

ToAuthorizationConfig(o) ==
    [modes |-> o.modes, policyFile |-> o.policyFile, webhookFile |-> o.webhookFile]

\* authorizer.Config.New: every mode has to be known and to have its file.  Without a
\* file the webhook takes the configuration of its surroundings, if there is one.
AuthorizerFails(authz, surroundings) ==
    \/ authz.modes = <<>>
    \/ "ABAC" \in Range(authz.modes) /\ authz.policyFile \in {None} \cup Unreadable
    \/ /\ "Webhook" \in Range(authz.modes)
       /\ \/ authz.webhookFile \in Unreadable
          \/ authz.webhookFile = None /\ ~surroundings
    \/ ~(Range(authz.modes) \subseteq ValidModes)

\* The first error of buildGenericConfig.
buildGenericConfig(o, surroundings) ==
    CASE o.clientCA \in Unreadable -> "clientCA"
      [] Range(o.keyFiles) \cap Unreadable # {} -> "serviceAccountKeys"
      [] AuthorizerFails(ToAuthorizationConfig(o), surroundings) -> "authorizer"
      [] o.fairness /\ o.inFlight <= 0 -> "flowControl"
      [] OTHER -> "none"

\* Issuers[0] of no issuers is a panic.
CreateKubeAPIServerConfig ==
    /\ stage = "prepared"
    /\ \E surroundings \in BOOLEAN : buildGenericConfig(s, surroundings) = "none"
    /\ s.issuers # <<>>
    /\ stage' = "serving"
    /\ config' = [serves |-> TRUE, authenticator |-> ToAuthenticationConfig(s),
                  audiences |-> APIAudiences(s), modes |-> Range(s.modes),
                  rbacHook |-> "RBAC" \in Range(s.modes),
                  issuerURL |-> s.issuers[1], publicKeys |-> Range(s.keyFiles)]
    /\ UNCHANGED <<s, given, cause, signers>>

ConfigEnds ==
    /\ stage = "prepared"
    /\ \E surroundings \in BOOLEAN :
          LET why == buildGenericConfig(s, surroundings)
          IN  \/ why # "none" /\ End(why)
              \/ why = "none" /\ s.issuers = <<>> /\ End("panic")
    /\ UNCHANGED <<s, given, config, signers>>

\* RunKubeControllers: the CA that clients are checked against, with its key.
SigningFiles(o) == [cert |-> o.clientCA, key |-> o.clientKey]

\* startCSRSigningController: skipped unless both files are named, and fatal if
\* they are not a certificate and its key.
StartControllers ==
    LET files == SigningFiles(s)
        missing == None \in {files.cert, files.key}
    IN  /\ stage = "serving"
        /\ \/ /\ missing \/ files.key \notin Unreadable
              /\ stage' = "controllers"
              /\ signers' = IF missing THEN NoSigners ELSE files
              /\ UNCHANGED cause
           \/ /\ ~missing /\ files.key \in Unreadable
              /\ End("signers")
              /\ UNCHANGED signers
        /\ UNCHANGED <<s, given, config>>

Next ==
    \/ \E f \in Flags : \E v \in Values[f] : ParseFlag(f, v)
    \/ Complete
    \/ CompleteEnds
    \/ Run
    \/ CreateKubeAPIServerConfig
    \/ ConfigEnds
    \/ StartControllers

Spec == Init /\ [][Next]_vars

-------------------------------------------------------------------------------
(* Properties.                                                             *)

\* The run ends in a panic, or for want of an authorizer, only with options that
\* Validate has an error for: Validate and the code behind it agree, although
\* main does not call it (options.go Validate; server.go:251, 355).
ValidateForesees ==
    \/ cause \notin {"panic", "authorizer"}
    \/ cause = "authorizer" /\ {s.policyFile, s.webhookFile} \cap Unreadable # {}
    \/ Validate(s) # {}

\* A server that signs tokens with a key that it is also given to verify tokens
\* accepts them: it is one of its issuers, the audiences that they have by default
\* are audiences of the authenticator, and what it publishes for others to verify
\* them names the same issuer and key (Complete, ApplyTo, ToAuthenticationConfig).
IssuedTokensAccepted ==
    config.serves /\ s.generator # None /\ s.signingKey \in Range(s.keyFiles) =>
        /\ s.generator \in config.authenticator.issuers
        /\ s.signingKey \in config.authenticator.keys
        /\ config.audiences \cap config.authenticator.audiences # {}
        /\ s.generator = config.issuerURL
        /\ s.signingKey \in config.publicKeys

\* A server never lets everybody do everything: it does not take anonymous
\* requests where one of its modes allows them all (ApplyAuthorization).
AnonymousRestricted ==
    config.serves =>
        ~(config.authenticator.anonymous /\ "AlwaysAllow" \in config.modes)

\* The key of the serving certificate verifies tokens only if the flags say so or
\* there is no signing key: rotating the certificate does not end the tokens of a
\* server with a signing key (Complete, server.go:507).
ServingKeyApart ==
    s.tlsKey # None /\ s.tlsKey \in Range(s.keyFiles) =>
        "keyFiles" \in given \/ s.signingKey = None

\* A certificate that the server makes for itself and keeps in a directory is for
\* the names of its service: the second defaulting, in Run, does not replace it
\* with one for localhost.  Without a directory it does (server.go:447, 488).
ServingCertForService ==
    config.serves /\ s.certDir => s.servingNames # "localhost"
===============================================================================
