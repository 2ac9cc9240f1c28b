------------------------------- MODULE Options -------------------------------
(***************************************************************************)
(* internal/client/option.go and internal/server/option.go: New applies    *)
(* its options one after the other to one Client or Server; Connect or Run *)
(* then builds a grpc.ClientConn or grpc.Server from what they left, once  *)
(* per start.  An option that fails records its error in the single field  *)
(* configErr, which Connect or Run returns.  Two groups of options share   *)
(* that field: the credentials (WithInsecure, WithTLS, WithMutualTLS) and  *)
(* the service config (WithLoadBalancing of the client,                    *)
(* WithDefaultServiceConfig of the server).  Files are read while the      *)
(* option is applied, so every read may succeed or fail.  gRPC applies the *)
(* options it is given in order, a later one overriding an earlier one of  *)
(* its kind.                                                               *)
(***************************************************************************)
EXTENDS Integers, Sequences

CONSTANTS
    Sides,       \* which of "client" and "server" are built
    MaxOptions,  \* bound: options given to New
    MaxStarts,   \* bound: calls of Connect or Run that pass the error check
    Services     \* services the application may register

ASSUME SidesKnown == Sides \subseteq {"client", "server"}
ASSUME BoundsNat  == MaxOptions \in Nat /\ MaxStarts \in Nat

(* Where a credentials option can fail. *)
LoadErrors   == {"load key pair", "read CA", "parse CA"}
ServiceError == "service config"
TLSConfigs   == {"tls", "mtls"}

(* What can be in dialOpts or grpcOpts: limits and keepalive ("tuning"),    *)
(* transport credentials, WithLoadBalancing's service config ("policy") and *)
(* a raw one ("service").                                                   *)
ServiceOpts == {"policy", "service"}
RawOpts     == {"tuning", "creds"} \union ServiceOpts

(* Options that set one field that no other option touches. *)
Flags == {"port", "reflection", "listener", "healthWatch"}

VARIABLES
    side,           \* a client or a server
    phase,          \* "new" while New runs, "ready", "starting" and "started"
                    \* in Connect or Run, "refused"
    configErr,      \* Client.configErr or Server.configErr, "nil" if none
    tlsConfig,      \* tlsConfig, "nil" if none
    insecureCreds,  \* Client.insecureCreds
    serviceConfig,  \* Server.serviceConfig is set
    flags,          \* the fields of Flags that are set
    chain,          \* how many interceptors were appended
    rawOpts,        \* Client.dialOpts or Server.grpcOpts
    registrars,     \* Server.registrars
    starts,         \* starts so far
    atStart,        \* history: the registrars when this start began
    inUse,          \* what the last start was built with
    served,         \* the services of the last start
    applied,        \* options applied so far
    lastCreds,      \* history: the last credentials option, or "failed"
    lastService,    \* history: the last checked service config option, or "failed"
    lastSet         \* history: where the last service config set came from

fields   == <<configErr, tlsConfig, insecureCreds, serviceConfig, flags, chain, rawOpts>>
running  == <<registrars, starts, atStart, inUse, served>>
history  == <<lastCreds, lastService, lastSet>>
vars     == <<side, phase, fields, running, applied, history>>

Starts  == [creds : {"none", "plaintext", "raw"} \union TLSConfigs,
            service : {"none"} \union ServiceOpts, chain : Nat, with : SUBSET Flags]
Nothing == [creds |-> "none", service |-> "none", chain |-> 0, with |-> {}]

TypeOK ==
    /\ side \in Sides
    /\ phase \in {"new", "ready", "starting", "started", "refused"}
    /\ configErr \in {"nil", ServiceError} \union LoadErrors
    /\ tlsConfig \in {"nil"} \union TLSConfigs
    /\ insecureCreds \in BOOLEAN
    /\ serviceConfig \in BOOLEAN
    /\ flags \subseteq Flags
    /\ chain \in Nat
    /\ rawOpts \in Seq(RawOpts)
    /\ registrars \subseteq Services
    /\ starts \in 0..MaxStarts
    /\ atStart \subseteq Services
    /\ inUse \in Starts
    /\ served \subseteq Services
    /\ applied \in 0..MaxOptions
    /\ lastCreds \in {"none", "failed", "insecure"} \union TLSConfigs
    /\ lastService \in {"none", "failed", "set"}
    /\ lastSet \in {"none"} \union ServiceOpts

Init ==
    /\ side \in Sides
    /\ phase = "new"
    /\ configErr = "nil" /\ tlsConfig = "nil" /\ insecureCreds = FALSE
    /\ serviceConfig = FALSE /\ flags = {} /\ chain = 0 /\ rawOpts = <<>>
    /\ registrars = {} /\ starts = 0 /\ atStart = {} /\ inUse = Nothing /\ served = {}
    /\ applied = 0
    /\ lastCreds = "none" /\ lastService = "none" /\ lastSet = "none"

-----------------------------------------------------------------------------
(* New applies one more option. *)
Apply ==
    /\ phase = "new"
    /\ applied < MaxOptions
    /\ applied' = applied + 1
    /\ UNCHANGED <<side, phase, running>>

WithInsecure ==
    /\ Apply
    /\ side = "client"
    /\ insecureCreds' = TRUE
    /\ tlsConfig' = "nil"
    /\ configErr' = "nil"
    /\ lastCreds' = "insecure"
    /\ UNCHANGED <<serviceConfig, flags, chain, rawOpts, lastService, lastSet>>

(* Seeded fault: a failing TLS option leaves the earlier TLS config alone. *)
RecordLoadErrorOnly(err) == configErr' = err /\ UNCHANGED tlsConfig

RecordLoadError(err) == configErr' = err /\ tlsConfig' = "nil"

(* Seeded fault: a succeeding TLS option does not clear an earlier error. *)
SetTLSKeepError(kind) == tlsConfig' = kind /\ UNCHANGED configErr

SetTLS(kind) == configErr' = "nil" /\ tlsConfig' = kind

(* The reads that WithTLS ("tls") and WithMutualTLS ("mtls") make, in       *)
(* order: the server's WithTLS has no CA, the client's no key pair.         *)
Reads(kind) ==
    IF kind = "mtls" THEN LoadErrors
    ELSE IF side = "client" THEN {"read CA", "parse CA"}
    ELSE {"load key pair"}

WithTLSOk(kind) ==
    /\ Apply
    /\ SetTLS(kind)
    /\ lastCreds' = kind
    /\ UNCHANGED <<insecureCreds, serviceConfig, flags, chain, rawOpts, lastService, lastSet>>

WithTLSFails(kind, err) ==
    /\ Apply
    /\ err \in Reads(kind)
    /\ RecordLoadError(err)
    /\ lastCreds' = "failed"
    /\ UNCHANGED <<insecureCreds, serviceConfig, flags, chain, rawOpts, lastService, lastSet>>

(* Seeded fault: the policy goes before the raw options. *)
PolicyAddedFirst == <<"policy">> \o rawOpts

PolicyAdded == Append(rawOpts, "policy")

WithLoadBalancing ==
    /\ Apply
    /\ side = "client"
    /\ configErr' = "nil"
    /\ rawOpts' = PolicyAdded
    /\ lastService' = "set"
    /\ lastSet' = "policy"
    /\ UNCHANGED <<tlsConfig, insecureCreds, serviceConfig, flags, chain, lastCreds>>

WithDefaultServiceConfig ==
    /\ Apply
    /\ side = "server"
    /\ configErr' = "nil"
    /\ serviceConfig' = TRUE
    /\ lastService' = "set"
    /\ UNCHANGED <<tlsConfig, insecureCreds, flags, chain, rawOpts, lastCreds, lastSet>>

(* An unknown policy, or JSON that does not parse. *)
WithServiceConfigFails ==
    /\ Apply
    /\ configErr' = ServiceError
    /\ lastService' = "failed"
    /\ UNCHANGED <<tlsConfig, insecureCreds, serviceConfig, flags, chain, rawOpts, lastCreds,
                   lastSet>>

(* WithKeepalive, WithMaxMsgSize, WithMaxConcurrentStreams ("tuning"), and  *)
(* what WithDialOptions or WithGrpcOptions may hold.                        *)
WithRaw(opt) ==
    /\ Apply
    /\ opt = "service" => side = "client"
    /\ rawOpts' = Append(rawOpts, opt)
    /\ lastSet' = IF opt = "service" THEN opt ELSE lastSet
    /\ UNCHANGED <<configErr, tlsConfig, insecureCreds, serviceConfig, flags, chain, lastCreds,
                   lastService>>

(* WithUnaryInterceptors and WithStreamInterceptors. *)
WithInterceptors ==
    /\ Apply
    /\ chain' = chain + 1
    /\ UNCHANGED <<configErr, tlsConfig, insecureCreds, serviceConfig, flags, rawOpts, history>>

(* WithPort, WithReflection, WithListener; WithHealthWatch. *)
WithFlag(f) ==
    /\ Apply
    /\ side = "client" <=> f = "healthWatch"
    /\ flags' = flags \union {f}
    /\ UNCHANGED <<configErr, tlsConfig, insecureCreds, serviceConfig, chain, rawOpts, history>>

(* An option that calls interceptor.Configure, of the client's or of the    *)
(* server's interceptor package, and leaves the object alone (WithLogger    *)
(* but for its own logger); also WithLoadBalancing and                      *)
(* WithDefaultServiceConfig of an empty string.                             *)
Delegate == Apply /\ UNCHANGED <<fields, history>>

NewReturns ==
    /\ phase = "new"
    /\ phase' = "ready"
    /\ UNCHANGED <<side, fields, running, applied, history>>

-----------------------------------------------------------------------------
(* RegisterService, from any goroutine, under the mutex. *)
RegisterService(s) ==
    /\ side = "server"
    /\ phase # "new"
    /\ registrars' = registrars \union {s}
    /\ UNCHANGED <<side, phase, fields, starts, atStart, inUse, served, applied, history>>

(* Connect or Run. *)
StartRefused ==
    /\ phase = "ready"
    /\ configErr # "nil"
    /\ phase' = "refused"
    /\ UNCHANGED <<side, fields, running, applied, history>>

Start ==
    /\ phase = "ready"
    /\ configErr = "nil"
    /\ starts < MaxStarts
    /\ phase' = "starting"
    /\ starts' = starts + 1
    /\ atStart' = registrars
    /\ UNCHANGED <<side, fields, registrars, inUse, served, applied, history>>

(* The raw options come last, so credentials among them win; otherwise TLS  *)
(* if there is a TLS config, and plaintext, by choice or with a warning.    *)
Credentials ==
    IF \E i \in DOMAIN rawOpts : rawOpts[i] = "creds" THEN "raw"
    ELSE IF tlsConfig # "nil" THEN tlsConfig
    ELSE "plaintext"

(* The last of the service configs that gRPC is given. *)
ServiceAt(opts) == { i \in DOMAIN opts : opts[i] \in ServiceOpts }

Latest(opts, i) == \A j \in ServiceAt(opts) : j <= i

ServiceConfig(opts) ==
    IF ServiceAt(opts) = {} THEN "none" ELSE opts[CHOOSE i \in ServiceAt(opts) : Latest(opts, i)]

(* Seeded fault: the interceptors are used up like the listener. *)
ChainedOnce == IF starts > 1 THEN 0 ELSE chain

Chained == chain

(* buildDialOpts and buildOptions. *)
Built == [creds |-> Credentials, service |-> ServiceConfig(rawOpts), chain |-> Chained, with |-> flags]

(* Seeded fault: a later Run keeps the services of the first. *)
RegistrarsCopiedOnce == IF starts > 1 THEN served ELSE registrars

RegistrarsCopied == registrars

Build ==
    /\ phase = "starting"
    /\ phase' = "started"
    /\ inUse' = Built
    /\ served' = RegistrarsCopied
    /\ flags' = flags \ {"listener"}
    /\ UNCHANGED <<side, configErr, tlsConfig, insecureCreds, serviceConfig, chain, rawOpts,
                   registrars, starts, atStart, applied, history>>

(* Close, or the return of Run: New's options serve the next start. *)
Stop ==
    /\ phase = "started"
    /\ phase' = "ready"
    /\ UNCHANGED <<side, fields, running, applied, history>>

Next ==
    \/ WithInsecure
    \/ \E kind \in TLSConfigs : WithTLSOk(kind)
    \/ \E kind \in TLSConfigs, err \in LoadErrors : WithTLSFails(kind, err)
    \/ WithLoadBalancing
    \/ WithDefaultServiceConfig
    \/ WithServiceConfigFails
    \/ \E opt \in {"tuning", "creds", "service"} : WithRaw(opt)
    \/ WithInterceptors
    \/ \E f \in Flags : WithFlag(f)
    \/ Delegate
    \/ NewReturns
    \/ \E s \in Services : RegisterService(s)
    \/ StartRefused
    \/ Start
    \/ Build
    \/ Stop

Spec == Init /\ [][Next]_vars

-----------------------------------------------------------------------------
(* Properties *)

(* internal/server/doc.go:55-56 and internal/client/doc.go:62-64, "a failing *)
(* TLS option nils out the TLS config to prevent stale credentials from      *)
(* being used": whatever errors later options clear, what starts uses the    *)
(* credentials of the last credentials option, plaintext, or raw ones.       *)
NoStaleCredentials ==
    phase = "started" /\ inUse.creds \in TLSConfigs => lastCreds = inUse.creds

(* internal/server/doc.go:54-55, "A succeeding TLS option clears the error   *)
(* from a preceding one": a start is refused only for a failure that the     *)
(* last option of its group really had.                                      *)
RefusedForCause ==
    phase = "refused" =>
        \/ configErr \in LoadErrors /\ lastCreds = "failed"
        \/ configErr = ServiceError /\ lastService = "failed"

(* WithLoadBalancing, internal/client/option.go:234-236, "whichever is       *)
(* applied last takes effect": of WithLoadBalancing and the service configs  *)
(* among the raw dial options, in any order and number, with failed ones     *)
(* between them, the connection has the last that was set.                   *)
LastServiceConfigWins ==
    phase = "started" /\ side = "client" => inUse.service = lastSet

(* RegisterService, server.go:100-104: a service that was registered before  *)
(* Run, by whichever goroutine and before whichever Run, is served.          *)
RegisteredIsServed == phase = "started" => atStart \subseteq served

(* buildDialOpts, client.go:206-236, buildOptions, server.go:116-137: a      *)
(* Connect after Close, or a second Run, is built exactly as the first was,  *)
(* but for the listener, which option.go:146-147 says the first Run consumes.*)
StartIsRepeatable ==
    [][ phase = "starting" /\ phase' = "started" /\ starts > 1
          => inUse' = [inUse EXCEPT !.with = @ \ {"listener"}] ]_vars

(* The inductive strengthening: the fields mirror the last option of each   *)
(* group, and what was built or refused was decided from the fields.        *)
IInv ==
    /\ configErr \in {"nil", ServiceError} \union LoadErrors
    /\ tlsConfig # "nil" => lastCreds = tlsConfig
    /\ configErr \in LoadErrors => lastCreds = "failed"
    /\ configErr = ServiceError => lastService = "failed"
    /\ phase = "started" => inUse.creds = Credentials /\ atStart \subseteq served
    /\ phase = "starting" => atStart \subseteq registrars
    /\ phase = "refused" => configErr # "nil"

(* The service config in effect is the last that was set. *)
ServiceInv ==
    /\ rawOpts \in Seq(RawOpts)
    /\ ServiceAt(rawOpts) # {} => \E i \in ServiceAt(rawOpts) : Latest(rawOpts, i)
    /\ side = "client" => ServiceConfig(rawOpts) = lastSet
    /\ phase = "started" => inUse.service = ServiceConfig(rawOpts)

(* Between the first start and the last, the fields still say what was      *)
(* built, but for the listener.                                             *)
Repeatable == starts > 1 \/ (starts = 1 /\ phase # "starting")

RepeatInv ==
    /\ starts \in Nat
    /\ phase = "new" => starts = 0
    /\ phase = "starting" => starts > 0
    /\ inUse \in Starts
    /\ Repeatable => [inUse EXCEPT !.with = @ \ {"listener"}] = Built

(* Client WithTLS, option.go:41-42: "the error is deferred and returned from *)
(* Connect"; server WithTLS, option.go:43-44: "returned from Run": nothing   *)
(* starts while the last credentials option or the last service config       *)
(* option failed.                                                            *)
DeferredErrorReported ==
    phase = "started" => lastCreds # "failed" /\ lastService # "failed"

=============================================================================
