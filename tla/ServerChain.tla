----------------------------- MODULE ServerChain -----------------------------
(***************************************************************************)
(* internal/server/interceptor: one RPC on its way down a chain of         *)
(* interceptors to the handler and back up, as an answer or as a panic,    *)
(* while Configure changes the package-wide configuration.  level counts   *)
(* the interceptors; the handler is one level below the last.  A unary     *)
(* interceptor and its stream twin have the same control and are one       *)
(* action; Validation has no stream twin.  AuthFunc, RateLimiter, Validate *)
(* and the handler belong to the application: they may fail or panic.      *)
(* Every interceptor takes a snapshot of its own; the two maps in it are   *)
(* shared with the configuration (see InterceptorConfig).                  *)
(***************************************************************************)
EXTENDS Integers, Sequences, SequencesExt

CONSTANTS
    Chains,      \* chains that the application may install
    MaxOptions   \* bound: options applied in one behaviour

Interceptors == {"RequestID", "Recovery", "Logging", "Auth", "RateLimit", "Validation"}

ASSUME ChainsKnown   == \A c \in Chains : c \in Seq(Interceptors) /\ IsInjective(c)
ASSUME MaxOptionsNat == MaxOptions \in Nat

HandlerCodes == {"OK", "Unknown", "Canceled"}
Codes        == HandlerCodes \union
                {"Internal", "Unauthenticated", "ResourceExhausted", "InvalidArgument"}

(* x-request-id in the metadata, and the ID in the context. *)
HeaderIDs == {"absent", "malformed", "uuid"}
IDs       == {"", "uuid", "generated"}

(* The authorization metadata: missing or empty, refused or accepted.  *)
Credentials == {"missing", "bad", "good"}

(* What peerKey has to go by: the address of the connection, none at all,    *)
(* or in addition a proxy header (x-forwarded-for, then x-real-ip), whose    *)
(* first entry may be blank.                                                 *)
Origins == {"address", "none", "proxied", "blank"}

VARIABLES
    cfg,      \* defaultConfig: authFunc and rateLimiter present, trustProxy
    excluded, \* the shared map excludedMethods holds the method
    demoted,  \* the shared map demotedMethods holds the method
    options,  \* options applied so far
    chain,    \* the chain of this server
    header,   \* the request's x-request-id
    creds,    \* the request's authorization
    origin,   \* where the request comes from
    level,    \* the interceptor that runs next, or returns next
    mode,     \* "down", "up", "panic", "done" or "crashed"
    code,     \* the status on its way up, "none" before
    idAt,     \* idAt[i]: the request ID in the context of level i
    reply,    \* the x-request-id of the response header, "" if none
    trusted,  \* trustProxy in the snapshot of Logging
    charged,  \* the key that RateLimit asked the limiter about, "none" before
    log,      \* the lines that Logging wrote
    deepest,  \* history: the innermost level that the RPC reached
    panicked, \* history: something panicked
    guarded,  \* history: from the RPC's arrival until it passed Auth, there was
              \* an AuthFunc and the method was not excluded
    trusts    \* history: the values trustProxy has had since the RPC came in

configVars == <<cfg, excluded, demoted, options>>
request    == <<chain, header, creds, origin>>
control    == <<level, deepest, mode, code, idAt, panicked>>
observed   == <<reply, trusted, charged, log>>
history    == <<guarded, trusts>>
vars       == <<configVars, request, control, observed, history>>

Levels(c) == 1..(Len(c) + 1)

(* Interceptor a was entered and called the level below it; so was b, which  *)
(* a encloses.                                                               *)
Passed(a) == \E i \in DOMAIN chain : chain[i] = a /\ i < deepest
PassedTo(a, b) ==
    \E i, j \in DOMAIN chain : chain[i] = a /\ chain[j] = b /\ i < j /\ j < deepest

Init ==
    /\ cfg \in [authFunc : BOOLEAN, limiter : BOOLEAN, trustProxy : BOOLEAN]
    /\ excluded \in BOOLEAN
    /\ demoted \in BOOLEAN
    /\ options = 0
    /\ chain \in Chains
    /\ header \in HeaderIDs
    /\ creds \in Credentials
    /\ origin \in Origins
    /\ level = 1
    /\ deepest = 1
    /\ mode = "down"
    /\ code = "none"
    /\ idAt = [i \in Levels(chain) |-> ""]
    /\ reply = ""
    /\ trusted = FALSE
    /\ charged = "none"
    /\ log = <<>>
    /\ panicked = FALSE
    /\ guarded = (cfg.authFunc /\ ~excluded)
    /\ trusts = {cfg.trustProxy}

-----------------------------------------------------------------------------
(* Configure, while the RPC is under way; the two maps only grow. *)
Configure ==
    /\ mode \notin {"done", "crashed"}
    /\ options < MaxOptions
    /\ options' = options + 1
    /\ guarded' = (guarded /\ (Passed("Auth") \/ (cfg'.authFunc /\ ~excluded')))
    /\ trusts' = trusts \union {cfg'.trustProxy}
    /\ UNCHANGED <<request, control, observed>>

Assigns(field) ==
    /\ \E b \in BOOLEAN : cfg' = [cfg EXCEPT ![field] = b]
    /\ UNCHANGED <<excluded, demoted>>
    /\ Configure

WithAuthFunc    == Assigns("authFunc")
WithRateLimiter == Assigns("limiter")
WithTrustProxy  == Assigns("trustProxy")

WithExcludedMethods ==
    /\ excluded' = TRUE
    /\ UNCHANGED <<cfg, demoted>>
    /\ Configure

WithDemotedMethods ==
    /\ demoted' = TRUE
    /\ UNCHANGED <<cfg, excluded>>
    /\ Configure

-----------------------------------------------------------------------------
(* How control passes between levels. *)

Entering(name) == mode = "down" /\ level <= Len(chain) /\ chain[level] = name

(* handler(ctx, req), with the context's ID for the levels below. *)
Proceed(id) ==
    /\ level' = level + 1
    /\ deepest' = level + 1
    /\ idAt' = [i \in Levels(chain) |-> IF i > level THEN id ELSE idAt[i]]
    /\ UNCHANGED <<mode, code, panicked>>

(* The current level returns an error of its own, or panics; the level      *)
(* above is next.                                                           *)
Refuse(err) ==
    /\ level' = level - 1
    /\ mode' = "up"
    /\ code' = err
    /\ UNCHANGED <<deepest, idAt, panicked>>

Panic ==
    /\ level' = level - 1
    /\ mode' = "panic"
    /\ panicked' = TRUE
    /\ UNCHANGED <<deepest, code, idAt>>

-----------------------------------------------------------------------------
EnsureRequestID == IF header = "uuid" THEN "uuid" ELSE "generated"

(* Seeded fault: the ID is sent back but not stored in the context. *)
StoredNot(id) == idAt[level]

(* The context that RequestID passes on. *)
Stored(id) == id

RequestID ==
    /\ Entering("RequestID")
    /\ reply' = EnsureRequestID
    /\ Proceed(Stored(EnsureRequestID))
    /\ UNCHANGED <<configVars, request, trusted, charged, log, history>>

(* Recovery and Logging do nothing on the way down but read the             *)
(* configuration: the logger, and Logging also trustProxy.                  *)
EnterPassive ==
    /\ Entering("Recovery") \/ Entering("Logging")
    /\ trusted' = IF chain[level] = "Logging" THEN cfg.trustProxy ELSE trusted
    /\ Proceed(idAt[level])
    /\ UNCHANGED <<configVars, request, reply, charged, log, history>>

(* Seeded fault: a request without a token is let through. *)
AuthPassesLenient == excluded \/ ~cfg.authFunc \/ creds \in {"good", "missing"}

(* Auth decides from its snapshot and the shared map. *)
AuthPasses == excluded \/ ~cfg.authFunc \/ creds = "good"

Auth ==
    /\ Entering("Auth")
    /\ IF AuthPasses THEN Proceed(idAt[level]) ELSE Refuse("Unauthenticated")
    /\ UNCHANGED <<configVars, request, observed, history>>

(* The AuthFunc itself panics. *)
AuthPanics ==
    /\ Entering("Auth")
    /\ ~excluded
    /\ cfg.authFunc
    /\ creds # "missing"
    /\ Panic
    /\ UNCHANGED <<configVars, request, observed, history>>

(* The first entry of a proxy header if it is trusted, else the host. *)
PeerKey(trustProxy) ==
    IF trustProxy /\ origin = "proxied" THEN "client"
    ELSE IF trustProxy /\ origin = "blank" THEN ""
    ELSE IF origin = "none" THEN "unknown" ELSE "host"

(* Without a limiter, the RPC passes. *)
RateLimitOff ==
    /\ Entering("RateLimit")
    /\ ~cfg.limiter
    /\ Proceed(idAt[level])
    /\ UNCHANGED <<configVars, request, observed, history>>

(* The limiter allows, refuses, fails or panics. *)
RateLimit ==
    /\ Entering("RateLimit")
    /\ cfg.limiter
    /\ charged' = PeerKey(cfg.trustProxy)
    /\ \/ Proceed(idAt[level])
       \/ Refuse("ResourceExhausted")
       \/ Refuse("Internal")
       \/ Panic
    /\ UNCHANGED <<configVars, request, reply, trusted, log, history>>

(* The request does not implement Validator or is valid, is invalid, or its *)
(* Validate panics.                                                         *)
Validation ==
    /\ Entering("Validation")
    /\ Proceed(idAt[level]) \/ Refuse("InvalidArgument") \/ Panic
    /\ UNCHANGED <<configVars, request, observed, history>>

Handler ==
    /\ mode = "down"
    /\ level = Len(chain) + 1
    /\ Panic \/ \E c \in HandlerCodes : Refuse(c)
    /\ UNCHANGED <<configVars, request, observed, history>>

-----------------------------------------------------------------------------
(* The way up. *)

Severity ==
    IF code = "OK" THEN "Info"
    ELSE IF code = "Canceled" /\ demoted THEN "Debug" ELSE "Error"

(* One line per RPC, with the ID of Logging's own context. *)
Line == [severity |-> Severity, code |-> code, id |-> idAt[level], peer |-> PeerKey(trusted)]

(* Seeded fault: Logging logs failed RPCs only. *)
LoggedErrorsOnly == IF code = "OK" THEN log ELSE Append(log, Line)

Logged == Append(log, Line)

Leaving(name, how) == mode = how /\ level > 0 /\ chain[level] = name

Upwards ==
    /\ level' = level - 1
    /\ UNCHANGED <<configVars, request, deepest, mode, code, idAt, panicked,
                   reply, trusted, charged, history>>

LeaveLogging ==
    /\ Leaving("Logging", "up")
    /\ log' = Logged
    /\ Upwards

LeaveOther ==
    /\ mode = "up"
    /\ level > 0 /\ chain[level] # "Logging"
    /\ UNCHANGED log
    /\ Upwards

(* Seeded fault: the recovered panic is returned as success. *)
RecoveredSilently == "OK"

Recovered == "Internal"

(* Recovery's deferred function. *)
Recover ==
    /\ Leaving("Recovery", "panic")
    /\ Refuse(Recovered)
    /\ UNCHANGED <<configVars, request, observed, history>>

(* No other interceptor has a deferred function: Logging writes no line. *)
Unwind ==
    /\ mode = "panic"
    /\ level > 0 /\ chain[level] # "Recovery"
    /\ UNCHANGED log
    /\ Upwards

(* grpc.Server has the answer, or dies of the panic. *)
Finish ==
    /\ level = 0
    /\ \/ mode = "up" /\ mode' = "done"
       \/ mode = "panic" /\ mode' = "crashed"
    /\ UNCHANGED <<configVars, request, level, deepest, code, idAt, panicked, observed, history>>

Next ==
    \/ WithAuthFunc
    \/ WithRateLimiter
    \/ WithTrustProxy
    \/ WithExcludedMethods
    \/ WithDemotedMethods
    \/ RequestID
    \/ EnterPassive
    \/ Auth
    \/ AuthPanics
    \/ RateLimitOff
    \/ RateLimit
    \/ Validation
    \/ Handler
    \/ LeaveLogging
    \/ LeaveOther
    \/ Recover
    \/ Unwind
    \/ Finish

Spec == Init /\ [][Next]_vars

-----------------------------------------------------------------------------
(* Properties *)

Installed(name) == \E i \in DOMAIN chain : chain[i] = name

(* Recovery, recovery.go:18-19, in whatever order the chain is: a panic of   *)
(* the handler, or of any interceptor that Recovery encloses, never reaches  *)
(* grpc.Server; the client gets Internal.                                    *)
PanicContained ==
    /\ Passed("Recovery") => mode # "crashed"
    /\ mode = "done" /\ panicked => code = "Internal"

(* Auth, auth.go:35-59, wherever it is in the chain: if an AuthFunc was      *)
(* configured and the method was not excluded until the RPC had passed Auth, *)
(* an answer of the handler's own (one that no interceptor makes) reaches    *)
(* only a client with an accepted token; neither a Configure of another      *)
(* setting before that, nor one of these two settings after it, opens a gap. *)
HandlerAuthorised ==
    mode = "done" /\ Installed("Auth") /\ guarded /\ code \in HandlerCodes =>
        creds = "good"

(* Logging, internal/server/interceptor/doc.go:46-47, "for every RPC": an    *)
(* RPC that comes as far as Logging leaves exactly one line, with the status *)
(* that the client receives and as an error unless it succeeded or was       *)
(* cancelled; only a panic that no Recovery below it caught unwinds Logging  *)
(* without a line.  An RPC that an outer interceptor refuses leaves none.    *)
LoggedOnce ==
    mode = "done" =>
        IF Passed("Logging") /\ (panicked => PassedTo("Logging", "Recovery"))
        THEN /\ Len(log) = 1
             /\ log[1].code = code
             /\ code \notin {"OK", "Canceled"} => log[1].severity = "Error"
        ELSE log = <<>>

(* RequestID, requestid.go:38-43, Logging and RateLimit: a log line names    *)
(* the request and the peer as everybody else knows them.  Its ID is the one *)
(* of the response header, which is the client's only if the client sent a   *)
(* well-formed one; but it is empty in every chain whose Logging is not      *)
(* inside RequestID, although doc.go:46-47 has Logging log the "request ID   *)
(* ... for every RPC" and lines 93-100 install it so.  A line's peer, like   *)
(* the key that the limiter charged, comes from a proxy header only if       *)
(* trustProxy was set at some moment since the RPC came in, and from the     *)
(* connection only if it was not set at some moment: the two name different  *)
(* peers only if WithTrustProxy came in between.                             *)
LogIdentifies ==
    mode = "done" =>
        LET peers == { PeerKey(t) : t \in trusts }
        IN  /\ Passed("RequestID") => (reply = "uuid" <=> header = "uuid")
            /\ charged # "none" => charged \in peers
            /\ \A n \in DOMAIN log :
                  /\ log[n].id = IF PassedTo("RequestID", "Logging") THEN reply ELSE ""
                  /\ log[n].peer \in peers

-----------------------------------------------------------------------------
(* The inductive strengthening that the proofs rest on. *)

TypeOK ==
    /\ cfg \in [authFunc : BOOLEAN, limiter : BOOLEAN, trustProxy : BOOLEAN]
    /\ excluded \in BOOLEAN
    /\ chain \in Chains
    /\ level \in 0..(Len(chain) + 1)
    /\ deepest \in Levels(chain)
    /\ mode \in {"down", "up", "panic", "done", "crashed"}
    /\ code \in Codes \union {"none"}
    /\ idAt \in [Levels(chain) -> IDs]
    /\ panicked \in BOOLEAN
    /\ guarded \in BOOLEAN
    /\ trusts \subseteq BOOLEAN

(* Where the RPC is, by the way it travels. *)
OnItsWay ==
    /\ mode = "down" => level = deepest /\ ~panicked /\ code = "none"
    /\ mode \in {"up", "panic"} => level < deepest
    /\ mode \in {"done", "crashed"} => level = 0
    /\ mode \in {"panic", "crashed"} => panicked

(* A panic has come through no Recovery, and a recovered one is Internal. *)
PanicInv ==
    /\ mode \in {"panic", "crashed"} =>
          \A i \in DOMAIN chain : level < i /\ i < deepest => chain[i] # "Recovery"
    /\ mode \in {"up", "done"} /\ panicked =>
          /\ code = "Internal"
          /\ \E i \in DOMAIN chain : level < i /\ i < deepest /\ chain[i] = "Recovery"

(* Whoever passed a guarded Auth had a good token, and only an RPC that      *)
(* passed the whole chain has an answer of the handler.                      *)
AuthInv ==
    /\ guarded /\ ~Passed("Auth") => cfg.authFunc /\ ~excluded
    /\ guarded /\ Passed("Auth") => creds = "good"
    /\ code \in HandlerCodes => deepest = Len(chain) + 1

(* Logging's level lies behind an RPC on its way up. *)
Behind(i) == level < i /\ i < deepest /\ chain[i] = "Logging"

Writes(i) == panicked => \E j \in DOMAIN chain : chain[j] = "Recovery" /\ i < j /\ j < deepest

LogInv ==
    /\ mode \in {"down", "panic", "crashed"} => log = <<>>
    /\ log # <<>> =>
          /\ Len(log) = 1 /\ DOMAIN log = {1}
          /\ log[1].code = code
          /\ code \notin {"OK", "Canceled"} => log[1].severity = "Error"
          /\ \E i \in DOMAIN chain : Behind(i) /\ Writes(i)
    /\ mode \in {"up", "done"} =>
          \A i \in DOMAIN chain : Behind(i) /\ Writes(i) => log # <<>>

(* The ID that RequestID stored reaches every level below it, and no other. *)
IDInv ==
    /\ \A i \in DOMAIN chain : chain[i] = "RequestID" /\ i < deepest =>
        /\ reply = EnsureRequestID
        /\ \A k \in Levels(chain) : i < k /\ k <= deepest => idAt[k] = EnsureRequestID
    /\ \A k \in Levels(chain) :
        k <= deepest /\ (\A i \in DOMAIN chain : chain[i] = "RequestID" => k <= i) =>
            idAt[k] = ""

(* All name the peer by a value that trustProxy had under way. *)
PeerInv ==
    /\ cfg.trustProxy \in trusts
    /\ Passed("Logging") => trusted \in trusts
    /\ charged # "none" => \E t \in trusts : charged = PeerKey(t)

LineInv ==
    log # <<>> =>
        /\ log[1].id = IF PassedTo("RequestID", "Logging") THEN EnsureRequestID ELSE ""
        /\ \E t \in trusts : log[1].peer = PeerKey(t)

ChainInv == TypeOK /\ OnItsWay /\ PanicInv /\ AuthInv /\ LogInv /\ IDInv /\ PeerInv /\ LineInv

=====================================
