-------------------------- MODULE InterceptorConfig --------------------------
(***************************************************************************)
(* internal/server/interceptor/config.go and its readers: the package-wide *)
(* configuration, written by Configure under configMu and read by every    *)
(* interceptor of every RPC through getConfig.  getConfig copies the       *)
(* struct under the read lock; the two maps of the copy are the originals, *)
(* which Auth and Logging read after the lock is released.  An RPC passes  *)
(* Logging, Auth and RateLimit, the order of internal/server/doc.go, and   *)
(* Logging again on its way out; each takes a snapshot of its own.         *)
(***************************************************************************)
EXTENDS Integers

CONSTANTS
    Memory,       \* MemoryRateLimiters with a positive rate
    Custom,       \* rate limiters without a cleanup goroutine
    Configurers,  \* goroutines that call Configure
    RPCs,
    Reinstall,    \* the application may install a limiter that was installed before
    MaxConfigures, \* bound: Configure calls in one behaviour
    MaxOptions,   \* bound: options applied in one behaviour
    NoLimiter,    \* a nil RateLimiter
    NoOne         \* configMu has no writer

ASSUME LimitersDistinct == Memory \intersect Custom = {} /\ NoLimiter \notin Memory \union Custom
ASSUME NoOneIsNobody    == NoOne \notin Configurers
ASSUME ReinstallBoolean == Reinstall \in BOOLEAN
ASSUME BoundsNat        == MaxConfigures \in Nat /\ MaxOptions \in Nat

Limiters == Memory \union Custom \union {NoLimiter}

Maps == {"excludedMethods", "demotedMethods"}

VARIABLES
    cfg,        \* defaultConfig without its maps
    methods,    \* methods[m]: the map m of defaultConfig contains the RPCs' method
    writing,    \* the map that a Configure is assigning to, "none" if none
    writer,     \* who holds configMu for writing
    loop,       \* loop[l]: the cleanup goroutine of l: "none", "running", "stopped"
    options,    \* options applied so far
    installed,  \* history: the limiters that were ever installed
    committed,  \* history: the configurations that a Configure left behind
    pc,         \* pc[r]: where RPC r is
    reading,    \* reading[r]: the map that r is looking its method up in, "none" if none
    snap        \* snap[r]: the snapshot that the interceptor at pc[r] took last

configVars == <<cfg, methods, writing, writer, loop, options, installed, committed>>
rpcVars    == <<pc, reading, snap>>
vars       == <<configVars, rpcVars>>

(* What the struct copy of getConfig really copies; gen counts the          *)
(* Configure calls (history).                                               *)
defaultConfig == [gen |-> 0, limiter |-> NoLimiter, authFunc |-> FALSE,
                  trustProxy |-> FALSE, logger |-> FALSE]

(* defaultDemotedMethods: the method of the RPCs may be one of them. *)
Init ==
    /\ cfg = defaultConfig
    /\ \E d \in BOOLEAN : methods = [m \in Maps |-> m = "demotedMethods" /\ d]
    /\ writing = "none"
    /\ writer = NoOne
    /\ loop = [l \in Memory |-> "none"]
    /\ options = 0
    /\ installed = {}
    /\ committed = {defaultConfig}
    /\ pc = [r \in RPCs |-> "Logging"]
    /\ reading = [r \in RPCs |-> "none"]
    /\ snap = [r \in RPCs |-> defaultConfig]

-----------------------------------------------------------------------------
(* Configure: every option is applied under the write lock. *)

ConfigureLock(c) ==
    /\ writer = NoOne
    /\ cfg.gen < MaxConfigures
    /\ writer' = c
    /\ cfg' = [cfg EXCEPT !.gen = @ + 1]
    /\ UNCHANGED <<methods, writing, loop, options, installed, committed, rpcVars>>

ConfigureUnlock(c) ==
    /\ writer = c
    /\ writing = "none"
    /\ writer' = NoOne
    /\ committed' = committed \union {cfg}
    /\ UNCHANGED <<cfg, methods, writing, loop, options, installed, rpcVars>>

(* One option of a Configure by c. *)
Applies(c) ==
    /\ writer = c
    /\ writing = "none"
    /\ options < MaxOptions
    /\ options' = options + 1
    /\ UNCHANGED <<methods, writer, committed, rpcVars>>

(* WithTrustProxy, WithAuthFunc and WithLogger assign a field. *)
Assigns(c, field) ==
    /\ Applies(c)
    /\ \E value \in BOOLEAN : cfg' = [cfg EXCEPT ![field] = value]
    /\ UNCHANGED <<writing, loop, installed>>

WithTrustProxy(c) == Assigns(c, "trustProxy")
WithAuthFunc(c)   == Assigns(c, "authFunc")
WithLogger(c)     == Assigns(c, "logger")

(* Seeded fault: the previous limiter is not stopped. *)
StopPreviousForgotten(loops) == loops

(* stopPreviousLimiter(c.rateLimiter), given the goroutines as they are. *)
StopPrevious(loops) ==
    [l \in Memory |-> IF l = cfg.limiter THEN "stopped" ELSE loops[l]]

Install(l) ==
    /\ cfg' = [cfg EXCEPT !.limiter = l]
    /\ installed' = installed \union {l}
    /\ UNCHANGED writing

(* NewMemoryRateLimiter by the application, for a later WithRateLimiter. *)
NewMemoryRateLimiter(l) ==
    /\ loop[l] = "none"
    /\ loop' = [loop EXCEPT ![l] = "running"]
    /\ UNCHANGED <<cfg, methods, writing, writer, options, installed, committed, rpcVars>>

WithRateLimiter(c, l) ==
    /\ Applies(c)
    /\ l \in Memory => loop[l] # "none"
    /\ l \in installed \ {NoLimiter} => Reinstall
    /\ loop' = StopPrevious(loop)
    /\ Install(l)

(* Seeded fault: the new limiter is stopped, not the previous one. *)
MadeSwapped(l) == [loop EXCEPT ![l] = "stopped"]

(* WithRateLimit stops the previous limiter, then makes one of its own. *)
Made(l) == [StopPrevious(loop) EXCEPT ![l] = "running"]

WithRateLimit(c, l) ==
    /\ Applies(c)
    /\ loop[l] = "none"
    /\ loop' = Made(l)
    /\ Install(l)

(* WithExcludedMethods and WithDemotedMethods assign to a shared map; the    *)
(* assignment takes time.                                                    *)
WithMethodsBegin(c) ==
    /\ Applies(c)
    /\ \E m \in Maps : writing' = m
    /\ UNCHANGED <<cfg, loop, installed>>

WithMethodsEnd(c) ==
    /\ writer = c
    /\ writing # "none"
    /\ writing' = "none"
    /\ methods' = [methods EXCEPT ![writing] = TRUE]
    /\ UNCHANGED <<cfg, writer, loop, options, installed, committed, rpcVars>>

-----------------------------------------------------------------------------
(* The interceptors of RPC r. *)

(* Seeded fault: getConfig does not take the read lock. *)
MayReadUnlocked == TRUE

MayRead == writer = NoOne

(* getConfig by the interceptor that r has come to. *)
GetConfig(r, interceptor, next) ==
    /\ pc[r] = interceptor
    /\ MayRead
    /\ snap' = [snap EXCEPT ![r] = cfg]
    /\ pc' = [pc EXCEPT ![r] = next]
    /\ UNCHANGED <<configVars, reading>>

LoggingSnapshot(r)   == GetConfig(r, "Logging", "Auth")
AuthSnapshot(r)      == GetConfig(r, "Auth", "excluded")
RateLimitSnapshot(r) == GetConfig(r, "RateLimit", "allow")

(* A lookup in a map of the snapshot, which is not a copy: Auth's of the     *)
(* excluded methods, and Logging's of the demoted ones (isDemoted).          *)
LookupBegin(r) ==
    /\ reading[r] = "none"
    /\ \/ pc[r] = "excluded" /\ reading' = [reading EXCEPT ![r] = "excludedMethods"]
       \/ pc[r] = "answered" /\ reading' = [reading EXCEPT ![r] = "demotedMethods"]
    /\ UNCHANGED <<configVars, pc, snap>>

Ends(r, next) ==
    /\ pc' = [pc EXCEPT ![r] = next]
    /\ reading' = [reading EXCEPT ![r] = "none"]
    /\ UNCHANGED <<configVars, snap>>

(* An excluded method passes unseen, and so does any method when the        *)
(* snapshot has no AuthFunc; otherwise the token decides.                   *)
AuthLookupEnd(r) ==
    /\ reading[r] = "excludedMethods"
    /\ \/ Ends(r, "RateLimit")
       \/ ~methods["excludedMethods"] /\ snap[r].authFunc /\ Ends(r, "done")

(* RateLimit refuses or passes.  Only for an answer of the handler that is   *)
(* Canceled does Logging look up whether the method is demoted.              *)
RateLimitAllow(r) ==
    /\ pc[r] = "allow"
    /\ Ends(r, "answered") \/ Ends(r, "done")

LoggingLookupEnd(r) ==
    /\ reading[r] = "demotedMethods"
    /\ Ends(r, "done")

-----------------------------------------------------------------------------
ConfigureStep(c) ==
    \/ ConfigureLock(c)
    \/ ConfigureUnlock(c)
    \/ \E l \in Limiters : WithRateLimiter(c, l)
    \/ \E l \in Memory : WithRateLimit(c, l)
    \/ WithTrustProxy(c)
    \/ WithAuthFunc(c)
    \/ WithLogger(c)
    \/ WithMethodsBegin(c)
    \/ WithMethodsEnd(c)

RPCStep(r) ==
    \/ LoggingSnapshot(r)
    \/ AuthSnapshot(r)
    \/ RateLimitSnapshot(r)
    \/ LookupBegin(r)
    \/ AuthLookupEnd(r)
    \/ RateLimitAllow(r)
    \/ LoggingLookupEnd(r)

Next ==
    \/ \E c \in Configurers : ConfigureStep(c)
    \/ \E l \in Memory : NewMemoryRateLimiter(l)
    \/ \E r \in RPCs : RPCStep(r)

Spec == Init /\ [][Next]_vars

-----------------------------------------------------------------------------
(* Properties *)

(* WithRateLimiter and WithRateLimit, config.go:158-160: "stopped            *)
(* automatically to prevent background goroutine leaks": a limiter that was  *)
(* installed and is not any more has no cleanup goroutine.                   *)
ReplacedIsStopped ==
    \A l \in installed \intersect Memory : cfg.limiter # l => loop[l] = "stopped"

(* peerLimiters, rate_limit.go:41-42: "automatic cleanup of stale entries to *)
(* prevent memory leaks": the limiter in use has a cleanup goroutine.        *)
CurrentIsCleaned ==
    writer = NoOne /\ cfg.limiter \in Memory => loop[cfg.limiter] = "running"

(* getConfig, config.go:41-50: the limiter, the trustProxy flag and the      *)
(* logger that one interceptor uses were configured together; no request     *)
(* sees a Configure half done.                                               *)
SnapshotIsWhole == \A r \in RPCs : snap[r] \in committed

(* internal/server/interceptor/doc.go:37-39: "Configure may be called        *)
(* concurrently with in-flight RPCs without data races": nobody reads a map  *)
(* of methods while it is written.                                           *)
NoMapRace == \A r \in RPCs : reading[r] = "none" \/ reading[r] # writing

-----------------------------------------------------------------------------
(* The inductive strengthening that the proofs rest on. *)

Configs == [gen : Nat, limiter : Limiters, authFunc : BOOLEAN,
            trustProxy : BOOLEAN, logger : BOOLEAN]

TypeOK ==
    /\ cfg \in Configs
    /\ writer \in Configurers \union {NoOne}
    /\ loop \in [Memory -> {"none", "running", "stopped"}]
    /\ installed \subseteq Limiters
    /\ committed \subseteq Configs
    /\ snap \in [RPCs -> Configs]

(* Only a limiter that was installed is ever stopped, and the configured one *)
(* was installed.                                                            *)
StoppedWasInstalled ==
    /\ cfg.limiter # NoLimiter => cfg.limiter \in installed
    /\ \A l \in Memory : loop[l] = "stopped" => l \in installed

(* The goroutine of the configured limiter runs, during a Configure too. *)
CurrentRuns == cfg.limiter \in Memory => loop[cfg.limiter] = "running"

(* Whenever configMu has no writer the configuration is one that a Configure *)
(* left behind.                                                              *)
CommittedWhenFree == writer = NoOne => cfg \in committed

ConfigInv ==
    /\ TypeOK
    /\ ReplacedIsStopped
    /\ StoppedWasInstalled
    /\ ~Reinstall => CurrentRuns
    /\ CommittedWhenFree
    /\ SnapshotIsWhole

=============================================================================
