----------------------- MODULE InterceptorConfigProofs -----------------------
(***************************************************************************)
(* What InterceptorConfig keeps for every set of limiters, configuring     *)
(* goroutines and RPCs, and any number of Configure calls and options.     *)
(***************************************************************************)
EXTENDS InterceptorConfig, TLAPS

USE LimitersDistinct, NoOneIsNobody, ReinstallBoolean

LEMMA ConfigInit == Init => ConfigInv
<1> SUFFICES ASSUME Init PROVE ConfigInv
    OBVIOUS
<1>1. defaultConfig \in Configs
    BY DEF defaultConfig, Configs, Limiters
<1>2. TypeOK
    BY <1>1 DEF Init, TypeOK
<1> QED BY <1>2
    DEF Init, ConfigInv, ReplacedIsStopped, StoppedWasInstalled, CurrentRuns,
        CommittedWhenFree, SnapshotIsWhole, defaultConfig

(* A field other than the limiter changes neither the limiters nor their     *)
(* goroutines.                                                               *)
LEMMA AssignsKeepsInv ==
    ASSUME ConfigInv, NEW c \in Configurers,
           WithTrustProxy(c) \/ WithAuthFunc(c) \/ WithLogger(c)
    PROVE  ConfigInv'
<1>1. /\ cfg' \in Configs
      /\ cfg'.limiter = cfg.limiter
    BY DEF WithTrustProxy, WithAuthFunc, WithLogger, Assigns, ConfigInv, TypeOK, Configs
<1>2. /\ writer = c /\ writer # NoOne
      /\ UNCHANGED <<writer, loop, installed, committed, snap>>
    BY DEF WithTrustProxy, WithAuthFunc, WithLogger, Assigns, Applies, rpcVars
<1> QED BY <1>1, <1>2
    DEF ConfigInv, TypeOK, ReplacedIsStopped, StoppedWasInstalled, CurrentRuns,
        CommittedWhenFree, SnapshotIsWhole

(* Installing l after stopping the previous limiter. *)
LEMMA InstallKeepsInv ==
    ASSUME ConfigInv, NEW c \in Configurers, NEW l \in Limiters,
           writer = c, UNCHANGED <<writer, committed, snap>>,
           Install(l),
           \/ /\ loop' = StopPrevious(loop)
              /\ l \in Memory => loop[l] # "none"
              /\ l \in installed \ {NoLimiter} => Reinstall
           \/ /\ l \in Memory /\ loop[l] = "none"
              /\ loop' = Made(l)
    PROVE  ConfigInv'
<1>1. /\ cfg' \in Configs
      /\ cfg'.limiter = l
      /\ installed' = installed \union {l}
    BY DEF Install, ConfigInv, TypeOK, Configs
<1>2. loop' \in [Memory -> {"none", "running", "stopped"}]
    BY DEF StopPrevious, Made, ConfigInv, TypeOK
<1>3. TypeOK'
    BY <1>1, <1>2 DEF ConfigInv, TypeOK
<1>4. \A k \in Memory : k # l => loop'[k] = IF k = cfg.limiter THEN "stopped" ELSE loop[k]
    BY DEF StopPrevious, Made, ConfigInv, TypeOK
<1>5. ReplacedIsStopped'
    BY <1>1, <1>4 DEF ConfigInv, TypeOK, ReplacedIsStopped
<1>6. StoppedWasInstalled'
    BY <1>1, <1>4 DEF ConfigInv, TypeOK, StoppedWasInstalled
<1>7. ASSUME ~Reinstall PROVE CurrentRuns'
    BY <1>1, <1>7 DEF ConfigInv, TypeOK, StoppedWasInstalled, CurrentRuns, StopPrevious, Made
<1>8. CommittedWhenFree' /\ SnapshotIsWhole'
    BY DEF ConfigInv, CommittedWhenFree, SnapshotIsWhole
<1> QED BY <1>3, <1>5, <1>6, <1>7, <1>8 DEF ConfigInv

LEMMA ConfigureKeepsInv ==
    ASSUME ConfigInv, NEW c \in Configurers, ConfigureStep(c)
    PROVE  ConfigInv'
<1>1. CASE ConfigureLock(c)
  <2>1. cfg' \in Configs /\ cfg'.limiter = cfg.limiter
    BY <1>1 DEF ConfigureLock, ConfigInv, TypeOK, Configs
  <2> QED BY <1>1, <2>1
      DEF ConfigureLock, rpcVars, ConfigInv, TypeOK, ReplacedIsStopped, StoppedWasInstalled,
          CurrentRuns, CommittedWhenFree, SnapshotIsWhole
<1>2. CASE ConfigureUnlock(c)
    BY <1>2 DEF ConfigureUnlock, rpcVars, ConfigInv, TypeOK, ReplacedIsStopped,
                StoppedWasInstalled, CurrentRuns, CommittedWhenFree, SnapshotIsWhole
<1>3. ASSUME NEW l \in Limiters, WithRateLimiter(c, l) PROVE ConfigInv'
    BY <1>3, InstallKeepsInv DEF WithRateLimiter, Applies, rpcVars
<1>4. ASSUME NEW l \in Memory, WithRateLimit(c, l) PROVE ConfigInv'
  <2>1. l \in Limiters BY DEF Limiters
  <2> QED BY <1>4, <2>1, InstallKeepsInv DEF WithRateLimit, Applies, rpcVars
<1>5. CASE WithTrustProxy(c) \/ WithAuthFunc(c) \/ WithLogger(c)
    BY <1>5, AssignsKeepsInv
<1>6. CASE WithMethodsBegin(c) \/ WithMethodsEnd(c)
    BY <1>6 DEF WithMethodsBegin, WithMethodsEnd, Applies, rpcVars, ConfigInv, TypeOK,
                ReplacedIsStopped, StoppedWasInstalled, CurrentRuns, CommittedWhenFree,
                SnapshotIsWhole
<1> QED BY <1>1, <1>2, <1>3, <1>4, <1>5, <1>6 DEF ConfigureStep

LEMMA RPCKeepsInv ==
    ASSUME ConfigInv, NEW r \in RPCs, RPCStep(r)
    PROVE  ConfigInv'
<1>1. UNCHANGED configVars
    BY DEF RPCStep, LoggingSnapshot, AuthSnapshot, RateLimitSnapshot, GetConfig, LookupBegin,
           AuthLookupEnd, RateLimitAllow, LoggingLookupEnd, Ends
<1>2. \/ UNCHANGED snap
      \/ writer = NoOne /\ snap' = [snap EXCEPT ![r] = cfg]
    BY DEF RPCStep, LoggingSnapshot, AuthSnapshot, RateLimitSnapshot, GetConfig, MayRead,
           LookupBegin, AuthLookupEnd, RateLimitAllow, LoggingLookupEnd, Ends
<1>3. snap' \in [RPCs -> Configs] /\ \A q \in RPCs : snap'[q] \in committed
    BY <1>2 DEF ConfigInv, TypeOK, CommittedWhenFree, SnapshotIsWhole
<1> QED BY <1>1, <1>3
    DEF configVars, ConfigInv, TypeOK, ReplacedIsStopped, StoppedWasInstalled, CurrentRuns,
        CommittedWhenFree, SnapshotIsWhole

LEMMA NextKeepsConfigInv == ConfigInv /\ [Next]_vars => ConfigInv'
<1> SUFFICES ASSUME ConfigInv, [Next]_vars PROVE ConfigInv'
    OBVIOUS
<1>1. ASSUME NEW l \in Memory, NewMemoryRateLimiter(l) PROVE ConfigInv'
    BY <1>1 DEF NewMemoryRateLimiter, rpcVars, ConfigInv, TypeOK, ReplacedIsStopped,
                StoppedWasInstalled, CurrentRuns, CommittedWhenFree, SnapshotIsWhole
<1>2. CASE UNCHANGED vars
    BY <1>2 DEF vars, configVars, rpcVars, ConfigInv, TypeOK, ReplacedIsStopped,
                StoppedWasInstalled, CurrentRuns, CommittedWhenFree, SnapshotIsWhole
<1> QED BY <1>1, <1>2, ConfigureKeepsInv, RPCKeepsInv DEF Next

LEMMA ConfigInvHolds == Spec => []ConfigInv
BY ConfigInit, NextKeepsConfigInv, PTL DEF Spec

(* WithRateLimiter and WithRateLimit, config.go:158-160: however Configures  *)
(* of several goroutines follow each other, and even when the application    *)
(* installs a limiter again, no replaced limiter keeps its goroutine.        *)
THEOREM ReplacedLimiterStops == Spec => []ReplacedIsStopped
<1>1. ConfigInv => ReplacedIsStopped
    BY DEF ConfigInv
<1> QED BY <1>1, ConfigInvHolds, PTL

(* peerLimiters, rate_limit.go:41-42: as long as the application never       *)
(* installs a limiter twice, the limiter in use has its cleanup goroutine.   *)
THEOREM CurrentLimiterRuns == ~Reinstall => (Spec => []CurrentIsCleaned)
<1> SUFFICES ASSUME ~Reinstall PROVE Spec => []CurrentIsCleaned
    OBVIOUS
<1>1. ConfigInv => CurrentIsCleaned
    BY DEF ConfigInv, CurrentRuns, CurrentIsCleaned
<1> QED BY <1>1, ConfigInvHolds, PTL

(* getConfig, config.go:41-50: no interceptor of any RPC works with a        *)
(* Configure half done.                                                      *)
THEOREM SnapshotsAreWhole == Spec => []SnapshotIsWhole
<1>1. ConfigInv => SnapshotIsWhole
    BY DEF ConfigInv
<1> QED BY <1>1, ConfigInvHolds, PTL

=============================================================================
