-------------------------- MODULE ServerChainProofs --------------------------
(***************************************************************************)
(* What ServerChain keeps for every chain in which no interceptor is       *)
(* installed twice, in whatever order, and any number of Configure calls   *)
(* under way.                                                              *)
(***************************************************************************)
EXTENDS ServerChain, TLAPS

(* A chain is a sequence of interceptors that differ from each other. *)
LEMMA ChainFacts ==
    ASSUME chain \in Chains
    PROVE  /\ Len(chain) \in Nat
           /\ DOMAIN chain = 1..Len(chain)
           /\ \A i \in DOMAIN chain : chain[i] \in Interceptors
           /\ \A i, j \in DOMAIN chain : chain[i] = chain[j] => i = j
           /\ Levels(chain) = 1..(Len(chain) + 1)
BY ChainsKnown DEF IsInjective, Levels

LEMMA ChainInit == Init => ChainInv
<1> SUFFICES ASSUME Init PROVE ChainInv
    OBVIOUS
<1>1. chain \in Chains
    BY DEF Init
<1>2. /\ Len(chain) \in Nat /\ DOMAIN chain = 1..Len(chain)
      /\ Levels(chain) = 1..(Len(chain) + 1)
    BY <1>1, ChainFacts
<1>3. panicked \in BOOLEAN /\ guarded \in BOOLEAN
    BY Zenon DEF Init
<1>4. /\ cfg \in [authFunc : BOOLEAN, limiter : BOOLEAN, trustProxy : BOOLEAN]
      /\ excluded \in BOOLEAN
      /\ level = 1 /\ deepest = 1 /\ mode = "down" /\ code = "none" /\ log = <<>>
      /\ charged = "none" /\ ~panicked /\ trusts = {cfg.trustProxy}
    BY DEF Init
<1>5. idAt \in [Levels(chain) -> IDs]
    BY DEF Init, IDs
<1>6. TypeOK
    BY <1>1, <1>2, <1>3, <1>4, <1>5 DEF TypeOK
<1>7. \A i \in DOMAIN chain : ~(i < deepest)
    BY <1>2, <1>4
<1>8. guarded => cfg.authFunc /\ ~excluded
    BY Zenon DEF Init
<1>9. OnItsWay /\ PanicInv /\ LogInv /\ LineInv
    BY <1>4 DEF OnItsWay, PanicInv, LogInv, LineInv
<1>10. AuthInv /\ PeerInv
    BY <1>4, <1>7, <1>8 DEF AuthInv, PeerInv, Passed, HandlerCodes
<1>11. IDInv
    BY <1>4, <1>7 DEF Init, IDInv
<1> QED BY <1>6, <1>9, <1>10, <1>11 DEF ChainInv

-----------------------------------------------------------------------------
(* Configure under way. *)

LEMMA ConfigureKeepsInv ==
    ASSUME ChainInv,
           \/ WithAuthFunc \/ WithRateLimiter \/ WithTrustProxy
           \/ WithExcludedMethods \/ WithDemotedMethods
    PROVE  ChainInv'
<1>1. /\ UNCHANGED <<request, control, observed>>
      /\ guarded' = (guarded /\ (Passed("Auth") \/ (cfg'.authFunc /\ ~excluded')))
      /\ trusts' = trusts \union {cfg'.trustProxy}
    BY DEF WithAuthFunc, WithRateLimiter, WithTrustProxy, WithExcludedMethods,
           WithDemotedMethods, Assigns, Configure
<1>2. cfg' \in [authFunc : BOOLEAN, limiter : BOOLEAN, trustProxy : BOOLEAN]
    BY DEF WithAuthFunc, WithRateLimiter, WithTrustProxy, WithExcludedMethods,
           WithDemotedMethods, Assigns, ChainInv, TypeOK
<1>3. excluded' \in BOOLEAN
    BY Zenon DEF WithAuthFunc, WithRateLimiter, WithTrustProxy, WithExcludedMethods,
                 WithDemotedMethods, Assigns, ChainInv, TypeOK
<1>4. guarded' \in BOOLEAN
    BY <1>1, Zenon
<1>5. TypeOK'
    BY <1>1, <1>2, <1>3, <1>4 DEF request, control, ChainInv, TypeOK, Levels
<1>6. OnItsWay' /\ PanicInv' /\ LogInv' /\ IDInv'
    BY <1>1 DEF request, control, observed, ChainInv, OnItsWay, PanicInv, LogInv, IDInv, Behind,
                Writes, EnsureRequestID, Levels
<1>7. AuthInv'
  <2>1. Passed("Auth")' <=> Passed("Auth")
    BY <1>1 DEF request, control, Passed
  <2>2. guarded' => guarded /\ (Passed("Auth") \/ (cfg'.authFunc /\ ~excluded'))
    BY <1>1, Zenon
  <2> QED BY <1>1, <2>1, <2>2 DEF request, control, ChainInv, AuthInv
<1>8. \A t \in trusts : t \in trusts' /\ PeerKey(t)' = PeerKey(t)
    BY <1>1 DEF request, PeerKey
<1>9. PeerInv'
    BY <1>1, <1>8 DEF request, control, observed, ChainInv, PeerInv, Passed
<1>10. LineInv'
    BY <1>1, <1>8 DEF request, control, observed, ChainInv, LineInv, PassedTo, EnsureRequestID
<1> QED BY <1>5, <1>6, <1>7, <1>9, <1>10 DEF ChainInv

-----------------------------------------------------------------------------
(* The way down. *)

(* An interceptor calls the next level. *)
LEMMA DescendKeepsInv ==
    ASSUME ChainInv, mode = "down", level <= Len(chain), NEW id, Proceed(id),
           UNCHANGED <<configVars, request, log, history>>,
           chain[level] = "Auth" => AuthPasses,
           IF chain[level] = "RequestID"
           THEN id = EnsureRequestID /\ reply' = EnsureRequestID
           ELSE id = idAt[level] /\ reply' = reply,
           trusted' = IF chain[level] = "Logging" THEN cfg.trustProxy ELSE trusted,
           charged' \in {charged, PeerKey(cfg.trustProxy)}
    PROVE  ChainInv'
<1>1. /\ Len(chain) \in Nat /\ DOMAIN chain = 1..Len(chain)
      /\ Levels(chain) = 1..(Len(chain) + 1)
    BY ChainFacts DEF ChainInv, TypeOK
<1>2. /\ level = deepest /\ level \in DOMAIN chain /\ ~panicked /\ code = "none" /\ log = <<>>
    BY <1>1 DEF ChainInv, TypeOK, OnItsWay, LogInv
<1>3. /\ level' = level + 1 /\ deepest' = level + 1
      /\ idAt' = [i \in Levels(chain) |-> IF i > level THEN id ELSE idAt[i]]
      /\ UNCHANGED <<mode, code, panicked>>
      /\ UNCHANGED <<cfg, excluded, chain, header, creds, origin, log, guarded, trusts>>
    BY DEF Proceed, configVars, request, history
<1>4. id \in IDs
    BY <1>1, <1>2 DEF ChainInv, TypeOK, EnsureRequestID, IDs
<1>5. TypeOK'
  <2>1. idAt' \in [Levels(chain) -> IDs]
    BY <1>3, <1>4 DEF ChainInv, TypeOK
  <2> QED BY <1>1, <1>2, <1>3, <2>1 DEF ChainInv, TypeOK, Levels
<1>6. OnItsWay' /\ PanicInv' /\ LogInv' /\ LineInv'
    BY <1>2, <1>3 DEF OnItsWay, PanicInv, LogInv, LineInv
<1>7. \A i \in DOMAIN chain : i < deepest' => i < deepest \/ i = level
    BY <1>1, <1>2, <1>3
<1>8. AuthInv'
    BY <1>2, <1>3, <1>7 DEF ChainInv, AuthInv, Passed, AuthPasses, HandlerCodes
<1>9. IDInv'
  <2>1. ASSUME NEW i \in DOMAIN chain, chain[i] = "RequestID", i < deepest'
        PROVE  /\ reply' = EnsureRequestID
               /\ \A k \in Levels(chain) :
                     i < k /\ k <= deepest' => idAt'[k] = EnsureRequestID
    <3>1. CASE i = level
      BY <1>1, <1>2, <1>3, <2>1, <3>1
    <3>2. CASE i < deepest
      <4>1. chain[level] # "RequestID"
        BY <1>2, <2>1, <3>2, ChainFacts DEF ChainInv, TypeOK
      <4>2. /\ reply = EnsureRequestID
            /\ \A k \in Levels(chain) : i < k /\ k <= deepest => idAt[k] = EnsureRequestID
        BY <2>1, <3>2 DEF ChainInv, IDInv
      <4> QED BY <1>1, <1>2, <1>3, <3>2, <4>1, <4>2
    <3> QED BY <1>7, <2>1, <3>1, <3>2
  <2>2. ASSUME NEW k \in Levels(chain), k <= deepest',
               \A i \in DOMAIN chain : chain[i] = "RequestID" => k <= i
        PROVE  idAt'[k] = ""
    <3>0. idAt'[k] = IF k > level THEN id ELSE idAt[k]
      BY <1>3, Zenon
    <3>1. CASE ~(k > level)
      <4>1. idAt[k] = ""
        <5>1. k <= deepest
          BY <1>1, <1>2, <3>1
        <5> QED BY <2>2, <5>1, Zenon DEF ChainInv, IDInv
      <4> QED BY <3>0, <3>1, <4>1, Zenon
    <3>2. CASE k > level
      <4>1. k = level + 1
        BY <1>1, <1>2, <1>3, <2>2, <3>2
      <4>2. chain[level] # "RequestID"
        BY <1>1, <1>2, <2>2, <4>1
      <4>3. idAt[level] = ""
        <5>1. level \in Levels(chain) /\ level <= deepest
          BY <1>1, <1>2
        <5>2. \A i \in DOMAIN chain : chain[i] = "RequestID" => level <= i
          BY <1>1, <1>2, <2>2, <4>1
        <5> QED BY <5>1, <5>2 DEF ChainInv, IDInv
      <4> QED BY <3>0, <3>2, <4>2, <4>3
    <3> QED BY <3>1, <3>2, Zenon
  <2> QED BY <1>3, <2>1, <2>2 DEF IDInv, EnsureRequestID, Levels
<1>10. PeerInv'
  <2>1. Passed("Logging")' => Passed("Logging") \/ chain[level] = "Logging"
    BY <1>3, <1>7 DEF Passed
  <2>2. \A t \in trusts : PeerKey(t)' = PeerKey(t)
    BY <1>3 DEF PeerKey
  <2>3. cfg.trustProxy \in trusts /\ (Passed("Logging") => trusted \in trusts)
    BY DEF ChainInv, PeerInv
  <2>4. Passed("Logging")' => trusted' \in trusts'
    BY <1>3, <2>1, <2>3
  <2>5. charged' # "none" => \E t \in trusts' : charged' = PeerKey(t)'
    BY <1>3, <2>2, <2>3 DEF ChainInv, PeerInv
  <2> QED BY <1>3, <2>3, <2>4, <2>5 DEF PeerInv
<1> QED BY <1>5, <1>6, <1>8, <1>9, <1>10 DEF ChainInv

(* A level answers by itself, or panics. *)
LEMMA TurnKeepsInv ==
    ASSUME ChainInv, mode = "down", level > 0,
           Panic \/ \E err \in Codes : /\ Refuse(err)
                                       /\ err \in HandlerCodes => level = Len(chain) + 1,
           UNCHANGED <<configVars, request, reply, trusted, log, history>>,
           charged' \in {charged, PeerKey(cfg.trustProxy)}
    PROVE  ChainInv'
<1>1. /\ Len(chain) \in Nat /\ DOMAIN chain = 1..Len(chain)
      /\ Levels(chain) = 1..(Len(chain) + 1)
    BY ChainFacts DEF ChainInv, TypeOK
<1>2. /\ level = deepest /\ deepest \in Int /\ ~panicked /\ code = "none" /\ log = <<>>
    BY <1>1 DEF ChainInv, TypeOK, OnItsWay, LogInv
<1>3. /\ level' = level - 1
      /\ UNCHANGED <<deepest, idAt>>
      /\ UNCHANGED <<cfg, excluded, chain, header, creds, origin, reply, trusted, log, guarded, trusts>>
    BY DEF Panic, Refuse, configVars, request, history
<1>4. /\ mode' = "panic" /\ panicked' = TRUE /\ code' = code
      \/ /\ mode' = "up" /\ panicked' = panicked /\ code' \in Codes
         /\ code' \in HandlerCodes => level = Len(chain) + 1
    BY DEF Panic, Refuse
<1>5. panicked' \in BOOLEAN
    BY <1>4, Zenon DEF ChainInv, TypeOK
<1>6. TypeOK'
    BY <1>1, <1>2, <1>3, <1>4, <1>5 DEF ChainInv, TypeOK, Levels
<1>7. \A i \in DOMAIN chain : ~(level' < i /\ i < deepest)
    BY <1>1, <1>2, <1>3
<1>8. OnItsWay' /\ PanicInv' /\ LogInv' /\ LineInv'
    BY <1>2, <1>3, <1>4, <1>7 DEF OnItsWay, PanicInv, LogInv, LineInv, Behind
<1>9. AuthInv'
    BY <1>2, <1>3, <1>4 DEF ChainInv, AuthInv, Passed
<1>10. IDInv'
    BY <1>3 DEF ChainInv, IDInv, EnsureRequestID, Levels
<1>11. PeerInv'
  <2>1. \A t \in trusts : PeerKey(t)' = PeerKey(t)
    BY <1>3 DEF PeerKey
  <2>2. cfg.trustProxy \in trusts /\ (Passed("Logging") => trusted \in trusts)
    BY DEF ChainInv, PeerInv
  <2>3. charged' # "none" => \E t \in trusts' : charged' = PeerKey(t)'
    BY <1>3, <2>1, <2>2 DEF ChainInv, PeerInv
  <2> QED BY <1>3, <2>2, <2>3 DEF PeerInv, Passed
<1> QED BY <1>6, <1>8, <1>9, <1>10, <1>11 DEF ChainInv

LEMMA DownKeepsInv ==
    ASSUME ChainInv,
           \/ RequestID \/ EnterPassive \/ Auth \/ AuthPanics
           \/ RateLimitOff \/ RateLimit \/ Validation \/ Handler
    PROVE  ChainInv'
<1>1. level > 0 \/ mode # "down"
    BY ChainFacts DEF ChainInv, TypeOK, OnItsWay
<1>2. CASE RequestID
    BY <1>2, DescendKeepsInv DEF RequestID, Entering, Stored
<1>3. CASE EnterPassive
    BY <1>3, DescendKeepsInv DEF EnterPassive, Entering
<1>4. CASE Auth
  <2>1. CASE AuthPasses
    BY <1>4, <2>1, DescendKeepsInv DEF Auth, Entering, observed
  <2>2. CASE ~AuthPasses
    BY <1>1, <1>4, <2>2, TurnKeepsInv DEF Auth, Entering, observed, Codes, HandlerCodes
  <2> QED BY <2>1, <2>2
<1>5. CASE AuthPanics
    BY <1>1, <1>5, TurnKeepsInv DEF AuthPanics, Entering, observed
<1>6. CASE RateLimitOff
    BY <1>6, DescendKeepsInv DEF RateLimitOff, Entering, observed
<1>7. CASE RateLimit
  <2>1. CASE Proceed(idAt[level])
    BY <1>7, <2>1, DescendKeepsInv DEF RateLimit, Entering
  <2>2. CASE Refuse("ResourceExhausted") \/ Refuse("Internal") \/ Panic
    BY <1>1, <1>7, <2>2, TurnKeepsInv DEF RateLimit, Entering, Codes, HandlerCodes
  <2> QED BY <1>7, <2>1, <2>2 DEF RateLimit
<1>8. CASE Validation
  <2>1. CASE Proceed(idAt[level])
    BY <1>8, <2>1, DescendKeepsInv DEF Validation, Entering, observed
  <2>2. CASE Refuse("InvalidArgument") \/ Panic
    BY <1>1, <1>8, <2>2, TurnKeepsInv DEF Validation, Entering, observed, Codes, HandlerCodes
  <2> QED BY <1>8, <2>1, <2>2 DEF Validation
<1>9. CASE Handler
    BY <1>1, <1>9, TurnKeepsInv DEF Handler, observed, Codes
<1> QED BY <1>2, <1>3, <1>4, <1>5, <1>6, <1>7, <1>8, <1>9

-----------------------------------------------------------------------------
(* The way up. *)

(* What a step between two levels on the way up leaves alone. *)
LEMMA UpwardsFacts ==
    ASSUME ChainInv, Upwards, mode \in {"up", "panic"}, level > 0
    PROVE  /\ Len(chain) \in Nat /\ DOMAIN chain = 1..Len(chain)
           /\ level \in DOMAIN chain /\ level < deepest /\ deepest \in Int
           /\ level' = level - 1
           /\ UNCHANGED <<cfg, excluded, chain, header, creds, origin, deepest, mode, code, idAt,
                          panicked, reply, trusted, charged, guarded, trusts>>
           /\ TypeOK' /\ OnItsWay' /\ AuthInv' /\ IDInv' /\ PeerInv'
<1>1. /\ Len(chain) \in Nat /\ DOMAIN chain = 1..Len(chain)
      /\ Levels(chain) = 1..(Len(chain) + 1)
    BY ChainFacts DEF ChainInv, TypeOK
<1>2. level \in DOMAIN chain /\ level < deepest /\ deepest \in Int
    BY <1>1 DEF ChainInv, TypeOK, OnItsWay
<1>3. /\ level' = level - 1
      /\ UNCHANGED <<cfg, excluded, chain, header, creds, origin, deepest, mode, code, idAt,
                     panicked, reply, trusted, charged, guarded, trusts>>
    BY DEF Upwards, configVars, request, history
<1>4. TypeOK' /\ OnItsWay'
    BY <1>1, <1>2, <1>3 DEF ChainInv, TypeOK, OnItsWay, Levels
<1>5. AuthInv' /\ IDInv' /\ PeerInv'
    BY <1>3 DEF ChainInv, AuthInv, IDInv, PeerInv, Passed, PeerKey, EnsureRequestID, Levels
<1> QED BY <1>1, <1>2, <1>3, <1>4, <1>5

LEMMA LeaveLoggingKeepsInv ==
    ASSUME ChainInv, LeaveLogging
    PROVE  ChainInv'
<1>1. /\ mode = "up" /\ level > 0 /\ chain[level] = "Logging" /\ Upwards
      /\ log' = Append(log, Line)
    BY DEF LeaveLogging, Leaving, Logged
<1>2. /\ Len(chain) \in Nat /\ DOMAIN chain = 1..Len(chain)
      /\ level \in DOMAIN chain /\ level < deepest /\ deepest \in Int
      /\ level' = level - 1
      /\ UNCHANGED <<cfg, excluded, chain, header, creds, origin, deepest, mode, code, idAt,
                     panicked, reply, trusted, charged, guarded, trusts>>
      /\ TypeOK' /\ OnItsWay' /\ AuthInv' /\ IDInv' /\ PeerInv'
    BY <1>1, UpwardsFacts
<1>3. \A i \in DOMAIN chain : chain[i] = "Logging" => i = level
    BY <1>1, <1>2, ChainFacts DEF ChainInv, TypeOK
<1>4. log = <<>>
    BY <1>2, <1>3 DEF ChainInv, LogInv, Behind
<1>5. log' = <<Line>> /\ log' # <<>> /\ Len(log') = 1 /\ DOMAIN log' = {1} /\ log'[1] = Line
    BY <1>1, <1>4
<1>6. PanicInv'
    BY <1>1, <1>2 DEF ChainInv, PanicInv
<1>7. LogInv'
  <2>1. Line.code = code /\ (code \notin {"OK", "Canceled"} => Line.severity = "Error")
    BY DEF Line, Severity
  <2>2. \A i \in DOMAIN chain : i = level => (Behind(i) /\ Writes(i))'
    BY <1>1, <1>2 DEF ChainInv, PanicInv, Behind, Writes
  <2>3. \E i \in DOMAIN chain' : (Behind(i) /\ Writes(i))'
    BY <1>2, <2>2
  <2> QED BY <1>1, <1>2, <1>5, <2>1, <2>3 DEF LogInv
<1>8. LineInv'
  <2>1. Passed("Logging") /\ level \in Levels(chain)
    BY <1>1, <1>2 DEF Passed, Levels
  <2>2. PassedTo("RequestID", "Logging")' <=> PassedTo("RequestID", "Logging")
    BY <1>2 DEF PassedTo
  <2>3. CASE PassedTo("RequestID", "Logging")
    <3>1. idAt[level] = EnsureRequestID
      <4>1. PICK i \in DOMAIN chain : chain[i] = "RequestID" /\ i < level
        BY <1>2, <1>3, <2>3 DEF PassedTo
      <4>2. i < deepest
        BY <1>2, <4>1
      <4>3. \A k \in Levels(chain) : i < k /\ k <= deepest => idAt[k] = EnsureRequestID
        BY <4>1, <4>2, Zenon DEF ChainInv, IDInv
      <4>4. level <= deepest
        BY <1>2
      <4> QED BY <2>1, <4>1, <4>3, <4>4, Zenon
    <3> QED BY <1>2, <1>5, <2>1, <2>2, <2>3, <3>1 DEF ChainInv, PeerInv, LineInv, Line, PeerKey,
                                                     EnsureRequestID
  <2>4. CASE ~PassedTo("RequestID", "Logging")
    <3>1. \A i \in DOMAIN chain : chain[i] = "RequestID" => level <= i
      BY <1>1, <1>2, <2>4 DEF PassedTo
    <3>2. idAt[level] = ""
      <4>1. level <= deepest
        BY <1>2
      <4> QED BY <2>1, <3>1, <4>1 DEF ChainInv, IDInv
    <3> QED BY <1>2, <1>5, <2>1, <2>2, <2>4, <3>2 DEF ChainInv, PeerInv, LineInv, Line, PeerKey
  <2> QED BY <2>3, <2>4
<1> QED BY <1>2, <1>6, <1>7, <1>8 DEF ChainInv

LEMMA PassUpKeepsInv ==
    ASSUME ChainInv, LeaveOther \/ Unwind
    PROVE  ChainInv'
<1>1. /\ Upwards /\ level > 0 /\ log' = log
      /\ \/ mode = "up" /\ chain[level] # "Logging"
         \/ mode = "panic" /\ chain[level] # "Recovery"
    BY DEF LeaveOther, Unwind
<1>2. /\ Len(chain) \in Nat /\ DOMAIN chain = 1..Len(chain)
      /\ level \in DOMAIN chain /\ level < deepest /\ deepest \in Int
      /\ level' = level - 1
      /\ UNCHANGED <<cfg, excluded, chain, header, creds, origin, deepest, mode, code, idAt,
                     panicked, reply, trusted, charged, guarded, trusts>>
      /\ TypeOK' /\ OnItsWay' /\ AuthInv' /\ IDInv' /\ PeerInv'
    BY <1>1, UpwardsFacts
<1>3. \A i \in DOMAIN chain : (level' < i) <=> (level < i \/ i = level)
    BY <1>2
<1>4. PanicInv'
    BY <1>1, <1>2, <1>3 DEF ChainInv, PanicInv
<1>5. \A i \in DOMAIN chain : Writes(i)' <=> Writes(i)
    BY <1>2 DEF Writes
<1>6. /\ \A i \in DOMAIN chain : Behind(i) => Behind(i)'
      /\ mode = "up" => \A i \in DOMAIN chain : Behind(i)' => Behind(i)
    BY <1>1, <1>2, <1>3 DEF Behind
<1>7. LogInv'
    BY <1>1, <1>2, <1>5, <1>6 DEF ChainInv, OnItsWay, LogInv
<1>8. LineInv'
    BY <1>1, <1>2 DEF ChainInv, LineInv, PassedTo, EnsureRequestID, PeerKey
<1> QED BY <1>2, <1>4, <1>7, <1>8 DEF ChainInv

LEMMA RecoverKeepsInv ==
    ASSUME ChainInv, Recover
    PROVE  ChainInv'
<1>1. /\ mode = "panic" /\ level > 0 /\ chain[level] = "Recovery"
      /\ level' = level - 1 /\ mode' = "up" /\ code' = "Internal"
      /\ UNCHANGED <<deepest, idAt, panicked>>
      /\ UNCHANGED <<cfg, excluded, chain, header, creds, origin, reply, trusted, charged, log,
                     guarded, trusts>>
    BY DEF Recover, Leaving, Refuse, Recovered, configVars, request, observed, history
<1>2. /\ Len(chain) \in Nat /\ DOMAIN chain = 1..Len(chain)
      /\ Levels(chain) = 1..(Len(chain) + 1)
    BY ChainFacts DEF ChainInv, TypeOK
<1>3. level \in DOMAIN chain /\ level < deepest /\ deepest \in Int /\ panicked /\ log = <<>>
    BY <1>1, <1>2 DEF ChainInv, TypeOK, OnItsWay, LogInv
<1>4. TypeOK' /\ OnItsWay'
    BY <1>1, <1>2, <1>3 DEF ChainInv, TypeOK, OnItsWay, Levels, Codes
<1>5. AuthInv' /\ IDInv' /\ PeerInv'
    BY <1>1 DEF ChainInv, AuthInv, IDInv, PeerInv, Passed, PeerKey, EnsureRequestID, Levels,
                HandlerCodes
<1>6. PanicInv'
    BY <1>1, <1>2, <1>3 DEF PanicInv
<1>7. \A i \in DOMAIN chain : chain[i] = "Recovery" => i = level
    BY <1>1, <1>3, ChainFacts DEF ChainInv, TypeOK
<1>8. \A i \in DOMAIN chain : Behind(i)' => level < i
    BY <1>1, <1>2, <1>3 DEF Behind
<1>9. \A i \in DOMAIN chain : level < i => ~Writes(i)'
    BY <1>1, <1>2, <1>3, <1>7 DEF Writes
<1>10. LogInv' /\ LineInv'
    BY <1>1, <1>3, <1>8, <1>9 DEF LogInv, LineInv
<1> QED BY <1>4, <1>5, <1>6, <1>10 DEF ChainInv

LEMMA FinishKeepsInv ==
    ASSUME ChainInv, Finish
    PROVE  ChainInv'
<1>1. /\ level = 0 /\ level' = level
      /\ \/ mode = "up" /\ mode' = "done"
         \/ mode = "panic" /\ mode' = "crashed"
      /\ UNCHANGED <<deepest, code, idAt, panicked>>
      /\ UNCHANGED <<cfg, excluded, chain, header, creds, origin, reply, trusted, charged, log,
                     guarded, trusts>>
    BY DEF Finish, configVars, request, observed, history
<1>2. TypeOK' /\ OnItsWay'
    BY <1>1 DEF ChainInv, TypeOK, OnItsWay, Levels
<1>3. PanicInv' /\ LogInv'
    BY <1>1 DEF ChainInv, PanicInv, LogInv, Behind, Writes
<1>4. AuthInv' /\ IDInv' /\ PeerInv' /\ LineInv'
    BY <1>1 DEF ChainInv, AuthInv, IDInv, PeerInv, LineInv, Passed, PassedTo, PeerKey,
                EnsureRequestID, Levels
<1> QED BY <1>2, <1>3, <1>4 DEF ChainInv

LEMMA NextKeepsChainInv == ChainInv /\ [Next]_vars => ChainInv'
<1> SUFFICES ASSUME ChainInv, [Next]_vars PROVE ChainInv'
    OBVIOUS
<1>1. CASE UNCHANGED vars
  <2>1. /\ UNCHANGED <<level, deepest, mode, code, idAt, panicked>>
        /\ UNCHANGED <<cfg, excluded, chain, header, creds, origin, reply, trusted, charged, log,
                       guarded, trusts>>
    BY <1>1 DEF vars, configVars, request, control, observed, history
  <2>2. TypeOK' /\ OnItsWay' /\ PanicInv' /\ LogInv'
    BY <2>1 DEF ChainInv, TypeOK, OnItsWay, PanicInv, LogInv, Behind, Writes, Levels
  <2>3. AuthInv' /\ IDInv' /\ PeerInv' /\ LineInv'
    BY <2>1 DEF ChainInv, AuthInv, IDInv, PeerInv, LineInv, Passed, PassedTo, PeerKey,
                EnsureRequestID, Levels
  <2> QED BY <2>2, <2>3 DEF ChainInv
<1> QED BY <1>1, ConfigureKeepsInv, DownKeepsInv, LeaveLoggingKeepsInv, PassUpKeepsInv,
           RecoverKeepsInv, FinishKeepsInv
    DEF Next

LEMMA ChainInvHolds == Spec => []ChainInv
BY ChainInit, NextKeepsChainInv, PTL DEF Spec

-----------------------------------------------------------------------------

(* Recovery, recovery.go:18-19: in a chain of any length and order, no panic *)
(* below Recovery reaches grpc.Server, and the client gets Internal.         *)
THEOREM PanicsAreContained == Spec => []PanicContained
<1>1. ChainInv => PanicContained
    BY ChainFacts
       DEF ChainInv, TypeOK, OnItsWay, PanicInv, PanicContained, Passed
<1> QED BY <1>1, ChainInvHolds, PTL

(* Auth, auth.go:35-59: wherever Auth is in the chain and whatever is        *)
(* configured under way, the handler's own answer goes to nobody without an  *)
(* accepted token if the method was guarded until the RPC had passed Auth.   *)
THEOREM AnswersAreAuthorised == Spec => []HandlerAuthorised
<1>1. ChainInv => HandlerAuthorised
  <2> SUFFICES ASSUME ChainInv, Installed("Auth"), guarded, code \in HandlerCodes
               PROVE  creds = "good"
      BY DEF HandlerAuthorised
  <2>1. Passed("Auth")
    BY ChainFacts DEF ChainInv, TypeOK, AuthInv, Installed, Passed
  <2> QED BY <2>1 DEF ChainInv, AuthInv
<1> QED BY <1>1, ChainInvHolds, PTL

(* Logging, internal/server/interceptor/doc.go:46-47: an RPC that comes as   *)
(* far as Logging leaves one line with the client's status, except when a    *)
(* panic unwinds Logging; any other RPC leaves none.                         *)
THEOREM LoggedExactlyOnce == Spec => []LoggedOnce
<1>1. ChainInv => LoggedOnce
  <2> SUFFICES ASSUME ChainInv, mode = "done"
               PROVE  IF Passed("Logging") /\ (panicked => PassedTo("Logging", "Recovery"))
                      THEN /\ Len(log) = 1
                           /\ log[1].code = code
                           /\ code \notin {"OK", "Canceled"} => log[1].severity = "Error"
                      ELSE log = <<>>
      BY DEF LoggedOnce
  <2>1. /\ DOMAIN chain = 1..Len(chain) /\ Len(chain) \in Nat /\ level = 0
        /\ \A i, j \in DOMAIN chain : chain[i] = chain[j] => i = j
    BY ChainFacts DEF ChainInv, TypeOK, OnItsWay
  <2>2. (Passed("Logging") /\ (panicked => PassedTo("Logging", "Recovery")))
           <=> \E i \in DOMAIN chain : Behind(i) /\ Writes(i)
    BY <2>1 DEF Passed, PassedTo, Behind, Writes
  <2> QED BY <2>2 DEF ChainInv, LogInv
<1> QED BY <1>1, ChainInvHolds, PTL

(* RequestID, Logging and RateLimit: a log line names the request by the ID  *)
(* that the client gets back if Logging is inside RequestID, and by none     *)
(* otherwise; it names the peer, and the limiter charges it, by a value that *)
(* trustProxy had while the RPC was under way.                               *)
THEOREM LinesIdentify == Spec => []LogIdentifies
<1>1. ChainInv => LogIdentifies
  <2> SUFFICES ASSUME ChainInv, mode = "done"
               PROVE  /\ Passed("RequestID") => (reply = "uuid" <=> header = "uuid")
                      /\ charged # "none" => \E t \in trusts : charged = PeerKey(t)
                      /\ \A n \in DOMAIN log :
                            /\ log[n].id =
                                  IF PassedTo("RequestID", "Logging") THEN reply ELSE ""
                            /\ \E t \in trusts : log[n].peer = PeerKey(t)
      BY DEF LogIdentifies
  <2>1. Passed("RequestID") => reply = EnsureRequestID
    BY DEF ChainInv, IDInv, Passed
  <2>2. PassedTo("RequestID", "Logging") => Passed("RequestID")
    BY ChainFacts DEF ChainInv, TypeOK, PassedTo, Passed
  <2>3. log = <<>> \/ (log # <<>> /\ DOMAIN log = {1})
    BY DEF ChainInv, LogInv
  <2>4. charged # "none" => \E t \in trusts : charged = PeerKey(t)
    BY DEF ChainInv, PeerInv
  <2>5. log # <<>> =>
          /\ log[1].id = IF PassedTo("RequestID", "Logging") THEN EnsureRequestID ELSE ""
          /\ \E t \in trusts : log[1].peer = PeerKey(t)
    BY DEF ChainInv, LineInv
  <2>6. Passed("RequestID") => (reply = "uuid" <=> header = "uuid")
    BY <2>1 DEF EnsureRequestID
  <2>7. ASSUME NEW n \in DOMAIN log
        PROVE  /\ log[n].id = IF PassedTo("RequestID", "Logging") THEN reply ELSE ""
               /\ \E t \in trusts : log[n].peer = PeerKey(t)
    <3>1. n = 1 /\ log # <<>>
      BY <2>3
    <3> QED BY <2>1, <2>2, <2>5, <3>1
  <2> QED BY <2>4, <2>6, <2>7
<1> QED BY <1>1, ChainInvHolds, PTL

=============================================================================
