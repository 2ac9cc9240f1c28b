------------------------- MODULE HealthSystemProofs -------------------------
(***************************************************************************)
(* Proofs about a Server, alone and against a Client with a health watch,  *)
(* for any number of Runs, RPCs, dials and lost transports.                *)
(***************************************************************************)
EXTENDS HealthSystem, FiniteSetTheorems, TLAPS

(* New, server.go:36-65: nothing runs yet. *)
LEMMA ServerInit == Init => ServerInv
<1>1. Init => ctxDone \in BOOLEAN /\ healthDown \in BOOLEAN
    BY DEF Init
<1> QED
    BY <1>1, MaxRunsNat
       DEF Init, ServerInv, TypeOK, RunPoints, ServerFollowsRun, ServeFollowsRun, ActiveHasServer,
           HealthFollowsRun, HealthFollowsApp, Down, Serving, Stopping

(* The goroutine of Run, server.go:172-220, step by step. *)
LEMMA RunKeepsInv == ServerInv /\ RunStep => ServerInv'
<1> SUFFICES ASSUME ServerInv, RunStep PROVE ServerInv'
    OBVIOUS
<1> USE MaxRunsNat
    DEF ServerInv, TypeOK, RunPoints, ServerFollowsRun, ServeFollowsRun, ActiveHasServer,
        HealthFollowsRun, HealthFollowsApp, Down, Serving, Stopping, Goto, Return,
        optionVars, callVars, runVars, healthVars, serveVars
<1>1. CASE RunConfigError BY <1>1 DEF RunConfigError
<1>2. CASE RunBegin
  <2>1. ctxDone' \in BOOLEAN BY <1>2, Zenon DEF RunBegin
  <2> QED BY <1>2, <2>1 DEF RunBegin
<1>3. CASE SetupServer
  <2>1. healthDown' \in BOOLEAN BY <1>3, Zenon DEF SetupServer, NewHealth
  <2> QED BY <1>3, <2>1 DEF SetupServer, NewHealth
<1>4. CASE SetupStatus BY <1>4 DEF SetupStatus
<1>5. CASE RunListenError BY <1>5 DEF RunListenError
<1>6. CASE RunListen BY <1>6 DEF RunListen
<1>7. CASE RunSelectDone BY <1>7 DEF RunSelectDone
<1>8. CASE RunSelectErr
  <2>1. healthDown' \in BOOLEAN BY <1>8, Zenon DEF RunSelectErr, HealthShutdown
  <2> QED BY <1>8, <2>1 DEF RunSelectErr, HealthShutdown
<1>9. CASE RunShutHealth
  <2>1. healthDown' \in BOOLEAN BY <1>9, Zenon DEF RunShutHealth, HealthShutdown
  <2> QED BY <1>9, <2>1 DEF RunShutHealth, HealthShutdown
<1>10. CASE GracefulStopBegin BY <1>10 DEF GracefulStopBegin
<1>11. CASE GracefulStopEnd BY <1>11 DEF GracefulStopEnd, Drained
<1>12. CASE RunDrain BY <1>12 DEF RunDrain, ServeResult
<1> QED BY <1>1, <1>2, <1>3, <1>4, <1>5, <1>6, <1>7, <1>8, <1>9, <1>10, <1>11, <1>12 DEF RunStep

(* The serve goroutine, server.go:199-202, at any moment of Run. *)
LEMMA ServeKeepsInv == ServerInv /\ ServeStep => ServerInv'
<1> SUFFICES ASSUME ServerInv, ServeStep PROVE ServerInv'
    OBVIOUS
<1> USE DEF ServerInv, TypeOK, RunPoints, ServerFollowsRun, ServeFollowsRun, ActiveHasServer,
            HealthFollowsRun, HealthFollowsApp, Down, Serving, Stopping, Sent, ServeEnd,
            optionVars, callVars, runVars, healthVars
<1>1. CASE ServeStart BY <1>1 DEF ServeStart
<1>2. CASE ServeAfterStop BY <1>2 DEF ServeAfterStop
<1>3. CASE ServeAcceptError BY <1>3 DEF ServeAcceptError
<1>4. CASE ServeReturns BY <1>4 DEF ServeReturns
<1> QED BY <1>1, <1>2, <1>3, <1>4 DEF ServeStep

(* Health().SetServingStatus of any health.Server, and the end of Run's      *)
(* context, at any moment.                                                   *)
LEMMA AppKeepsInv == ServerInv /\ AppStep => ServerInv'
<1> SUFFICES ASSUME ServerInv, AppStep PROVE ServerInv'
    OBVIOUS
<1> USE DEF ServerInv, TypeOK, RunPoints, ServerFollowsRun, ServeFollowsRun, ActiveHasServer,
            HealthFollowsRun, HealthFollowsApp, Down, Serving, Stopping,
            optionVars, callVars, runVars, healthVars, serveVars
<1>1. ASSUME NEW g \in 1..MaxRuns, NEW s \in {"SERVING", "NOT_SERVING"}, SetServingStatus(g, s)
      PROVE  ServerInv'
    BY <1>1 DEF SetServingStatus
<1>2. CASE Shutdown BY <1>2 DEF Shutdown
<1> QED BY <1>1, <1>2 DEF AppStep

(* An RPC begins on a serving server, ends, or stays on one that a failed    *)
(* Run left behind.                                                          *)
LEMMA RPCKeepsInv ==
    ASSUME ServerInv, NEW r \in RPCs,
           RPCBegin(r) \/ RPCEnd(r) \/ SetRPC(r, {"none"}, "orphan")
    PROVE  ServerInv'
BY DEF ServerInv, TypeOK, RunPoints, ServerFollowsRun, ServeFollowsRun, ActiveHasServer,
       HealthFollowsRun, HealthFollowsApp, Down, Serving, Stopping, RPCBegin, RPCEnd, SetRPC,
       optionVars, callVars, runVars, healthVars, serveVars

LEMMA StutterKeepsInv == ServerInv /\ UNCHANGED vars => ServerInv'
BY DEF ServerInv, TypeOK, RunPoints, ServerFollowsRun, ServeFollowsRun, ActiveHasServer,
       HealthFollowsRun, HealthFollowsApp, Down, Serving, Stopping,
       vars, optionVars, callVars, runVars, healthVars, serveVars

(* What the invariant says of the properties. *)
LEMMA ServerInvImplies ==
    ServerInv => ServeJoined /\ NilMeansDrained /\ NotServingOnceDown /\ HealthFollowsApp
BY DEF ServerInv, ServerFollowsRun, ServeFollowsRun, ActiveHasServer, HealthFollowsRun,
       ServeJoined, NilMeansDrained, NotServingOnceDown

(* Type correctness of the server alone, for any number of Runs and RPCs. *)
THEOREM ServerTypeCorrect == Spec => []TypeOK
<1>1. ServerInv /\ [Next]_vars => ServerInv'
    BY RunKeepsInv, ServeKeepsInv, AppKeepsInv, RPCKeepsInv, StutterKeepsInv DEF Next
<1>2. ServerInv => TypeOK
    BY DEF ServerInv
<1> QED BY ServerInit, <1>1, <1>2, PTL DEF Spec

-----------------------------------------------------------------------------
(* Every step of the composition is a step of the server, one of its RPCs    *)
(* on a server left behind, or none of its business.                         *)
LEMMA SystemKeepsInv == ServerInv /\ [SysNext]_sysVars => ServerInv'
<1> SUFFICES ASSUME ServerInv, [SysNext]_sysVars PROVE ServerInv'
    OBVIOUS
<1>0. C!Dials \subseteq RPCs
    BY WatchPerDial, WatchesAreRPCs
<1>1. CASE ServerMoves
    BY <1>1, RunKeepsInv, ServeKeepsInv, AppKeepsInv, RPCKeepsInv DEF ServerMoves
<1>2. CASE Connects \/ Closes
    BY <1>2, StutterKeepsInv DEF Connects, Closes
<1>3. ASSUME NEW d \in C!Dials, WatchOpens(d) PROVE ServerInv'
    BY <1>0, <1>3, RPCKeepsInv DEF WatchOpens
<1>4. ASSUME NEW d \in C!Dials, StreamGone(d) PROVE ServerInv'
    BY <1>0, <1>4, RPCKeepsInv DEF StreamGone
<1>5. ASSUME NEW d \in C!Dials,
             ChannelMoves(d) \/ WatchFails(d) \/ WatchEnds(d) \/ SleepEnds(d)
                \/ StatusArrives(d) \/ WatchBreaks(d)
      PROVE  ServerInv'
    BY <1>5, StutterKeepsInv
       DEF ChannelMoves, WatchFails, WatchEnds, SleepEnds, StatusArrives, WatchBreaks
<1>6. CASE UNCHANGED sysVars
    BY <1>6, StutterKeepsInv DEF sysVars
<1> QED BY <1>1, <1>2, <1>3, <1>4, <1>5, <1>6 DEF SysNext, WatcherMoves

LEMMA SystemInv == SysSpec => []ServerInv
<1>1. SysInit => ServerInv
    BY ServerInit DEF SysInit
<1> QED BY <1>1, SystemKeepsInv, PTL DEF SysSpec, SysSafe

(* Run, internal/server/doc.go:57-59: when Run has returned, whatever ended  *)
(* it, its serve goroutine, that goroutine's result and the listener are     *)
(* gone, for any number of Runs and whatever clients do.                     *)
THEOREM ServeIsJoined == SysSpec => []ServeJoined
BY SystemInv, ServerInvImplies, PTL

(* Run, server.go:171: a nil return leaves no RPC of its server in flight,   *)
(* the health streams of the repository's own client included.               *)
THEOREM NilIsDrained == SysSpec => []NilMeansDrained
BY SystemInv, ServerInvImplies, PTL

(* Run, internal/server/doc.go:76-77: once Run takes its server down nothing *)
(* that the application sets, through whichever health.Server, shows it as   *)
(* serving.                                                                  *)
THEOREM DownIsNotServing == SysSpec => []NotServingOnceDown
BY SystemInv, ServerInvImplies, PTL

(* Health, server.go:67-83: in every Run the status of a server that is up   *)
(* is its own SERVING or what the application has set since.                 *)
THEOREM HealthIsTheApps == SysSpec => []HealthFollowsApp
BY SystemInv, ServerInvImplies, PTL

-----------------------------------------------------------------------------
(* The backoff of the health watch. *)

(* Powers of two count subsets, which is all that the library knows of them. *)
LEMMA SubsetsCounted ==
    ASSUME NEW n \in Nat
    PROVE  /\ IsFiniteSet(SUBSET (1..n))
           /\ Cardinality(SUBSET (1..n)) = 2^n
<1>1. IsFiniteSet(1..n) /\ Cardinality(1..n) = n
    BY FS_Interval
<1> QED BY <1>1, FS_SUBSET

LEMMA PowerPositive ==
    ASSUME NEW n \in Nat
    PROVE  2^n \in Nat \ {0}
<1>1. Cardinality(SUBSET (1..n)) \in Nat
    BY SubsetsCounted, FS_CardinalityType
<1>2. SUBSET (1..n) # {}
    OBVIOUS
<1>3. Cardinality(SUBSET (1..n)) # 0
    BY <1>2, SubsetsCounted, FS_EmptySet
<1> QED BY <1>1, <1>3, SubsetsCounted

LEMMA PowerDoubles ==
    ASSUME NEW n \in Nat
    PROVE  2^(n + 1) = 2 * 2^n
<1> DEFINE Without == SUBSET (1..n)
           With    == (SUBSET (1..(n + 1))) \ Without
           Adding  == [T \in Without |-> T \union {n + 1}]
<1>1. Adding \in Bijection(Without, With)
  <2>1. Adding \in [Without -> With]
    OBVIOUS
  <2>2. \A S, T \in Without : Adding[S] = Adding[T] => S = T
    OBVIOUS
  <2>3. \A U \in With : \E T \in Without : Adding[T] = U
    <3> TAKE U \in With
    <3>1. n + 1 \in U /\ U \ {n + 1} \in Without
      OBVIOUS
    <3>2. Adding[U \ {n + 1}] = U
      BY <3>1
    <3> QED BY <3>1, <3>2
  <2> QED BY <2>1, <2>2, <2>3 DEF Bijection, Injection, Surjection, IsInjective
<1>2. IsFiniteSet(Without) /\ Cardinality(Without) = 2^n
    BY SubsetsCounted
<1>3. IsFiniteSet(With) /\ Cardinality(With) = 2^n
  <2> HIDE DEF Without, With, Adding
  <2>1. ExistsBijection(Without, With) BY <1>1 DEF ExistsBijection
  <2> QED BY <2>1, <1>2, FS_Bijection
<1>4. /\ Without \union With = SUBSET (1..(n + 1))
      /\ Without \intersect With = {}
    OBVIOUS
<1>5. Cardinality(SUBSET (1..(n + 1))) = 2^(n + 1)
    BY SubsetsCounted
<1>6. 2^n \in Nat
    BY PowerPositive
<1> HIDE DEF Without, With
<1>7. Cardinality(Without \union With) = 2^n + 2^n - 0
    BY <1>2, <1>3, <1>4, FS_Union, FS_EmptySet
<1>8. 2^(n + 1) = 2^n + 2^n - 0
    BY <1>4, <1>5, <1>7, Zenon
<1> QED BY <1>6, <1>8

LEMMA MinOfTwo ==
    ASSUME NEW a \in Int, NEW b \in Int
    PROVE  Min({a, b}) = IF a <= b THEN a ELSE b
BY DEF Min

(* Doubling the delay of the n-th sleep gives that of the next; once at the  *)
(* maximum it stays there.                                                   *)
LEMMA DoublingIsExponential ==
    ASSUME NEW n \in 0..MaxNaps
    PROVE  C!Doubled(Min({InitialBackoff * 2^n, MaxBackoff}))
              = Min({InitialBackoff * 2^Min({n + 1, MaxNaps}), MaxBackoff})
<1> USE NapsReachMax
<1> DEFINE delay == InitialBackoff * 2^n
<1>1. 2^n \in Nat \ {0} /\ 2^(n + 1) = 2 * 2^n /\ 2^(n + 1) \in Nat
    BY PowerPositive, PowerDoubles
<1>2. delay \in Nat \ {0} /\ InitialBackoff * 2^(n + 1) = 2 * delay
    BY <1>1
<1> HIDE DEF delay
<1>3. Min({delay, MaxBackoff}) = IF delay <= MaxBackoff THEN delay ELSE MaxBackoff
    BY <1>2, MinOfTwo
<1>4. CASE n < MaxNaps
  <2>1. Min({n + 1, MaxNaps}) = n + 1
    BY <1>4, MinOfTwo
  <2>2. Min({2 * delay, MaxBackoff}) = IF 2 * delay <= MaxBackoff THEN 2 * delay ELSE MaxBackoff
    BY <1>2, MinOfTwo
  <2>3. C!Doubled(Min({delay, MaxBackoff})) = Min({2 * delay, MaxBackoff})
    BY <1>2, <1>3, <2>2 DEF C!Doubled
  <2> QED BY <1>2, <2>1, <2>3 DEF delay
<1>5. CASE n = MaxNaps
  <2>1. Min({n + 1, MaxNaps}) = n
    BY <1>5, MinOfTwo
  <2>2. delay >= MaxBackoff
    BY <1>5 DEF delay
  <2>3. C!Doubled(Min({delay, MaxBackoff})) = Min({delay, MaxBackoff})
    BY <1>2, <1>3, <2>2 DEF C!Doubled
  <2> QED BY <2>1, <2>3 DEF delay
<1> QED BY <1>4, <1>5

(* startHealthWatch, client.go:257-296, and internal/client/doc.go:91,       *)
(* "exponential backoff (500ms to 30s)": however opened streams, failed ones *)
(* and sleeps alternate, the n-th sleep in a row is twice the one before it  *)
(* up to 30s, and an opened stream starts afresh.                            *)
THEOREM BackoffDoubles == SysSpec => []BackoffIsExponential
<1> USE NapsReachMax
<1>1. SysInit => NapsInv
  <2>1. Min({InitialBackoff * 2^0, MaxBackoff}) = InitialBackoff BY MinOfTwo
  <2> QED BY <2>1 DEF SysInit, C!Init, NapsInv, BackoffIsExponential
<1>2. NapsInv /\ [SysNext]_sysVars => NapsInv'
  <2> SUFFICES ASSUME NapsInv, [SysNext]_sysVars PROVE NapsInv'
      OBVIOUS
  <2>1. CASE UNCHANGED <<backoff, naps>>
    BY <2>1 DEF NapsInv, BackoffIsExponential
  <2>2. ASSUME NEW d \in C!Dials, WatchOpens(d) PROVE NapsInv'
    <3>1. /\ backoff' = [backoff EXCEPT ![d] = InitialBackoff]
          /\ naps' = [naps EXCEPT ![d] = 0]
      BY <2>2 DEF WatchOpens, C!WatchOk
    <3>2. Min({InitialBackoff * 2^0, MaxBackoff}) = InitialBackoff BY MinOfTwo
    <3>3. \A e \in C!Dials : backoff'[e] = Min({InitialBackoff * 2^naps'[e], MaxBackoff})
      BY <3>1, <3>2 DEF NapsInv, BackoffIsExponential
    <3> QED BY <3>1, <3>3 DEF NapsInv, BackoffIsExponential
  <2>3. ASSUME NEW d \in C!Dials,
               C!SleepElapsed(d),
               naps' = [naps EXCEPT ![d] = Min({@ + 1, MaxNaps})]
        PROVE  NapsInv'
    <3>1. backoff' = [backoff EXCEPT ![d] = C!Doubled(@)]
      BY <2>3 DEF C!SleepElapsed
    <3>2. /\ backoff[d] \in Int
          /\ naps[d] \in 0..MaxNaps
          /\ backoff[d] = Min({InitialBackoff * 2^naps[d], MaxBackoff})
      BY DEF NapsInv, BackoffIsExponential
    <3>3. C!Doubled(backoff[d])
             = Min({InitialBackoff * 2^Min({naps[d] + 1, MaxNaps}), MaxBackoff})
      BY <3>2, DoublingIsExponential
    <3>4. C!Doubled(backoff[d]) \in Int
      BY <3>2 DEF C!Doubled
    <3>5. Min({naps[d] + 1, MaxNaps}) \in 0..MaxNaps
      <4>1. naps[d] + 1 \in Int /\ MaxNaps \in Int BY <3>2
      <4>2. Min({naps[d] + 1, MaxNaps}) = IF naps[d] + 1 <= MaxNaps THEN naps[d] + 1 ELSE MaxNaps
        BY <4>1, MinOfTwo
      <4> QED BY <3>2, <4>2
    <3>6. /\ backoff' \in [C!Dials -> Int]
          /\ naps' \in [C!Dials -> 0..MaxNaps]
      BY <2>3, <3>1, <3>4, <3>5 DEF NapsInv
    <3>7. ASSUME NEW e \in C!Dials
          PROVE  backoff'[e] = Min({InitialBackoff * 2^naps'[e], MaxBackoff})
      <4>1. CASE e = d BY <2>3, <3>1, <3>3, <4>1 DEF NapsInv
      <4>2. CASE e # d BY <2>3, <3>1, <4>2 DEF NapsInv, BackoffIsExponential
      <4> QED BY <4>1, <4>2
    <3> QED BY <3>6, <3>7 DEF NapsInv, BackoffIsExponential
  <2>4. CASE ServerMoves
    BY <2>1, <2>4 DEF ServerMoves, clientVars
  <2>5. CASE Connects
    BY <2>1, <2>5 DEF Connects, netVars, C!ConnectDial, C!StartHealthWatch, C!CloseCancel, C!watcherVars
  <2>6. CASE Closes
    BY <2>1, <2>6 DEF Closes, C!CloseConn, C!watcherVars
  <2>7. ASSUME NEW d \in C!Dials, ChannelMoves(d) PROVE NapsInv'
    BY <2>1, <2>7 DEF ChannelMoves, C!ChannelStep, C!watcherVars
  <2>8. ASSUME NEW d \in C!Dials, WatchFails(d) \/ WatchEnds(d) \/ WatchBreaks(d) PROVE NapsInv'
    BY <2>1, <2>8 DEF WatchFails, WatchEnds, WatchBreaks, C!WatchErr, C!RecvErr, netVars
  <2>9. ASSUME NEW d \in C!Dials, SleepEnds(d) PROVE NapsInv'
    BY <2>1, <2>3, <2>9 DEF SleepEnds, C!SleepCancelled
  <2>10. ASSUME NEW d \in C!Dials, StatusArrives(d) \/ StreamGone(d) PROVE NapsInv'
    BY <2>1, <2>10 DEF StatusArrives, StreamGone, clientVars, netVars
  <2>11. CASE UNCHANGED sysVars
    BY <2>1, <2>11 DEF sysVars, clientVars, netVars
  <2> QED BY <2>2, <2>4, <2>5, <2>6, <2>7, <2>8, <2>9, <2>10, <2>11 DEF SysNext, WatcherMoves
<1>3. NapsInv => BackoffIsExponential
    BY DEF NapsInv
<1> QED BY <1>1, <1>2, <1>3, PTL DEF SysSpec, SysSafe

-----------------------------------------------------------------------------
(* New and Connect against a server: the client of the composition starts    *)
(* as a client with WithHealthWatch and takes the steps of client.go only.   *)
LEMMA ClientStep == [SysNext]_sysVars => [C!Next]_C!vars
<1> SUFFICES ASSUME [SysNext]_sysVars PROVE [C!Next]_C!vars
    OBVIOUS
<1>1. ASSUME UNCHANGED clientVars PROVE [C!Next]_C!vars
    BY <1>1 DEF clientVars, C!vars, C!clientVars, C!options, C!callerVars, C!watcherVars
<1>2. CASE ServerMoves BY <1>1, <1>2 DEF ServerMoves
<1>3. CASE Connects \/ Closes
  <2>1. C!CallerStep(App) BY <1>3 DEF Connects, Closes, C!CallerStep
  <2> QED BY <2>1 DEF C!Next
<1>4. ASSUME NEW d \in C!Dials, ChannelMoves(d) PROVE [C!Next]_C!vars
    BY <1>4 DEF ChannelMoves, C!Next
<1>5. ASSUME NEW d \in C!Dials, WatcherMoves(d) \/ WatchBreaks(d) PROVE [C!Next]_C!vars
  <2>1. C!WatcherStep(d)
    BY <1>5 DEF WatcherMoves, WatchOpens, WatchFails, WatchEnds, WatchBreaks, SleepEnds, C!WatcherStep
  <2> QED BY <2>1 DEF C!Next
<1>6. ASSUME NEW d \in C!Dials, StatusArrives(d) \/ StreamGone(d) PROVE [C!Next]_C!vars
    BY <1>1, <1>6 DEF StatusArrives, StreamGone
<1>7. CASE UNCHANGED sysVars BY <1>1, <1>7 DEF sysVars
<1> QED BY <1>2, <1>3, <1>4, <1>5, <1>6, <1>7 DEF SysNext

(* Connect, Close and startHealthWatch, client.go:114-297, against Run:      *)
(* whatever the server and the network do, the client of the composition is  *)
(* a client of ClientLifecycle.  The composition restricts its environment   *)
(* and changes nothing in client.go, so the safety of the client alone is    *)
(* its safety against a server that restarts, drains and loses transports.   *)
THEOREM ClientRefinement == SysSpec => C!Spec
<1>1. SysInit => C!Init
    BY DEF SysInit
<1> QED BY <1>1, ClientStep, PTL DEF SysSpec, SysSafe, C!Spec

=============================================================================
