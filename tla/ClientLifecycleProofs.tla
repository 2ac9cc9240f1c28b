------------------------ MODULE ClientLifecycleProofs ------------------------
(***************************************************************************)
(* Theorems about ClientLifecycle, for every set of callers, every number  *)
(* of dials and every backoff range.                                       *)
(***************************************************************************)
EXTENDS ClientLifecycle, TLAPS

(* The range of the doubled backoff, client.go:269 and 295. *)
LEMMA DoubledRange ==
    ASSUME NEW b \in InitialBackoff..MaxBackoff
    PROVE  Doubled(b) \in InitialBackoff..MaxBackoff
  BY BackoffOrder DEF Doubled

(* The variables of ClientLifecycle keep their types: every connection,      *)
(* watcher and caller of client.go stays in one of its states, and the       *)
(* backoff stays between its initial value and its maximum.                  *)
LEMMA TypeInductive ==
    ASSUME TypeOK, HoldsDialled, [Next]_vars
    PROVE  TypeOK'
<1> USE DEF TypeOK, Dials, NoConn
<1>1. ASSUME NEW p \in Callers, CallerStep(p) PROVE TypeOK'
  <2> USE <1>1 DEF MayCall, Return, Goto, clientVars, watcherVars, options,
                   CallerPoints, WaitReadyPoints, ListPoints, Results, ChannelStates,
                   OpenStates
  <2>1. CASE ConnectConfigError(p) BY <2>1 DEF ConnectConfigError
  <2>2. CASE ConnectAlready(p) BY <2>2 DEF ConnectAlready
  <2>3. CASE ConnectDialError(p) BY <2>3 DEF ConnectDialError
  <2>4. CASE ConnectDial(p)
    <3>1. /\ conn' \in Dials
          /\ dialed' \in 0..MaxDials
          /\ dialed + 1 \in Dials
      BY <2>4, MaxDialsNat DEF ConnectDial
    <3>2. CASE healthWatch BY <2>4, <3>1, <3>2 DEF ConnectDial
    <3>3. CASE ~healthWatch BY <2>4, <3>1, <3>3 DEF ConnectDial
    <3> QED BY <3>2, <3>3
  <2>5. CASE StartHealthWatch(p)
    BY <2>5 DEF StartHealthWatch, Registered, WatcherPoints
  <2>6. CASE CloseCancel(p) BY <2>6 DEF CloseCancel, Cancelled
  <2>7. CASE CloseConn(p) BY <2>7 DEF CloseConn
  <2>8. CASE ConnPanic(p) BY <2>8 DEF ConnPanic
  <2>9. CASE Conn(p, "kick") BY <2>9 DEF Conn
  <2>10. CASE Conn(p, "list") BY <2>10 DEF Conn
  <2>11. CASE WaitReadyKick(p) BY <2>11 DEF WaitReadyKick
  <2>12. CASE WaitReadyCheck(p)
    <3>1. channel[holds[p]] \in ChannelStates
      BY <2>12 DEF WaitReadyCheck, HoldsDialled, HoldingPoints
    <3>2. CASE channel[holds[p]] = "Ready"
      BY <2>12, <3>2 DEF WaitReadyCheck
    <3>3. CASE channel[holds[p]] # "Ready"
      <4> HIDE DEF ChannelStates
      <4>1. Goto(p, "wait", holds[p], channel[holds[p]])
        BY <2>12, <3>3 DEF WaitReadyCheck
      <4> QED BY <2>12, <3>1, <4>1 DEF WaitReadyCheck
    <3> QED BY <3>2, <3>3
  <2>13. CASE WaitReadyWake(p) BY <2>13 DEF WaitReadyWake
  <2>14. CASE WaitReadyExpire(p) BY <2>14 DEF WaitReadyExpire, MayExpire
  <2>15. CASE ListServicesOpen(p) BY <2>15 DEF ListServicesOpen
  <2>16. CASE ListServicesRecv(p) BY <2>16 DEF ListServicesRecv
  <2>17. CASE ListServicesReturn(p) BY <2>17 DEF ListServicesReturn
  <2>18. CASE ListServicesFail(p) BY <2>18 DEF ListServicesFail
  <2> QED BY <1>1, <2>1, <2>2, <2>3, <2>4, <2>5, <2>6, <2>7, <2>8, <2>9, <2>10,
             <2>11, <2>12, <2>13, <2>14, <2>15, <2>16,
             <2>17, <2>18 DEF CallerStep
<1>2. ASSUME NEW w \in Dials, WatcherStep(w) PROVE TypeOK'
  <2> USE <1>2 DEF clientVars, callerVars, options, WatcherPoints
  <2>1. CASE WatchNilConn(w) BY <2>1 DEF WatchNilConn
  <2>2. CASE WatchOk(w) BY <2>2, BackoffOrder DEF WatchOk
  <2>3. CASE WatchErr(w) BY <2>3 DEF WatchErr, AfterError
  <2>4. CASE RecvErr(w) BY <2>4 DEF RecvErr, AfterError
  <2>5. CASE SleepElapsed(w)
    <3>1. backoff[w] \in InitialBackoff..MaxBackoff OBVIOUS
    <3>2. Doubled(backoff[w]) \in InitialBackoff..MaxBackoff BY <3>1, DoubledRange
    <3> QED BY <2>5, <3>1, <3>2, BackoffOrder DEF SleepElapsed
  <2>6. CASE SleepCancelled(w) BY <2>6 DEF SleepCancelled
  <2> QED BY <1>2, <2>1, <2>2, <2>3, <2>4, <2>5, <2>6 DEF WatcherStep
<1>3. ASSUME NEW d \in Dials, ChannelStep(d) PROVE TypeOK'
  BY <1>3 DEF ChannelStep, clientVars, callerVars, watcherVars, options,
              ChannelStates, OpenStates
<1>4. CASE UNCHANGED vars
  BY <1>4 DEF vars, clientVars, callerVars, watcherVars, options
<1> QED BY <1>1, <1>2, <1>3, <1>4 DEF Next

LEMMA TypeInit == Init => TypeOK
  BY MaxDialsNat, BackoffOrder
     DEF Init, TypeOK, Dials, NoConn, CallerPoints, WatcherPoints, Results,
         ChannelStates

(* Every step of the callers, of the watchers and of the connections keeps  *)
(* the mutex discipline and the tie between Client.conn and the open        *)
(* connection (client.go:126-142, 187-204).                                 *)
LEMMA ConnInductive ==
    ASSUME ConnInv, [Next]_vars
    PROVE  ConnInv'
<1>0. TypeOK' BY TypeInductive DEF ConnInv
<1> USE <1>0 DEF ConnInv, TypeOK, Dials, NoConn, HoldsDialled, OneClosing,
                 UndialledAhead, OpenIffCurrent, HoldingPoints, WaitReadyPoints,
                 ListPoints
<1> DEFINE Rest == /\ HoldsDialled
                   /\ OneClosing
                   /\ UndialledAhead
                   /\ conn <= dialed
                   /\ OpenIffCurrent
<1>1. ASSUME NEW p \in Callers, CallerStep(p) PROVE Rest'
  <2> USE <1>1 DEF MayCall, MuFree, Return, Goto, clientVars, watcherVars, options
  <2>1. CASE ConnectConfigError(p) BY <2>1 DEF ConnectConfigError
  <2>2. CASE ConnectAlready(p) BY <2>2 DEF ConnectAlready
  <2>3. CASE ConnectDialError(p) BY <2>3 DEF ConnectDialError
  <2>4. CASE ConnectDial(p)
    <3>1. /\ UNCHANGED wpc
          /\ conn = 0 /\ dialed' = dialed + 1 /\ conn' = dialed + 1
          /\ channel' = [channel EXCEPT ![dialed + 1] = "Idle"]
          /\ dialed + 1 \in Dials
          /\ pc[p] = "idle"
          /\ \/ Goto(p, "startWatch", dialed + 1, "Undialled")
             \/ Return(p, "nil")
      BY <2>4 DEF ConnectDial, AlreadyConnected
    <3>2. OpenIffCurrent' BY <3>1 DEF OpenStates
    <3>3. UndialledAhead' /\ (conn <= dialed)' BY <3>1
    <3>4. OneClosing' BY <3>1
    <3>5. HoldsDialled' BY <3>1
    <3> QED BY <3>2, <3>3, <3>4, <3>5
  <2>5. CASE StartHealthWatch(p) BY <2>5 DEF StartHealthWatch, Registered
  <2>6. CASE CloseCancel(p) BY <2>6 DEF CloseCancel, Cancelled
  <2>7. CASE CloseConn(p) BY <2>7 DEF CloseConn, OpenStates
  <2>8. CASE ConnPanic(p) BY <2>8 DEF ConnPanic
  <2>9. CASE Conn(p, "kick") BY <2>9 DEF Conn
  <2>10. CASE Conn(p, "list") BY <2>10 DEF Conn
  <2>11. CASE WaitReadyKick(p) BY <2>11 DEF WaitReadyKick, OpenStates
  <2>12. CASE WaitReadyCheck(p)
    <3>1. /\ pc[p] = "check"
          /\ UNCHANGED <<conn, dialed, channel, wpc>>
      BY <2>12 DEF WaitReadyCheck
    <3>2. CASE channel[holds[p]] = "Ready"
      <4>1. Return(p, "nil") BY <2>12, <3>2 DEF WaitReadyCheck
      <4> QED BY <3>1, <4>1
    <3>3. CASE channel[holds[p]] # "Ready"
      <4>1. Goto(p, "wait", holds[p], channel[holds[p]])
        BY <2>12, <3>3 DEF WaitReadyCheck
      <4> QED BY <3>1, <4>1
    <3> QED BY <3>2, <3>3
  <2>13. CASE WaitReadyWake(p) BY <2>13 DEF WaitReadyWake
  <2>14. CASE WaitReadyExpire(p) BY <2>14 DEF WaitReadyExpire, MayExpire
  <2>15. CASE ListServicesOpen(p) BY <2>15 DEF ListServicesOpen
  <2>16. CASE ListServicesRecv(p) BY <2>16 DEF ListServicesRecv
  <2>17. CASE ListServicesReturn(p) BY <2>17 DEF ListServicesReturn
  <2>18. CASE ListServicesFail(p) BY <2>18 DEF ListServicesFail
  <2> QED BY <1>1, <2>1, <2>2, <2>3, <2>4, <2>5, <2>6, <2>7, <2>8, <2>9, <2>10,
             <2>11, <2>12, <2>13, <2>14, <2>15, <2>16,
             <2>17, <2>18 DEF CallerStep
<1>2. ASSUME NEW w \in Dials, WatcherStep(w) PROVE Rest'
  <2> USE <1>2 DEF clientVars, callerVars, options
  <2>1. CASE WatchNilConn(w) BY <2>1 DEF WatchNilConn
  <2>2. CASE WatchOk(w) BY <2>2 DEF WatchOk
  <2>3. CASE WatchErr(w) BY <2>3 DEF WatchErr
  <2>4. CASE RecvErr(w) BY <2>4 DEF RecvErr
  <2>5. CASE SleepElapsed(w) BY <2>5 DEF SleepElapsed
  <2>6. CASE SleepCancelled(w) BY <2>6 DEF SleepCancelled
  <2> QED BY <1>2, <2>1, <2>2, <2>3, <2>4, <2>5, <2>6 DEF WatcherStep
<1>3. ASSUME NEW d \in Dials, ChannelStep(d) PROVE Rest'
  BY <1>3 DEF ChannelStep, ChannelMoves, OpenStates, clientVars, callerVars,
              watcherVars, options
<1>4. CASE UNCHANGED vars
  BY <1>4 DEF vars, clientVars, callerVars, watcherVars, options
<1> QED BY <1>1, <1>2, <1>3, <1>4 DEF Next

LEMMA ConnInit == Init => ConnInv
  BY TypeInit DEF Init, ConnInv, HoldsDialled, OneClosing, UndialledAhead,
     OpenIffCurrent, HoldingPoints, WaitReadyPoints, ListPoints, OpenStates, Dials, NoConn

LEMMA ConnAlways == Spec => []ConnInv
<1>1. ConnInv /\ [Next]_vars => ConnInv' BY ConnInductive
<1> QED BY ConnInit, <1>1, PTL DEF Spec

(* Type correctness of the client, client.go:41-60. *)
THEOREM TypeCorrect == Spec => []TypeOK
<1>1. ConnInv => TypeOK BY DEF ConnInv
<1> QED BY ConnAlways, <1>1, PTL

(* Connect and Close, client.go:126-142 and 187-204, however they overlap:   *)
(* the open connection is always Client.conn, and the only one.              *)
THEOREM NoConnectionLeak == Spec => []OpenIffCurrent
<1>1. ConnInv => OpenIffCurrent BY DEF ConnInv
<1> QED BY ConnAlways, <1>1, PTL

(* When the application serialises Connect and Close, the free mutex between *)
(* the two critical sections of Connect lets no Close in, so the registered  *)
(* CancelFunc is always that of the one watcher with a live context.         *)
LEMMA WatchInductive ==
    ASSUME Serialised, ConnInv, WatchInv, [Next]_vars
    PROVE  WatchInv'
<1>0. TypeOK /\ TypeOK' /\ conn <= dialed /\ HoldsDialled /\ UndialledAhead
  BY ConnInductive DEF ConnInv
<1> USE <1>0 DEF TypeOK, WatchInv, Dials, NoConn, OneInside, ConnectInside,
                 CloseInside, WatchOwnConn, Live, HoldsDialled, UndialledAhead,
                 HoldingPoints, WaitReadyPoints, ListPoints
<1>1. ASSUME NEW p \in Callers, CallerStep(p) PROVE WatchInv'
  <2> USE <1>1 DEF MayCall, MuFree, Return, Goto, clientVars, watcherVars, options
  <2>1. CASE ConnectConfigError(p) BY <2>1 DEF ConnectConfigError
  <2>2. CASE ConnectAlready(p) BY <2>2 DEF ConnectAlready
  <2>3. CASE ConnectDialError(p) BY <2>3 DEF ConnectDialError
  <2>4. CASE ConnectDial(p) BY <2>4 DEF ConnectDial, AlreadyConnected
  <2>5. CASE StartHealthWatch(p) BY <2>5 DEF StartHealthWatch, Registered
  <2>6. CASE CloseCancel(p) BY <2>6 DEF CloseCancel, Cancelled
  <2>7. CASE CloseConn(p) BY <2>7 DEF CloseConn
  <2>8. CASE ConnPanic(p) BY <2>8 DEF ConnPanic
  <2>9. CASE Conn(p, "kick") BY <2>9 DEF Conn
  <2>10. CASE Conn(p, "list") BY <2>10 DEF Conn
  <2>11. CASE WaitReadyKick(p) BY <2>11 DEF WaitReadyKick
  <2>12. CASE WaitReadyCheck(p)
    <3>1. CASE channel[holds[p]] = "Ready"
      <4>1. Return(p, "nil") BY <2>12, <3>1 DEF WaitReadyCheck
      <4> QED BY <2>12, <4>1 DEF WaitReadyCheck
    <3>2. CASE channel[holds[p]] # "Ready"
      <4>1. Goto(p, "wait", holds[p], channel[holds[p]])
        BY <2>12, <3>2 DEF WaitReadyCheck
      <4> QED BY <2>12, <4>1 DEF WaitReadyCheck
    <3> QED BY <3>1, <3>2
  <2>13. CASE WaitReadyWake(p) BY <2>13 DEF WaitReadyWake
  <2>14. CASE WaitReadyExpire(p) BY <2>14 DEF WaitReadyExpire, MayExpire
  <2>15. CASE ListServicesOpen(p) BY <2>15 DEF ListServicesOpen
  <2>16. CASE ListServicesRecv(p) BY <2>16 DEF ListServicesRecv
  <2>17. CASE ListServicesReturn(p) BY <2>17 DEF ListServicesReturn
  <2>18. CASE ListServicesFail(p) BY <2>18 DEF ListServicesFail
  <2> QED BY <1>1, <2>1, <2>2, <2>3, <2>4, <2>5, <2>6, <2>7, <2>8, <2>9, <2>10,
             <2>11, <2>12, <2>13, <2>14, <2>15, <2>16,
             <2>17, <2>18 DEF CallerStep
<1>2. ASSUME NEW w \in Dials, WatcherStep(w) PROVE WatchInv'
  <2> USE <1>2 DEF clientVars, callerVars, options
  <2>1. CASE WatchNilConn(w) BY <2>1 DEF WatchNilConn
  <2>2. CASE WatchOk(w) BY <2>2 DEF WatchOk
  <2>3. CASE WatchErr(w) BY <2>3 DEF WatchErr, AfterError
  <2>4. CASE RecvErr(w) BY <2>4 DEF RecvErr, AfterError
  <2>5. CASE SleepElapsed(w) BY <2>5 DEF SleepElapsed
  <2>6. CASE SleepCancelled(w) BY <2>6 DEF SleepCancelled
  <2> QED BY <1>2, <2>1, <2>2, <2>3, <2>4, <2>5, <2>6 DEF WatcherStep
<1>3. ASSUME NEW d \in Dials, ChannelStep(d) PROVE WatchInv'
  BY <1>3 DEF ChannelStep, clientVars, callerVars, watcherVars, options
<1>4. CASE UNCHANGED vars
  BY <1>4 DEF vars, clientVars, callerVars, watcherVars, options
<1> QED BY <1>1, <1>2, <1>3, <1>4 DEF Next

LEMMA InvAlways == Spec => []IInv
<1>1. Init => IInv
  BY ConnInit DEF Init, IInv, WatchInv, OneInside, ConnectInside, CloseInside,
     WatchOwnConn, Live, NoConn
<1>2. IInv /\ [Next]_vars => IInv'
  BY ConnInductive, WatchInductive DEF IInv
<1> QED BY <1>1, <1>2, PTL DEF Spec

(* Close, client.go:185-204: with Connect and Close serialised, every health *)
(* watcher with a live context is the registered one and watches the open    *)
(* connection; none runs on a nil connection.                                *)
THEOREM WatcherOwnership == Spec => []WatcherOwned
<1>1. IInv => WatcherOwned
  BY DEF IInv, WatchInv, WatchOwnConn, WatcherOwned
<1> QED BY InvAlways, <1>1, PTL

(* Close, client.go:185-186: with Connect and Close serialised, a closed     *)
(* client has no health watcher left that was not told to stop.              *)
THEOREM CloseStopsWatch == Serialised => (Spec => []CloseCancelsWatchers)
<1>1. Serialised /\ IInv => CloseCancelsWatchers
  BY DEF IInv, WatchInv, CloseCancelsWatchers, Dials, NoConn
<1>2. SUFFICES ASSUME Serialised PROVE Spec => []CloseCancelsWatchers
  OBVIOUS
<1>3. IInv => CloseCancelsWatchers BY <1>1, <1>2
<1> QED BY InvAlways, <1>3, PTL

(* Only StartHealthWatch and CloseCancel change which connections are under  *)
(* a live watch.                                                             *)
LEMMA WatchingUnchanged ==
    ASSUME \A w \in Dials : (Live(w) /\ ~wctx[w]) <=> (Live(w) /\ ~wctx[w])',
           wconn' = wconn
    PROVE  Watching' = Watching
  BY DEF Watching

(* Connect and Close, client.go:105-108 and 185-186: with the two serialised *)
(* the client implements a sequence of sessions, each closed only when       *)
(* nothing watches its connection any more.                                  *)
THEOREM SessionRefinement == Serialised => (Spec => ImplementsSession)
<1>1. Init => Session!Init
  BY DEF Init, Session!Init, Watching, Live, NoConn
<1>2. ASSUME Serialised, IInv, [Next]_vars PROVE [Session!Next]_(Session!vars)
  <2>0. /\ TypeOK /\ WatchInv /\ conn <= dialed /\ HoldsDialled /\ UndialledAhead
        /\ TypeOK'
    BY <1>2, ConnInductive DEF IInv, ConnInv
  <2>a. Watching = IF \E w \in Dials : Live(w) /\ ~wctx[w] THEN {conn} ELSE {}
    BY <2>0 DEF Watching, WatchInv, WatchOwnConn
  <2>1. ASSUME NEW p \in Callers, CallerStep(p)
        PROVE  [Session!Next]_(Session!vars)
    <3> USE <2>0, <2>1 DEF TypeOK, Dials, NoConn, MayCall, MuFree, Return, Goto,
            clientVars, watcherVars, options, Session!vars, Session!Next
    <3>1. CASE ConnectDial(p)
      <4>1. Watching = {} BY <2>a, <3>1 DEF ConnectDial, AlreadyConnected, WatchInv
      <4>2. Watching' = {} BY <4>1, <3>1, WatchingUnchanged DEF ConnectDial, Live
      <4>3. conn = 0 /\ conn' = dialed + 1 /\ dialed' = dialed + 1
        BY <3>1 DEF ConnectDial, AlreadyConnected
      <4> QED BY <4>1, <4>2, <4>3 DEF Session!Open
    <3>2. CASE StartHealthWatch(p)
      <4>1. /\ conn \in Dials /\ holds[p] = conn /\ healthCancel = NoConn
            /\ UNCHANGED <<conn, dialed>>
        BY <3>2 DEF StartHealthWatch, Registered, WatchInv, ConnectInside
      <4>2. \A w \in Dials : ~(Live(w) /\ ~wctx[w]) BY <4>1 DEF WatchInv
      <4>3. Watching = {} BY <4>2 DEF Watching
      <4>4. Watching' = {conn} \/ Watching' = {}
        BY <4>1, <4>2, <3>2 DEF StartHealthWatch, Registered, Watching, Live
      <4> QED BY <4>1, <4>3, <4>4 DEF Session!Watch
    <3>3. CASE CloseCancel(p)
      <4>1. \A w \in Dials : ~(Live(w) /\ ~wctx[w])'
        BY <3>3 DEF CloseCancel, Cancelled, WatchInv, Live
      <4>2. Watching' = {} BY <4>1 DEF Watching
      <4> QED BY <3>3, <4>2 DEF CloseCancel, Cancelled, Session!Unwatch
    <3>4. CASE CloseConn(p)
      <4>1. Watching = {} BY <3>4, <2>a DEF CloseConn, WatchInv, CloseInside
      <4>2. Watching' = Watching BY <3>4, WatchingUnchanged DEF CloseConn, Live
      <4> QED BY <3>4, <4>1, <4>2 DEF CloseConn, Session!Shut
    <3>5. CASE UNCHANGED <<clientVars, watcherVars>>
      BY <3>5, WatchingUnchanged DEF Live
    <3> QED
      BY <3>1, <3>2, <3>3, <3>4, <3>5
         DEF CallerStep, ConnectConfigError, ConnectAlready, ConnectDialError,
             ConnPanic, Conn, WaitReadyKick, WaitReadyCheck, WaitReadyWake,
             WaitReadyExpire, ListServicesOpen, ListServicesRecv,
             ListServicesReturn, ListServicesFail
  <2>2. ASSUME NEW w \in Dials, WatcherStep(w)
        PROVE  [Session!Next]_(Session!vars)
    <3>1. conn' = conn /\ dialed' = dialed /\ wconn' = wconn
      BY <2>2 DEF WatcherStep, WatchNilConn, WatchOk, WatchErr, RecvErr,
                  SleepElapsed, SleepCancelled, clientVars
    <3>2. \A v \in Dials : (Live(v) /\ ~wctx[v]) <=> (Live(v) /\ ~wctx[v])'
      BY <2>0, <2>2 DEF TypeOK, WatcherStep, WatchNilConn, WatchOk, WatchErr,
         RecvErr, SleepElapsed, SleepCancelled, AfterError, Live
    <3>3. Watching' = Watching BY <3>1, <3>2, WatchingUnchanged
    <3> QED BY <3>1, <3>3 DEF Session!vars
  <2>3. ASSUME NEW d \in Dials, ChannelStep(d)
        PROVE  [Session!Next]_(Session!vars)
    BY <2>3, WatchingUnchanged
       DEF ChannelStep, clientVars, watcherVars, Live, Session!vars
  <2>4. CASE UNCHANGED vars
    BY <2>4, WatchingUnchanged
       DEF vars, clientVars, watcherVars, Live, Session!vars
  <2> QED BY <1>2, <2>1, <2>2, <2>3, <2>4 DEF Next
<1>3. SUFFICES ASSUME Serialised PROVE Spec => ImplementsSession
  OBVIOUS
<1>4. IInv /\ [Next]_vars => [Session!Next]_(Session!vars) BY <1>2, <1>3
<1> QED BY InvAlways, <1>1, <1>4, PTL DEF Spec, ImplementsSession, Session!Spec

(* The steps of ClientLifecycle that touch neither the watchers, nor the     *)
(* current connection, nor a Connect or Close in progress.                   *)
LEMMA ConnectedUntouched ==
    ASSUME ConnectedInv,
           UNCHANGED <<conn, healthCancel, healthWatch, wctx, wconn, wpc>>,
           \A q \in Callers :
               /\ pc[q] = "closing" <=> pc'[q] = "closing"
               /\ pc[q] = "startWatch" <=> pc'[q] = "startWatch"
               /\ pc[q] = "startWatch" => holds'[q] = holds[q]
    PROVE  ConnectedInv'
<1>1. HoldersDiffer' BY DEF ConnectedInv, HoldersDiffer
<1>2. NotStartedYet' BY DEF ConnectedInv, NotStartedYet
<1>3. CurrentWatched' BY DEF ConnectedInv, CurrentWatched
<1> QED BY <1>1, <1>2, <1>3 DEF ConnectedInv

(* Every step keeps the current connection watched: only the CancelFunc of  *)
(* its own watcher ends the watch, and only the Close that takes the         *)
(* connection finds it (client.go:187-204, 237-256).                         *)
LEMMA ConnectedInductive ==
    ASSUME ConnInv, ConnectedInv, [Next]_vars
    PROVE  ConnectedInv'
<1>0. /\ TypeOK /\ TypeOK' /\ conn <= dialed /\ HoldsDialled /\ UndialledAhead
      /\ OneClosing
  BY ConnInductive DEF ConnInv
<1>1. ASSUME NEW p \in Callers, CallerStep(p) PROVE ConnectedInv'
  <2> USE <1>0, <1>1 DEF TypeOK, Dials, NoConn, MayCall, MuFree, Return, Goto,
          clientVars, watcherVars, options
  <2>1. CASE ConnectDial(p)
    <3> USE <2>1 DEF ConnectDial, AlreadyConnected, ConnectedInv
    <3>1. /\ dialed + 1 \in Dials /\ conn' = dialed + 1
          /\ \A q \in Callers : pc[q] = "startWatch" => holds[q] # dialed + 1
      BY MaxDialsNat DEF HoldsDialled, HoldingPoints
    <3>2. wpc[dialed + 1] = "none" BY <3>1 DEF UndialledAhead
    <3>3. CASE healthWatch
      <4>1. HoldersDiffer' BY <3>1, <3>3 DEF HoldersDiffer
      <4>2. NotStartedYet' BY <3>1, <3>2, <3>3 DEF NotStartedYet
      <4>3. CurrentWatched' BY <3>1, <3>3 DEF CurrentWatched
      <4> QED BY <4>1, <4>2, <4>3
    <3>4. CASE ~healthWatch
      <4>1. HoldersDiffer' BY <3>4 DEF HoldersDiffer
      <4>2. NotStartedYet' BY <3>4 DEF NotStartedYet
      <4>3. CurrentWatched' BY <3>4 DEF CurrentWatched
      <4> QED BY <4>1, <4>2, <4>3
    <3> QED BY <3>3, <3>4
  <2>2. CASE StartHealthWatch(p)
    <3> USE <2>2 DEF StartHealthWatch, Registered, ConnectedInv
    <3>1. /\ holds[p] \in Dials
          /\ wpc' = [wpc EXCEPT ![holds[p]] = "watch"]
          /\ wconn' = [wconn EXCEPT ![holds[p]] = conn]
          /\ UNCHANGED <<conn, healthWatch, wctx>>
      BY DEF HoldsDialled, HoldingPoints
    <3>2. ~wctx[holds[p]] BY <3>1 DEF NotStartedYet
    <3>3. HoldersDiffer' BY DEF HoldersDiffer
    <3>4. NotStartedYet' BY <3>1 DEF NotStartedYet, HoldersDiffer
    <3>5. CurrentWatched' BY <3>1, <3>2 DEF CurrentWatched
    <3> QED BY <3>3, <3>4, <3>5
  <2>3. CASE CloseCancel(p)
    <3> USE <2>3 DEF CloseCancel, Cancelled, ConnectedInv
    <3>1. HoldersDiffer' BY DEF HoldersDiffer
    <3>2. NotStartedYet' BY DEF NotStartedYet
    <3>3. CurrentWatched' BY DEF CurrentWatched
    <3> QED BY <3>1, <3>2, <3>3
  <2>4. CASE CloseConn(p)
    <3> USE <2>4 DEF CloseConn, ConnectedInv
    <3>1. HoldersDiffer' BY DEF HoldersDiffer
    <3>2. NotStartedYet' BY DEF NotStartedYet
    <3>3. CurrentWatched' BY DEF CurrentWatched
    <3> QED BY <3>1, <3>2, <3>3
  <2>5. CASE /\ UNCHANGED <<clientVars, watcherVars>>
             /\ pc[p] \notin {"startWatch", "closing"}
             /\ pc'[p] \notin {"startWatch", "closing"}
             /\ \A q \in Callers \ {p} : pc'[q] = pc[q] /\ holds'[q] = holds[q]
    BY <2>5, ConnectedUntouched
  <2>6. CASE ConnectConfigError(p) BY <2>5, <2>6 DEF ConnectConfigError
  <2>7. CASE ConnectAlready(p) BY <2>5, <2>7 DEF ConnectAlready
  <2>8. CASE ConnectDialError(p) BY <2>5, <2>8 DEF ConnectDialError
  <2>9. CASE ConnPanic(p) BY <2>5, <2>9 DEF ConnPanic
  <2>10. CASE Conn(p, "kick") \/ Conn(p, "list") BY <2>5, <2>10 DEF Conn
  <2>11. CASE WaitReadyKick(p) BY <2>5, <2>11 DEF WaitReadyKick
  <2>12. CASE WaitReadyCheck(p)
    <3>1. CASE channel[holds[p]] = "Ready" BY <2>5, <2>12, <3>1 DEF WaitReadyCheck
    <3>2. CASE channel[holds[p]] # "Ready" BY <2>5, <2>12, <3>2 DEF WaitReadyCheck
    <3> QED BY <3>1, <3>2
  <2>13. CASE WaitReadyWake(p) BY <2>5, <2>13 DEF WaitReadyWake
  <2>14. CASE WaitReadyExpire(p) BY <2>5, <2>14 DEF WaitReadyExpire, MayExpire
  <2>15. CASE ListServicesOpen(p) BY <2>5, <2>15 DEF ListServicesOpen
  <2>16. CASE ListServicesRecv(p) BY <2>5, <2>16 DEF ListServicesRecv
  <2>17. CASE ListServicesReturn(p) BY <2>5, <2>17 DEF ListServicesReturn
  <2>18. CASE ListServicesFail(p) BY <2>5, <2>18 DEF ListServicesFail
  <2> QED BY <1>1, <2>1, <2>2, <2>3, <2>4, <2>6, <2>7, <2>8, <2>9, <2>10, <2>11,
             <2>12, <2>13, <2>14, <2>15, <2>16, <2>17, <2>18 DEF CallerStep
<1>2. ASSUME NEW w \in Dials, WatcherStep(w) PROVE ConnectedInv'
  <2>1. /\ UNCHANGED <<conn, healthCancel, healthWatch, pc, holds, wctx, wconn>>
        /\ wpc[w] \in {"watch", "recv", "sleep"}
        /\ \A v \in Dials \ {w} : wpc'[v] = wpc[v]
    BY <1>0, <1>2 DEF TypeOK, WatcherStep, WatchNilConn, WatchOk, WatchErr, RecvErr,
       SleepElapsed, SleepCancelled, clientVars, callerVars, options
  <2>2. /\ wpc'[w] \in {"watch", "recv", "sleep", "done", "panic"}
        /\ ~wctx[w] /\ wconn[w] # NoConn => wpc'[w] \in {"watch", "recv", "sleep"}
    BY <1>0, <1>2 DEF TypeOK, WatcherStep, WatchNilConn, WatchOk, WatchErr, RecvErr,
       SleepElapsed, SleepCancelled, AfterError
  <2>3. HoldersDiffer' BY <2>1 DEF ConnectedInv, HoldersDiffer
  <2>4. NotStartedYet'
    <3>1. \A v \in Dials : wpc'[v] = "none" <=> wpc[v] = "none"
      BY <2>1, <2>2
    <3>2. \A q \in Callers : pc[q] = "startWatch" => holds[q] \in Dials
      <4> TAKE q \in Callers
      <4>1. dialed \in 0..MaxDials /\ MaxDials \in Nat BY <1>0, MaxDialsNat DEF TypeOK
      <4>2. pc[q] = "startWatch" => holds[q] \in 1..dialed
        BY <1>0 DEF HoldsDialled, HoldingPoints
      <4> QED BY <4>1, <4>2 DEF Dials
    <3> QED BY <2>1, <3>1, <3>2 DEF ConnectedInv, NotStartedYet
  <2>5. CurrentWatched'
    BY <1>0, <2>1, <2>2 DEF ConnectedInv, CurrentWatched, TypeOK, Dials
  <2> QED BY <2>3, <2>4, <2>5 DEF ConnectedInv
<1>3. ASSUME NEW d \in Dials, ChannelStep(d) PROVE ConnectedInv'
  BY <1>3, ConnectedUntouched
     DEF ChannelStep, clientVars, callerVars, watcherVars, options
<1>4. CASE UNCHANGED vars
  BY <1>4, ConnectedUntouched
     DEF vars, clientVars, callerVars, watcherVars, options
<1> QED BY <1>1, <1>2, <1>3, <1>4 DEF Next

(* startHealthWatch, client.go:237-298 (doc.go:89-92): however many Connects *)
(* and Closes overlap, the connection a client has is watched by a goroutine *)
(* that nobody has cancelled, from the return of its Connect to its Close.   *)
THEOREM ConnectedStaysWatched == Spec => []ConnectedIsWatched
<1>1. Init => ConnectedInv
  BY DEF Init, ConnectedInv, HoldersDiffer, NotStartedYet, CurrentWatched, Dials,
     NoConn
<1>2. ConnInv /\ ConnectedInv /\ [Next]_vars => ConnectedInv'
  BY ConnectedInductive
<1>3. ConnInv /\ ConnectedInv => ConnectedIsWatched
  BY DEF ConnInv, TypeOK, ConnectedInv, CurrentWatched, ConnectedIsWatched,
     Watching, Live, Dials, NoConn
<1> QED BY ConnAlways, <1>1, <1>2, <1>3, PTL DEF Spec

=============================================================================
