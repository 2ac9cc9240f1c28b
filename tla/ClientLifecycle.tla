--------------------------- MODULE ClientLifecycle ---------------------------
(***************************************************************************)
(* internal/client/client.go: one Client shared by several caller          *)
(* goroutines.  Connect, WaitReady, State and Close run in the callers;    *)
(* startHealthWatch starts one background goroutine per successful         *)
(* Connect.  Client.mu guards conn and healthCancel; a critical section    *)
(* that nobody can observe half-way is one step, Close is two, because the *)
(* watcher goroutine sees the cancelled context before the closed          *)
(* connection.  Between the two critical sections of Connect (the          *)
(* assignment of conn and the one inside startHealthWatch) the mutex is    *)
(* free, and the model lets every other goroutine in.                      *)
(*                                                                         *)
(* Connections are numbered in dial order.  The goroutine, the context and *)
(* the CancelFunc that a Connect creates carry the number of the           *)
(* connection that this Connect dialled; the connection the goroutine      *)
(* really watches is wconn, read from Client.conn in startHealthWatch.     *)
(***************************************************************************)
EXTENDS Integers

CONSTANTS
    Callers,         \* goroutines of the application that share the Client
    MaxDials,        \* bound: successful dials in one behaviour
    Serialised,      \* the application never overlaps a Connect with a Close
    InitialBackoff,  \* 500ms, in units of 500ms
    MaxBackoff       \* 30s, in units of 500ms

ASSUME CallersNotEmpty == Callers # {}
ASSUME MaxDialsNat     == MaxDials \in Nat
ASSUME SerialisedBool  == Serialised \in BOOLEAN
ASSUME BackoffOrder    == /\ InitialBackoff \in Nat \ {0}
                          /\ MaxBackoff \in Nat
                          /\ InitialBackoff <= MaxBackoff

Dials  == 1..MaxDials
NoConn == 0                     \* a nil *grpc.ClientConn or CancelFunc

OpenStates    == {"Idle", "Connecting", "Ready", "TransientFailure"}
ChannelStates == OpenStates \union {"Undialled", "Shutdown"}

WaitReadyPoints == {"kick", "check", "wait"}
ListPoints      == {"list", "listRecv", "listed"}
CallerPoints    == {"idle", "startWatch", "closing"} \union WaitReadyPoints \union ListPoints
WatcherPoints   == {"none", "watch", "recv", "sleep", "done", "panic"}
Results         == {"none", "nil", "error", "panic"}

VARIABLES
    conn,          \* Client.conn
    healthCancel,  \* Client.healthCancel
    healthWatch,   \* Client.healthWatch, fixed by New
    configErr,     \* Client.configErr # nil, fixed by New
    dialed,        \* connections dialled so far
    channel,       \* channel[d]: connectivity state of connection d
    pc,            \* pc[p]: where caller p is
    holds,         \* holds[p]: the connection in p's local variable
    observed,      \* observed[p]: the state WaitReady read last
    result,        \* result[p]: what p's last call returned
    wpc,           \* wpc[w]: where watcher goroutine w is
    wctx,          \* wctx[w]: w's context is cancelled
    wconn,         \* wconn[w]: the connection w watches
    backoff        \* backoff[w]: w's next sleep

options     == <<healthWatch, configErr>>
clientVars  == <<conn, healthCancel, dialed, options>>
callerVars  == <<pc, holds, observed, result>>
watcherVars == <<wpc, wctx, wconn, backoff>>
vars == <<clientVars, channel, callerVars, watcherVars>>

TypeOK ==
    /\ conn \in {NoConn} \union Dials
    /\ healthCancel \in {NoConn} \union Dials
    /\ healthWatch \in BOOLEAN
    /\ configErr \in BOOLEAN
    /\ dialed \in 0..MaxDials
    /\ channel \in [Dials -> ChannelStates]
    /\ pc \in [Callers -> CallerPoints]
    /\ holds \in [Callers -> {NoConn} \union Dials]
    /\ observed \in [Callers -> ChannelStates]
    /\ result \in [Callers -> Results]
    /\ wpc \in [Dials -> WatcherPoints]
    /\ wctx \in [Dials -> BOOLEAN]
    /\ wconn \in [Dials -> {NoConn} \union Dials]
    /\ backoff \in [Dials -> InitialBackoff..MaxBackoff]

Init ==
    /\ conn = NoConn
    /\ healthCancel = NoConn
    /\ healthWatch \in BOOLEAN
    /\ configErr \in BOOLEAN
    /\ dialed = 0
    /\ channel = [d \in Dials |-> "Undialled"]
    /\ pc = [p \in Callers |-> "idle"]
    /\ holds = [p \in Callers |-> NoConn]
    /\ observed = [p \in Callers |-> "Undialled"]
    /\ result = [p \in Callers |-> "none"]
    /\ wpc = [w \in Dials |-> "none"]
    /\ wctx = [w \in Dials |-> FALSE]
    /\ wconn = [w \in Dials |-> NoConn]
    /\ backoff = [w \in Dials |-> InitialBackoff]

-----------------------------------------------------------------------------
(* The mutex is held across a step only by a Close between its two halves. *)
MuFree == \A p \in Callers : pc[p] # "closing"

(* A panic in a watcher goroutine ends the whole process. *)
Running == \A w \in Dials : wpc[w] # "panic"

(* What the application does when it serialises Connect and Close. *)
MayCall(p) ==
    /\ Running
    /\ pc[p] = "idle"
    /\ Serialised => \A q \in Callers : pc[q] \notin {"startWatch", "closing"}

(* State: what a caller reads under the read lock. *)
State == IF conn = NoConn THEN "Shutdown" ELSE channel[conn]

(* A call in progress is at a point with its locals c and s, or returns r *)
(* and drops them.                                                        *)
Goto(p, point, c, s) ==
    /\ pc' = [pc EXCEPT ![p] = point]
    /\ result' = [result EXCEPT ![p] = "none"]
    /\ holds' = [holds EXCEPT ![p] = c]
    /\ observed' = [observed EXCEPT ![p] = s]

Return(p, r) ==
    /\ pc' = [pc EXCEPT ![p] = "idle"]
    /\ result' = [result EXCEPT ![p] = r]
    /\ holds' = [holds EXCEPT ![p] = NoConn]
    /\ observed' = [observed EXCEPT ![p] = "Undialled"]

-----------------------------------------------------------------------------
(* Connect *)

ConnectConfigError(p) ==
    /\ MayCall(p)
    /\ configErr
    /\ Return(p, "error")
    /\ UNCHANGED <<clientVars, channel, watcherVars>>

(* Seeded fault: the check for an existing connection is dropped. *)
AlreadyConnectedUnchecked == FALSE

AlreadyConnected == conn # NoConn

ConnectAlready(p) ==
    /\ MayCall(p)
    /\ MuFree
    /\ ~configErr
    /\ AlreadyConnected
    /\ Return(p, "error")
    /\ UNCHANGED <<clientVars, channel, watcherVars>>

ConnectDialError(p) ==
    /\ MayCall(p)
    /\ MuFree
    /\ ~configErr
    /\ ~AlreadyConnected
    /\ Return(p, "error")
    /\ UNCHANGED <<clientVars, channel, watcherVars>>

ConnectDial(p) ==
    /\ MayCall(p)
    /\ MuFree
    /\ ~configErr
    /\ ~AlreadyConnected
    /\ dialed < MaxDials
    /\ dialed' = dialed + 1
    /\ conn' = dialed + 1
    /\ channel' = [channel EXCEPT ![dialed + 1] = "Idle"]
    /\ IF healthWatch
       THEN Goto(p, "startWatch", dialed + 1, "Undialled")
       ELSE Return(p, "nil")
    /\ UNCHANGED <<healthCancel, options, watcherVars>>

(* Seeded fault: startHealthWatch does not store its CancelFunc. *)
RegisteredNot(w) == healthCancel

Registered(w) == w

(* The second critical section of Connect, then the go statement. *)
StartHealthWatch(p) ==
    LET w == holds[p] IN
    /\ Running
    /\ pc[p] = "startWatch"
    /\ MuFree
    /\ healthCancel' = Registered(w)
    /\ wconn' = [wconn EXCEPT ![w] = conn]
    /\ wpc' = [wpc EXCEPT ![w] = "watch"]
    /\ Return(p, "nil")
    /\ UNCHANGED <<conn, dialed, options, channel, wctx, backoff>>

-----------------------------------------------------------------------------
(* Close: cancel the health watch, then close the connection. *)

(* Seeded fault: Close forgets to cancel the health watch. *)
CancelledNot(w) == wctx[w]

Cancelled(w) == wctx[w] \/ w = healthCancel

CloseCancel(p) ==
    /\ MayCall(p)
    /\ MuFree
    /\ Goto(p, "closing", NoConn, "Undialled")
    /\ healthCancel' = NoConn
    /\ wctx' = [w \in Dials |-> Cancelled(w)]
    /\ UNCHANGED <<conn, dialed, options, channel, wpc, wconn, backoff>>

CloseConn(p) ==
    /\ Running
    /\ pc[p] = "closing"
    /\ channel' = [d \in Dials |-> IF d = conn THEN "Shutdown" ELSE channel[d]]
    /\ conn' = NoConn
    /\ Return(p, IF State = "Shutdown" /\ conn # NoConn THEN "error" ELSE "nil")
    /\ UNCHANGED <<healthCancel, dialed, options, watcherVars>>

-----------------------------------------------------------------------------
(* WaitReady and ListServices: Conn() under the read lock, then the wait   *)
(* loop or the reflection call without it.                                 *)

(* Conn() for WaitReady or ListServices, which continue at point next. *)
ConnPanic(p) ==
    /\ Running
    /\ pc[p] = "idle"
    /\ MuFree
    /\ conn = NoConn
    /\ Return(p, "panic")
    /\ UNCHANGED <<clientVars, channel, watcherVars>>

Conn(p, next) ==
    /\ Running
    /\ pc[p] = "idle"
    /\ MuFree
    /\ conn # NoConn
    /\ Goto(p, next, conn, "Undialled")
    /\ UNCHANGED <<clientVars, channel, watcherVars>>

WaitReadyKick(p) ==
    /\ Running
    /\ pc[p] = "kick"
    /\ Goto(p, "check", holds[p], "Undialled")
    /\ channel' = [channel EXCEPT ![holds[p]] =
                       IF @ = "Idle" THEN "Connecting" ELSE @]
    /\ UNCHANGED <<clientVars, watcherVars>>

WaitReadyCheck(p) ==
    /\ Running
    /\ pc[p] = "check"
    /\ IF channel[holds[p]] = "Ready"
       THEN Return(p, "nil")
       ELSE Goto(p, "wait", holds[p], channel[holds[p]])
    /\ UNCHANGED <<clientVars, channel, watcherVars>>

WaitReadyWake(p) ==
    /\ Running
    /\ pc[p] = "wait"
    /\ channel[holds[p]] # observed[p]
    /\ Goto(p, "check", holds[p], "Undialled")
    /\ UNCHANGED <<clientVars, channel, watcherVars>>

(* Seeded fault: WaitReady ignores its context. *)
MayExpireNever(p) == FALSE

MayExpire(p) == pc[p] = "wait"

WaitReadyExpire(p) ==
    /\ Running
    /\ MayExpire(p)
    /\ Return(p, "error")
    /\ UNCHANGED <<clientVars, channel, watcherVars>>

(* defaultListServices: the stream needs a transport, the reply an open    *)
(* connection.  What Recv has got is returned whatever happens to the      *)
(* connection afterwards.                                                  *)
ListServicesOpen(p) ==
    /\ Running
    /\ pc[p] = "list"
    /\ channel[holds[p]] = "Ready"
    /\ Goto(p, "listRecv", holds[p], "Undialled")
    /\ UNCHANGED <<clientVars, channel, watcherVars>>

ListServicesRecv(p) ==
    /\ Running
    /\ pc[p] = "listRecv"
    /\ channel[holds[p]] \in OpenStates
    /\ Goto(p, "listed", holds[p], "Undialled")
    /\ UNCHANGED <<clientVars, channel, watcherVars>>

(* The list, or an error if the response is of another type. *)
ListServicesReturn(p) ==
    /\ Running
    /\ pc[p] = "listed"
    /\ \E r \in {"nil", "error"} : Return(p, r)
    /\ UNCHANGED <<clientVars, channel, watcherVars>>

ListServicesFail(p) ==
    /\ Running
    /\ pc[p] \in {"list", "listRecv"}
    /\ Return(p, "error")
    /\ UNCHANGED <<clientVars, channel, watcherVars>>

-----------------------------------------------------------------------------
(* The goroutine of startHealthWatch. *)

(* The default watch function dereferences its connection. *)
WatchNilConn(w) ==
    /\ Running
    /\ wpc[w] = "watch"
    /\ wconn[w] = NoConn
    /\ wpc' = [wpc EXCEPT ![w] = "panic"]
    /\ UNCHANGED <<clientVars, channel, callerVars, wctx, wconn, backoff>>

WatchOk(w) ==
    /\ Running
    /\ wpc[w] = "watch"
    /\ wconn[w] # NoConn
    /\ channel[wconn[w]] = "Ready"
    /\ ~wctx[w]
    /\ wpc' = [wpc EXCEPT ![w] = "recv"]
    /\ backoff' = [backoff EXCEPT ![w] = InitialBackoff]
    /\ UNCHANGED <<clientVars, channel, callerVars, wctx, wconn>>

(* Seeded fault: the error branches never look at ctx.Err(). *)
AfterErrorUnchecked(w) == "sleep"

(* Seeded fault: the watcher gives up after an error. *)
AfterErrorGivesUp(w) == "done"

AfterError(w) == IF wctx[w] THEN "done" ELSE "sleep"

WatchErr(w) ==
    /\ Running
    /\ wpc[w] = "watch"
    /\ wconn[w] # NoConn
    /\ wpc' = [wpc EXCEPT ![w] = AfterError(w)]
    /\ UNCHANGED <<clientVars, channel, callerVars, wctx, wconn, backoff>>

(* A status that arrives is logged and changes nothing. *)
RecvErr(w) ==
    /\ Running
    /\ wpc[w] = "recv"
    /\ wpc' = [wpc EXCEPT ![w] = AfterError(w)]
    /\ UNCHANGED <<clientVars, channel, callerVars, wctx, wconn, backoff>>

(* Seeded fault: the backoff is doubled without its cap. *)
DoubledUncapped(b) == 2 * b

Doubled(b) == IF 2 * b < MaxBackoff THEN 2 * b ELSE MaxBackoff

SleepElapsed(w) ==
    /\ Running
    /\ wpc[w] = "sleep"
    /\ wpc' = [wpc EXCEPT ![w] = "watch"]
    /\ backoff' = [backoff EXCEPT ![w] = Doubled(@)]
    /\ UNCHANGED <<clientVars, channel, callerVars, wctx, wconn>>

SleepCancelled(w) ==
    /\ Running
    /\ wpc[w] = "sleep"
    /\ wctx[w]
    /\ wpc' = [wpc EXCEPT ![w] = "done"]
    /\ UNCHANGED <<clientVars, channel, callerVars, wctx, wconn, backoff>>

WatcherStep(w) ==
    \/ WatchNilConn(w)
    \/ WatchOk(w)
    \/ WatchErr(w)
    \/ RecvErr(w)
    \/ SleepElapsed(w)
    \/ SleepCancelled(w)

-----------------------------------------------------------------------------
(* grpc.ClientConn, outside this repository: an open connection moves       *)
(* between its connectivity states on its own.                              *)
ChannelMoves ==
    { <<"Idle", "Connecting">>, <<"Connecting", "Ready">>,
      <<"Connecting", "TransientFailure">>, <<"TransientFailure", "Connecting">>,
      <<"TransientFailure", "Idle">>, <<"Ready", "Idle">> }

ChannelStep(d) ==
    /\ Running
    /\ \E s \in OpenStates :
          /\ <<channel[d], s>> \in ChannelMoves
          /\ channel' = [channel EXCEPT ![d] = s]
    /\ UNCHANGED <<clientVars, callerVars, watcherVars>>

CallerStep(p) ==
    \/ ConnectConfigError(p)
    \/ ConnectAlready(p)
    \/ ConnectDialError(p)
    \/ ConnectDial(p)
    \/ StartHealthWatch(p)
    \/ CloseCancel(p)
    \/ CloseConn(p)
    \/ ConnPanic(p)
    \/ Conn(p, "kick")
    \/ Conn(p, "list")
    \/ WaitReadyKick(p)
    \/ WaitReadyCheck(p)
    \/ WaitReadyWake(p)
    \/ WaitReadyExpire(p)
    \/ ListServicesOpen(p)
    \/ ListServicesRecv(p)
    \/ ListServicesReturn(p)
    \/ ListServicesFail(p)

Next ==
    \/ \E p \in Callers : CallerStep(p)
    \/ \E w \in Dials : WatcherStep(w)
    \/ \E d \in Dials : ChannelStep(d)

(***************************************************************************)
(* Fairness.  A call that is inside the client's own code runs on; a       *)
(* cancelled context unblocks the call, the Recv or the sleep that waits   *)
(* on it, so a cancelled watcher runs on; the context of a WaitReady       *)
(* expires, which the caller notices if it blocks again and again.         *)
(* Nothing is assumed of the server, of the connection, of a watcher whose *)
(* context is live, or of the application calling anything.                *)
(***************************************************************************)
Fairness ==
    /\ \A p \in Callers :
          /\ WF_vars(StartHealthWatch(p) \/ CloseConn(p))
          /\ WF_vars(WaitReadyKick(p) \/ WaitReadyCheck(p))
          /\ SF_vars(WaitReadyExpire(p))
    /\ \A w \in Dials : WF_vars(wctx[w] /\ WatcherStep(w))

Spec     == Init /\ [][Next]_vars
FairSpec == Spec /\ Fairness

-----------------------------------------------------------------------------
(* Properties *)

Live(w) == wpc[w] \in {"watch", "recv", "sleep", "panic"}

(* The connections a goroutine with a live context watches. *)
Watching == { wconn[w] : w \in { v \in Dials : Live(v) /\ ~wctx[v] } }

Session == INSTANCE ClientSession
               WITH current <- conn, opened <- dialed, watching <- Watching

(* Connect and Close, client.go:105-108 and 185-186, when the application    *)
(* serialises them: the client behaves like one session at a time, watched   *)
(* at most by one goroutine, whose watch ends before the connection closes.  *)
ImplementsSession == Session!Spec

(* Connect, client.go:126-142 ("prevents connection and goroutine leaks"):  *)
(* whatever Connects and Closes overlap, a connection is open exactly while *)
(* it is Client.conn; no dialled connection is overwritten and lost, and    *)
(* Client.conn never refers to a closed one.                                *)
OpenIffCurrent == \A d \in Dials : channel[d] \in OpenStates <=> conn = d

(* Close, client.go:185-204 and the watch's order of cancel and close: when *)
(* Connect and Close are serialised, a watcher whose context is live is the *)
(* registered one and watches the connection the client has now; none is    *)
(* started on a nil connection, none outlives its connection uncancelled.   *)
WatcherOwned ==
    Serialised =>
        \A w \in Dials : Live(w) /\ ~wctx[w] =>
            /\ wpc[w] # "panic"
            /\ healthCancel = w
            /\ wconn[w] = w
            /\ conn = w

(* Close, client.go:185-186: "cancels any background goroutines": once the  *)
(* client is closed and no call is in progress, every health watcher that   *)
(* still runs has been told to stop.                                        *)
CloseCancelsWatchers ==
    conn = NoConn /\ (\A p \in Callers : pc[p] = "idle") =>
        \A w \in Dials : Live(w) => wctx[w]

(* doc.go:89-92 and startHealthWatch, client.go:237-298 ("monitor the        *)
(* server's health status in a background goroutine after connecting",       *)
(* reconnecting whenever the stream is interrupted): whatever Connects and   *)
(* Closes overlap, the connection a client has is watched by a goroutine     *)
(* nobody has cancelled, once its Connect has returned and until a Close     *)
(* takes it; no Close or Connect of another session ends that watch.         *)
ConnectedIsWatched ==
    healthWatch /\ conn # NoConn =>
        \/ \E p \in Callers : pc[p] = "closing"
        \/ \E p \in Callers : pc[p] = "startWatch" /\ holds[p] = conn
        \/ conn \in Watching

(* startHealthWatch, client.go:237-298: the goroutine of a closed connection *)
(* ends, whatever it was waiting for when Close cancelled its context.       *)
ClosedWatcherEnds ==
    \A d \in Dials : channel[d] = "Shutdown" ~> ~Live(d)

(* WaitReady, client.go:153-172: a caller gets its answer even if the        *)
(* connection is closed under it and never becomes ready.                    *)
WaitReadyReturns ==
    \A p \in Callers : pc[p] \in WaitReadyPoints ~> pc[p] = "idle"

-----------------------------------------------------------------------------
(* The inductive strengthening that the proofs rest on. *)

HoldingPoints == WaitReadyPoints \union ListPoints \union {"startWatch"}

(* A call in progress holds a connection that was really dialled. *)
HoldsDialled == \A p \in Callers : pc[p] \in HoldingPoints => holds[p] \in 1..dialed

(* The mutex admits one Close at a time. *)
OneClosing == \A p, q \in Callers : pc[p] = "closing" /\ pc[q] = "closing" => p = q

UndialledAhead ==
    \A d \in Dials : d > dialed => channel[d] = "Undialled" /\ wpc[d] = "none"

ConnInv ==
    /\ TypeOK
    /\ HoldsDialled
    /\ OneClosing
    /\ UndialledAhead
    /\ conn <= dialed
    /\ OpenIffCurrent

(* What serialising Connect and Close adds. *)
OneInside ==
    \A p, q \in Callers :
        pc[p] \in {"startWatch", "closing"} /\ pc[q] \in {"startWatch", "closing"} => p = q

ConnectInside ==
    \A p \in Callers : pc[p] = "startWatch" =>
        /\ holds[p] = conn
        /\ conn # NoConn
        /\ healthCancel = NoConn

CloseInside == \A p \in Callers : pc[p] = "closing" => healthCancel = NoConn

WatchOwnConn == \A w \in Dials : Live(w) => wconn[w] = w /\ wpc[w] # "panic"

WatchInv ==
    /\ OneInside
    /\ ConnectInside
    /\ CloseInside
    /\ WatchOwnConn
    /\ conn = NoConn => healthCancel = NoConn
    /\ \A w \in Dials : Live(w) /\ ~wctx[w] => healthCancel = w /\ conn = w

IInv == ConnInv /\ (Serialised => WatchInv)

(* What ties a connection to its watcher without serialising anything: the  *)
(* goroutine of a Connect does not run, and cannot have been cancelled,     *)
(* before that Connect starts it.                                           *)
HoldersDiffer ==
    \A p, q \in Callers :
        pc[p] = "startWatch" /\ pc[q] = "startWatch" /\ holds[p] = holds[q] => p = q

NotStartedYet ==
    /\ \A p \in Callers : pc[p] = "startWatch" => wpc[holds[p]] = "none"
    /\ \A w \in Dials : wpc[w] = "none" => ~wctx[w] /\ healthCancel # w

(* The only CancelFunc that may end the watch of the current connection is  *)
(* run by the Close that closes it.                                         *)
CurrentWatched ==
    healthWatch /\ conn # NoConn =>
        \/ \E p \in Callers : pc[p] = "closing"
        \/ \E p \in Callers : pc[p] = "startWatch" /\ holds[p] = conn
        \/ /\ wpc[conn] \in {"watch", "recv", "sleep"}
           /\ ~wctx[conn]
           /\ wconn[conn] = conn

ConnectedInv == HoldersDiffer /\ NotStartedYet /\ CurrentWatched

=============================================================================
