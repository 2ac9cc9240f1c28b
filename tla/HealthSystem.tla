---------------------------- MODULE HealthSystem ----------------------------
(***************************************************************************)
(* A Server (ServerLifecycle) and a Client with WithHealthWatch            *)
(* (ClientLifecycle) that talk to each other: the stream that the client's *)
(* watcher goroutine opens is the health Watch that the server's           *)
(* GracefulStop waits for, and the status that Run and the application set *)
(* is what the watcher receives.  Each component's environment is the      *)
(* other component and a network that loses a bounded number of            *)
(* transports.  A connection's watch stream has the connection's number.   *)
(***************************************************************************)
EXTENDS ServerLifecycle, FiniteSetsExt

CONSTANTS
    App,             \* the goroutine that calls Connect and Close
    MaxDials,        \* bound: successful Connects
    InitialBackoff,  \* as in ClientLifecycle
    MaxBackoff,
    MaxNaps,         \* bound: sleeps counted, the later ones have the longest delay
    MaxBreaks        \* bound: transports lost

VARIABLES
    conn, healthCancel, healthWatch, clientErr, dialed, channel,
    cpc, holds, observed, result, wpc, wctx, wconn, backoff,
    attached,  \* attached[d]: the server behind d's transport: "none", "live",
               \* or "orphan", one that a failed Run left behind
    seen,      \* seen[d]: the last status that d's stream delivered
    naps,      \* history: naps[d]: sleeps since d's watcher last opened a
               \* stream, MaxNaps standing for as many or more
    breaks     \* transports lost so far

C == INSTANCE ClientLifecycle
         WITH Callers <- {App}, Serialised <- TRUE, configErr <- clientErr, pc <- cpc

ASSUME WatchPerDial == Watches = C!Dials /\ MaxDials \in Nat /\ MaxBreaks \in Nat
ASSUME NapsReachMax == /\ InitialBackoff \in Nat \ {0}
                       /\ MaxBackoff \in Nat
                       /\ InitialBackoff <= MaxBackoff
                       /\ MaxNaps \in Nat
                       /\ InitialBackoff * 2^MaxNaps >= MaxBackoff

clientVars == <<conn, healthCancel, healthWatch, clientErr, dialed, channel, cpc, holds,
                observed, result, wpc, wctx, wconn, backoff>>
netVars == <<attached, seen, naps, breaks>>
sysVars == <<vars, clientVars, netVars>>

SysInit ==
    /\ Init
    /\ C!Init
    /\ healthWatch /\ ~clientErr
    /\ attached = [d \in C!Dials |-> "none"]
    /\ seen = [d \in C!Dials |-> "none"]
    /\ naps = [d \in C!Dials |-> 0]
    /\ breaks = 0

-----------------------------------------------------------------------------
(* The server moves.  GracefulStop sends GOAWAY: nothing new starts on its  *)
(* transports.  A Run that fails leaves its transports up.                  *)
TransportsAfter ==
    [d \in C!Dials |->
        CASE attached[d] # "live" \/ grpcServer' = "serving" -> attached[d]
          [] grpcServer' = "none"                            -> "orphan"
          [] OTHER                                           -> "none"]

ServerMoves ==
    /\ \/ RunStep
       \/ ServeStep
       \/ AppStep
       \/ \E r \in RPCs \ Watches : RPCBegin(r) \/ RPCEnd(r)
    /\ attached' = TransportsAfter
    /\ UNCHANGED <<clientVars, seen, naps, breaks>>

(* The application connects and closes. *)
Connects ==
    /\ C!ConnectDial(App) \/ C!StartHealthWatch(App) \/ C!CloseCancel(App)
    /\ UNCHANGED <<vars, netVars>>

Closes ==
    /\ C!CloseConn(App)
    /\ attached' = [d \in C!Dials |-> IF d = conn THEN "none" ELSE attached[d]]
    /\ UNCHANGED <<vars, seen, naps, breaks>>

(* grpc.ClientConn: it reaches a server that accepts, fails to reach one    *)
(* that does not, and notices a transport that is gone.                     *)
Accepting == grpcServer = "serving" /\ serve = "serving" /\ lis = "open"

ChannelMoves(d) ==
    /\ C!ChannelStep(d)
    /\ channel'[d] = "Ready" => Accepting
    /\ channel'[d] = "TransientFailure" => ~Accepting
    /\ channel[d] = "Ready" => attached[d] = "none"
    /\ attached' = IF channel'[d] = "Ready" THEN [attached EXCEPT ![d] = "live"] ELSE attached
    /\ UNCHANGED <<vars, seen, naps, breaks>>

-----------------------------------------------------------------------------
(* The watcher goroutine and its stream. *)

WatchOpens(d) ==
    /\ C!WatchOk(d)
    /\ \/ attached[d] = "live" /\ RPCBegin(d)
       \/ attached[d] = "orphan" /\ SetRPC(d, {"none"}, "orphan")
    /\ seen' = [seen EXCEPT ![d] = "none"]
    /\ naps' = [naps EXCEPT ![d] = 0]
    /\ UNCHANGED <<attached, breaks>>

(* Watch fails fast on a failing or closed channel or a draining transport; *)
(* it waits while the channel connects.                                     *)
WatchFails(d) ==
    /\ C!WatchErr(d)
    /\ \/ wctx[d]
       \/ channel[d] \in {"TransientFailure", "Shutdown"}
       \/ channel[d] = "Ready" /\ attached[d] = "none"
    /\ UNCHANGED <<vars, netVars>>

(* The health service sends the status of its server when it differs from   *)
(* the last one sent; statuses in between may be skipped.                   *)
Status(d) == IF rpc[d] = "orphan" THEN "NOT_SERVING" ELSE health

StatusArrives(d) ==
    /\ wpc[d] = "recv"
    /\ rpc[d] # "none"
    /\ seen[d] # Status(d)
    /\ seen' = [seen EXCEPT ![d] = Status(d)]
    /\ UNCHANGED <<vars, clientVars, attached, naps, breaks>>

WatchEnds(d) ==
    /\ C!RecvErr(d)
    /\ wctx[d] \/ channel[d] = "Shutdown"
    /\ UNCHANGED <<vars, netVars>>

WatchBreaks(d) ==
    /\ C!RecvErr(d)
    /\ breaks < MaxBreaks
    /\ breaks' = breaks + 1
    /\ attached' = [attached EXCEPT ![d] = "none"]
    /\ UNCHANGED <<vars, seen, naps>>

(* The server notices that the client is gone. *)
StreamGone(d) ==
    /\ wpc[d] # "recv"
    /\ RPCEnd(d)
    /\ UNCHANGED <<clientVars, netVars>>

SleepEnds(d) ==
    /\ \/ /\ C!SleepElapsed(d)
          /\ naps' = [naps EXCEPT ![d] = Min({@ + 1, MaxNaps})]
       \/ C!SleepCancelled(d) /\ UNCHANGED naps
    /\ UNCHANGED <<vars, attached, seen, breaks>>

WatcherMoves(d) == WatchOpens(d) \/ WatchFails(d) \/ WatchEnds(d) \/ SleepEnds(d)

SysNext ==
    \/ ServerMoves
    \/ Connects
    \/ Closes
    \/ \E d \in C!Dials :
          ChannelMoves(d) \/ WatcherMoves(d) \/ StatusArrives(d) \/ WatchBreaks(d) \/ StreamGone(d)

(* To what each component is granted alone, the composition adds what the   *)
(* network owes: a channel keeps trying, a status that is sent arrives, and *)
(* the end of a stream reaches the server.  A watcher runs and its timers   *)
(* fire.                                                                    *)
SysFairness ==
    /\ Fairness
    /\ WF_sysVars(cpc[App] # "idle" /\ (Connects \/ Closes))
    /\ \A d \in C!Dials :
          /\ WF_sysVars(ChannelMoves(d))
          /\ WF_sysVars(WatcherMoves(d))
          /\ WF_sysVars(StatusArrives(d) \/ StreamGone(d))

SysSafe == SysInit /\ [][SysNext]_sysVars
SysSpec == SysSafe /\ SysFairness

-----------------------------------------------------------------------------
(* Properties *)

(* startHealthWatch, client.go:257-296, internal/client/doc.go:91,           *)
(* "exponential backoff (500ms to 30s)": the n-th sleep after the last       *)
(* stream that opened is the initial backoff doubled n times, up to the      *)
(* maximum; a stream that opens, however soon it breaks, starts afresh.      *)
BackoffIsExponential ==
    \A d \in C!Dials : backoff[d] = Min({InitialBackoff * 2^naps[d], MaxBackoff})

Connected == conn # C!NoConn /\ cpc[App] = "idle"

CaughtUp == \E d \in C!Dials : d = conn /\ wpc[d] = "recv" /\ seen[d] = health

OnOrphan == \E d \in C!Dials : d = conn /\ rpc[d] = "orphan"

(* startHealthWatch, internal/client/doc.go:89-92, "automatically            *)
(* reconnects", against Run: if a server stays up and a client connected,    *)
(* then across lost transports, earlier shutdowns and restarts the watcher   *)
(* learns the present status again and again; except where its stream is     *)
(* still served by a grpc.Server that a failed Run left behind.              *)
WatcherCatchesUp ==
    <>[](pc = "select" /\ Accepting /\ Connected) => []<>CaughtUp \/ <>[]OnOrphan

(* Close, client.go:187-204, against Run's GracefulStop: a shutdown that the *)
(* client's own watcher holds up is over soon after the client closes,       *)
(* unless the client connects again.                                         *)
CloseReleasesDrain ==
    ctxDone /\ pc # "idle" /\ conn = C!NoConn ~> pc = "idle" \/ conn # C!NoConn

-----------------------------------------------------------------------------
(* What the proof of BackoffIsExponential rests on. *)
NapsInv ==
    /\ backoff \in [C!Dials -> Int]
    /\ naps \in [C!Dials -> 0..MaxNaps]
    /\ BackoffIsExponential

=============================================================================
