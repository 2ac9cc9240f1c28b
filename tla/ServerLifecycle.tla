--------------------------- MODULE ServerLifecycle ---------------------------
(***************************************************************************)
(* internal/server/server.go: one Server, run again and again by its       *)
(* owner.  Run sets a fresh grpc.Server and health.Server up, serves in a  *)
(* goroutine of its own and waits for a cancelled context or a serve       *)
(* error; other goroutines set health statuses and make RPCs meanwhile.    *)
(* The grpc.Server (Serve, GracefulStop) and the health.Server are outside *)
(* this repository and modelled by what Run relies on.  What the           *)
(* grpc.Server is built from is the business of module Options.            *)
(***************************************************************************)
EXTENDS Integers

CONSTANTS
    RPCs,       \* calls that clients make
    Watches,    \* those of them that are health Watch streams
    MaxRuns     \* bound: calls of Run in one behaviour

ASSUME WatchesAreRPCs == Watches \subseteq RPCs
ASSUME MaxRunsNat     == MaxRuns \in Nat

RunPoints == {"idle", "setup", "status", "listen", "select", "shutHealth",
              "graceful", "stopping", "drain"}

VARIABLES
    configErr,    \* Server.configErr # nil, fixed by New
    injected,     \* Server.listener # nil (WithListener)
    pc,           \* where the goroutine of Run is
    ret,          \* what the last Run returned
    runs,         \* calls of Run so far
    ctxDone,      \* the context of this Run is cancelled (caller or signal)
    grpcServer,   \* "none", "created", "serving", "stopping", "stopped"
    health,       \* overall status in Server.healthSrv, "none" before any Run
    healthDown,   \* health.Server.Shutdown was called
    healthGen,    \* the Run that made Server.healthSrv, 0 for a nil pointer
    want,         \* history: the status the application set since then
    lis,          \* this Run's listener: "none", "open" or "closed"
    serve,        \* the serve goroutine: "none", "starting", "serving", "done"
    errCh,        \* the buffered channel: "empty" or the value in it
    rpc           \* rpc[r]: "none", "active", or "orphan" on a server that a
                  \* failed Run left behind

optionVars == <<configErr, injected>>
callVars   == <<ret, runs, ctxDone>>
runVars    == <<pc, callVars>>
healthVars == <<health, healthDown, healthGen, want>>
serveVars  == <<lis, serve, errCh>>
vars == <<optionVars, runVars, grpcServer, healthVars, serveVars, rpc>>

TypeOK ==
    /\ configErr \in BOOLEAN /\ injected \in BOOLEAN
    /\ ctxDone \in BOOLEAN /\ healthDown \in BOOLEAN
    /\ pc \in RunPoints
    /\ ret \in {"none", "nil", "configError", "listenError", "serveError"}
    /\ runs \in 0..MaxRuns
    /\ grpcServer \in {"none", "created", "serving", "stopping", "stopped"}
    /\ health \in {"none", "SERVING", "NOT_SERVING"}
    /\ healthGen \in 0..runs
    /\ want \in {"none", "SERVING", "NOT_SERVING"}
    /\ lis \in {"none", "open", "closed"}
    /\ serve \in {"none", "starting", "serving", "done"}
    /\ errCh \in {"empty", "nil", "stopped", "accept"}
    /\ rpc \in [RPCs -> {"none", "active", "orphan"}]

Init ==
    /\ configErr \in BOOLEAN
    /\ injected \in BOOLEAN
    /\ pc = "idle" /\ ret = "none" /\ runs = 0 /\ ctxDone = FALSE
    /\ grpcServer = "none"
    /\ health = "none" /\ healthDown = FALSE /\ healthGen = 0 /\ want = "none"
    /\ lis = "none" /\ serve = "none" /\ errCh = "empty"
    /\ rpc = [r \in RPCs |-> "none"]

-----------------------------------------------------------------------------
(* The application around Run. *)

(* Health().SetServingStatus on the health.Server of Run g, which the       *)
(* application may have asked for long ago: only the present one is         *)
(* registered with the grpc.Server, and it ignores what comes after its     *)
(* Shutdown.                                                                *)
SetServingStatus(g, s) ==
    /\ g \in 1..healthGen
    /\ IF g = healthGen /\ ~healthDown
       THEN health' = s /\ want' = s
       ELSE UNCHANGED <<health, want>>
    /\ UNCHANGED <<optionVars, runVars, grpcServer, healthDown, healthGen,
                   serveVars, rpc>>

(* The caller cancels the context of Run, or SIGINT or SIGTERM arrives. *)
Shutdown ==
    /\ pc # "idle"
    /\ ctxDone' = TRUE
    /\ UNCHANGED <<optionVars, pc, ret, runs, grpcServer, healthVars,
                   serveVars, rpc>>

-----------------------------------------------------------------------------
(* Run *)

Goto(from, to) == pc = from /\ pc' = to /\ UNCHANGED callVars

Return(r) == pc' = "idle" /\ ret' = r /\ UNCHANGED <<runs, ctxDone>>

RunConfigError ==
    /\ pc = "idle"
    /\ runs < MaxRuns
    /\ configErr
    /\ runs' = runs + 1
    /\ ret' = "configError"
    /\ UNCHANGED <<optionVars, pc, ctxDone, grpcServer, healthVars,
                   serveVars, rpc>>

RunBegin ==
    /\ pc = "idle"
    /\ runs < MaxRuns
    /\ ~configErr
    /\ runs' = runs + 1
    /\ pc' = "setup"
    /\ ret' = "none"
    /\ ctxDone' = FALSE
    /\ UNCHANGED <<optionVars, grpcServer, healthVars, serveVars, rpc>>

(* Seeded fault: one health.Server for every Run. *)
NewHealthReused ==
    /\ health' = IF healthGen = 0 THEN "SERVING" ELSE health
    /\ UNCHANGED healthDown

NewHealth == health' = "SERVING" /\ healthDown' = FALSE

SetupServer ==
    /\ Goto("setup", "status")
    /\ grpcServer' = "created"
    /\ NewHealth
    /\ healthGen' = runs
    /\ want' = "none"
    /\ lis' = "none"
    /\ serve' = "none"
    /\ UNCHANGED <<optionVars, errCh, rpc>>

(* setupServer's own SetServingStatus, after Health() has begun to return   *)
(* the new server: a status the application set in between is lost.         *)
SetupStatus ==
    /\ Goto("status", "listen")
    /\ health' = IF healthDown THEN health ELSE "SERVING"
    /\ want' = "none"
    /\ UNCHANGED <<optionVars, grpcServer, healthDown, healthGen, serveVars, rpc>>

RunListenError ==
    /\ pc = "listen"
    /\ ~injected
    /\ Return("listenError")
    /\ grpcServer' = "none"
    /\ UNCHANGED <<optionVars, healthVars, serveVars, rpc>>

(* The injected listener is consumed; a later Run listens on the port. *)
RunListen ==
    /\ Goto("listen", "select")
    /\ injected' = FALSE
    /\ lis' = "open"
    /\ serve' = "starting"
    /\ errCh' = "empty"
    /\ UNCHANGED <<configErr, grpcServer, healthVars, rpc>>

(* select, case <-ctx.Done(). *)
RunSelectDone ==
    /\ Goto("select", "shutHealth")
    /\ ctxDone
    /\ UNCHANGED <<optionVars, grpcServer, healthVars, serveVars, rpc>>

(* Seeded fault: the health status is not taken down. *)
HealthShutdownSkipped == UNCHANGED healthVars

HealthShutdown ==
    /\ health' = "NOT_SERVING"
    /\ healthDown' = TRUE
    /\ UNCHANGED <<healthGen, want>>

RunShutHealth ==
    /\ Goto("shutHealth", "graceful")
    /\ HealthShutdown
    /\ UNCHANGED <<optionVars, grpcServer, serveVars, rpc>>

(* GracefulStop: it closes the listener if Serve has taken it over, refuses *)
(* new RPCs and returns when the last RPC in flight has ended.              *)
GracefulStopBegin ==
    /\ Goto("graceful", "stopping")
    /\ grpcServer' = "stopping"
    /\ lis' = IF serve = "serving" THEN "closed" ELSE lis
    /\ UNCHANGED <<optionVars, healthVars, serve, errCh, rpc>>

(* Seeded fault: Run stops the server without waiting for RPCs. *)
DrainedUnchecked == TRUE

Drained == \A r \in RPCs : rpc[r] # "active"

GracefulStopEnd ==
    /\ Goto("stopping", "drain")
    /\ Drained
    /\ grpcServer' = "stopped"
    /\ UNCHANGED <<optionVars, healthVars, serveVars, rpc>>

(* Seeded fault: Run returns without waiting for the serve goroutine. *)
ServeResultIgnored == TRUE

ServeResult == errCh # "empty"

RunDrain ==
    /\ pc = "drain"
    /\ ServeResult
    /\ Return("nil")
    /\ errCh' = "empty"
    /\ grpcServer' = "none"
    /\ UNCHANGED <<optionVars, healthVars, lis, serve, rpc>>

(* select, case err := <-errCh: nothing stops the grpc.Server, so the RPCs  *)
(* in flight stay behind.                                                   *)
RunSelectErr ==
    /\ pc = "select"
    /\ errCh # "empty"
    /\ HealthShutdown
    /\ Return("serveError")
    /\ errCh' = "empty"
    /\ grpcServer' = "none"
    /\ rpc' = [r \in RPCs |-> IF rpc[r] = "active" THEN "orphan" ELSE rpc[r]]
    /\ UNCHANGED <<optionVars, lis, serve>>

-----------------------------------------------------------------------------
(* The serve goroutine: errCh <- grpcServer.Serve(lis). *)

ServeStart ==
    /\ serve = "starting"
    /\ grpcServer = "created"
    /\ serve' = "serving"
    /\ grpcServer' = "serving"
    /\ UNCHANGED <<optionVars, runVars, healthVars, lis, errCh, rpc>>

(* Seeded fault: only an error is sent. *)
SentOnlyIfError(err) == IF err = "nil" THEN errCh ELSE err

Sent(err) == err

(* Serve closes its listener and reports what ended it. *)
ServeEnd(err) ==
    /\ serve' = "done"
    /\ lis' = "closed"
    /\ errCh' = Sent(err)
    /\ UNCHANGED <<optionVars, runVars, grpcServer, healthVars, rpc>>

ServeAfterStop ==
    /\ serve = "starting"
    /\ grpcServer \in {"stopping", "stopped"}
    /\ ServeEnd("stopped")

ServeAcceptError ==
    /\ serve = "serving"
    /\ grpcServer = "serving"
    /\ ServeEnd("accept")

ServeReturns ==
    /\ serve = "serving"
    /\ grpcServer = "stopped"
    /\ ServeEnd("nil")

-----------------------------------------------------------------------------
(* RPCs.  A handler ends by itself; a health Watch ends only when its client *)
(* goes away.                                                                *)

SetRPC(r, from, to) ==
    /\ rpc[r] \in from
    /\ rpc' = [rpc EXCEPT ![r] = to]
    /\ UNCHANGED <<optionVars, runVars, grpcServer, healthVars, serveVars>>

RPCBegin(r) == grpcServer = "serving" /\ SetRPC(r, {"none"}, "active")
RPCEnd(r)   == SetRPC(r, {"active", "orphan"}, "none")

-----------------------------------------------------------------------------
RunStep ==
    \/ RunConfigError
    \/ RunBegin
    \/ SetupServer
    \/ SetupStatus
    \/ RunListenError
    \/ RunListen
    \/ RunSelectDone
    \/ RunSelectErr
    \/ RunShutHealth
    \/ GracefulStopBegin
    \/ GracefulStopEnd
    \/ RunDrain

ServeStep == ServeStart \/ ServeAfterStop \/ ServeAcceptError \/ ServeReturns

AppStep ==
    \/ \E g \in 1..MaxRuns, s \in {"SERVING", "NOT_SERVING"} : SetServingStatus(g, s)
    \/ Shutdown

Next == RunStep \/ ServeStep \/ AppStep \/ \E r \in RPCs : RPCBegin(r) \/ RPCEnd(r)

(* Run and the serve goroutine are scheduled; a handler that is not a        *)
(* health Watch returns.  Nothing makes the owner call Run, the listener     *)
(* fail, or a watching client go away.                                       *)
Fairness ==
    /\ WF_vars(pc # "idle" /\ RunStep)
    /\ WF_vars(ServeStart \/ ServeAfterStop \/ ServeReturns)
    /\ \A r \in RPCs \ Watches : WF_vars(RPCEnd(r))

Spec     == Init /\ [][Next]_vars
FairSpec == Spec /\ Fairness

-----------------------------------------------------------------------------
(* Properties *)

(* Run, internal/server/doc.go:57-59: "the internal serve goroutine is       *)
(* always joined before Run returns": none is left, nor its result or        *)
(* listener, even if the context was cancelled before Serve began.           *)
ServeJoined ==
    pc = "idle" => /\ serve \notin {"starting", "serving"}
                   /\ errCh = "empty"
                   /\ lis # "open"

(* Run, server.go:171: "allowing in-flight RPCs to complete": a Run that     *)
(* returns nil has no RPC of its server left.                                *)
NilMeansDrained == pc = "idle" /\ ret = "nil" => \A r \in RPCs : rpc[r] # "active"

(* Run has taken its server down, and may have returned. *)
Down ==
    \/ pc \in {"graceful", "stopping", "drain"}
    \/ pc = "idle" /\ ret \in {"nil", "serveError"}

(* Run, internal/server/doc.go:76-77: "when Run returns (whether from        *)
(* graceful shutdown or a serve error)" the health status is NOT_SERVING,    *)
(* and so it is while the server drains, although the application may set it *)
(* at any time.                                                              *)
NotServingOnceDown == Down => health = "NOT_SERVING"

(* Health, server.go:67-83: while the server is up, whichever Run it is, the *)
(* status is SERVING or what the application set since this Run set the      *)
(* server up; a status set through the health server of an earlier Run, or   *)
(* an earlier Shutdown, does not show.                                       *)
HealthFollowsApp ==
    pc \in {"listen", "select"} =>
        health = IF want = "none" THEN "SERVING" ELSE want

(* Only health Watch streams hold the drain up. *)
HeldByWatch ==
    /\ pc = "stopping"
    /\ \E r \in Watches : rpc[r] = "active"
    /\ \A r \in RPCs \ Watches : rpc[r] # "active"

(* Run, server.go:165-171 and 204-215: once its context is cancelled, Run    *)
(* returns, or its drain waits for health Watch streams that clients keep    *)
(* open and for nothing else (GracefulStop has no timeout, and the health    *)
(* server's Shutdown leaves the streams open).                               *)
RunReturns == ctxDone /\ pc # "idle" ~> pc = "idle" \/ HeldByWatch

-----------------------------------------------------------------------------
(* The inductive strengthening that the proofs rest on. *)

Serving  == {"select", "shutHealth", "graceful"}
Stopping == {"stopping", "drain"}

(* Where Run is decides how far its grpc.Server is. *)
ServerFollowsRun ==
    /\ pc \in {"idle", "setup"} => grpcServer = "none"
    /\ pc \in {"status", "listen"} => grpcServer = "created"
    /\ pc \in Serving => grpcServer \in {"created", "serving"}
    /\ pc = "stopping" => grpcServer = "stopping"
    /\ pc = "drain" => grpcServer = "stopped"

(* The serve goroutine exists from RunListen on, and whoever takes its       *)
(* result from errCh has joined it.                                          *)
ServeFollowsRun ==
    /\ pc \in {"idle", "setup"} => serve \in {"none", "done"} /\ errCh = "empty" /\ lis # "open"
    /\ pc \in {"status", "listen"} => serve = "none" /\ errCh = "empty" /\ lis # "open"
    /\ pc \in Serving \union Stopping => (errCh # "empty" <=> serve = "done")
    /\ serve = "done" => lis = "closed"

(* Only a server that serves or drains has RPCs of its own. *)
ActiveHasServer ==
    \A r \in RPCs : rpc[r] = "active" => grpcServer \in {"serving", "stopping"}

(* The status follows the application until Shutdown, which is final for     *)
(* this Run's health.Server.                                                 *)
HealthFollowsRun ==
    /\ pc \in {"status", "listen", "select", "shutHealth"} => ~healthDown
    /\ Down => healthDown
    /\ healthDown => health = "NOT_SERVING"

ServerInv ==
    /\ TypeOK
    /\ ServerFollowsRun
    /\ ServeFollowsRun
    /\ ActiveHasServer
    /\ HealthFollowsRun
    /\ HealthFollowsApp

=============================================================================
