------------------------------- MODULE Demos -------------------------------
(***************************************************************************)
(* The two client programs of the repository against their servers:        *)
(* cmd/client with cmd/server, and examples/loadbalancing, whose main      *)
(* starts its servers itself and spreads calls over them with round_robin. *)
(* A program runs top to bottom; its streams are those of GreeterStream.   *)
(* The sub-connections of the grpc.ClientConn and the balancer's pick      *)
(* among the ready ones are gRPC's, outside this repository.               *)
(***************************************************************************)
EXTENDS GreeterStream

CONSTANTS
    Backends,  \* servers: numServers of them in examples/loadbalancing, and what
               \* localhost resolves to for cmd/client
    Requests,  \* numRequests, 12 in the code
    Streams    \* numStreams, 6 in the code

NoBackend == "none"

ASSUME DemoSizes == Backends # {} /\ Requests \in Nat \ {0} /\ Streams \in Nat \ {0}
ASSUME NoBackendIsNone == NoBackend \notin Backends

VARIABLES
    program,  \* "client" (cmd/client) or "lb" (examples/loadbalancing)
    step,     \* where main is; "done" and "fatal" are its two ends
    up,       \* up[b]: "none", "started" (its goroutine or process), "serving",
              \* "stopped"
    sub,      \* sub[b]: the sub-connection: "idle", "ready", "failed"
    left,     \* calls the present loop has left
    at,       \* the backend of the call or stream in progress
    hits,     \* hits[b]: the loop's tally; "none" is the address "unknown"
    tagged    \* history: tagged[b]: the loop's calls in which b ran its tag

demoVars == <<program, step, up, sub, left, at, hits, tagged>>
allVars  == <<vars, demoVars>>

Zero == [b \in Backends \union {NoBackend} |-> 0]

DemoInit ==
    /\ Init
    /\ program \in {"client", "lb"}
    /\ step = IF program = "lb" THEN "listen" ELSE "connect"
    /\ up = [b \in Backends |-> "none"]
    /\ sub = [b \in Backends |-> "idle"]
    /\ left = 0
    /\ at = NoBackend
    /\ hits = Zero
    /\ tagged = Zero

Ended     == step \in {"done", "fatal"}
NoneReady == \A b \in Backends : sub[b] # "ready"

-----------------------------------------------------------------------------
(* The servers.  cmd/server is a process of its own; startServers opens all *)
(* listeners before main goes on, and its goroutines reach Serve later.     *)

StartServer(b) ==
    /\ up[b] = "none"
    /\ program = "lb" => step = "listen"
    /\ up' = [up EXCEPT ![b] = "started"]
    /\ UNCHANGED <<vars, program, step, sub, left, at, hits, tagged>>

ListenFails ==
    /\ step = "listen"
    /\ step' = "fatal"
    /\ UNCHANGED <<vars, program, up, sub, left, at, hits, tagged>>

ServersStarted ==
    /\ step = "listen"
    /\ \A b \in Backends : up[b] # "none"
    /\ step' = "connect"
    /\ UNCHANGED <<vars, program, up, sub, left, at, hits, tagged>>

Serve(b) ==
    /\ up[b] = "started"
    /\ up' = [up EXCEPT ![b] = "serving"]
    /\ UNCHANGED <<vars, program, step, sub, left, at, hits, tagged>>

(* Run returns an error: it is logged, or ends the process. *)
ServerStops(b) ==
    /\ up[b] = "serving"
    /\ up' = [up EXCEPT ![b] = "stopped"]
    /\ UNCHANGED <<vars, program, step, sub, left, at, hits, tagged>>

-----------------------------------------------------------------------------
(* The connection.  The addresses are known once Connect has returned.      *)

SubConnects(b) ==
    /\ step \notin {"listen", "connect"}
    /\ sub[b] # "ready"
    /\ up[b] # "started"
    /\ sub' = [sub EXCEPT ![b] = IF up[b] = "serving" THEN "ready" ELSE "failed"]
    /\ UNCHANGED <<vars, program, step, up, left, at, hits, tagged>>

(* A transport is lost, and with it the stream that uses it. *)
TransportLost(b) ==
    /\ sub[b] = "ready"
    /\ sub' = [sub EXCEPT ![b] = "idle"]
    /\ IF at = b /\ client = "recv" /\ ~broken THEN Break ELSE UNCHANGED vars
    /\ UNCHANGED <<program, step, up, left, at, hits, tagged>>

-----------------------------------------------------------------------------
(* main *)

ConnectFails ==
    /\ step = "connect"
    /\ step' = "fatal"
    /\ UNCHANGED <<vars, program, up, sub, left, at, hits, tagged>>

Connect ==
    /\ step = "connect"
    /\ step' = IF program = "lb" THEN "waitReady" ELSE "list"
    /\ UNCHANGED <<vars, program, up, sub, left, at, hits, tagged>>

BeginUnary ==
    /\ step' = "unary"
    /\ left' = IF program = "lb" THEN Requests ELSE 1
    /\ UNCHANGED <<vars, program, up, sub, at, hits, tagged>>

(* WaitReady with a context that never ends. *)
WaitReady == step = "waitReady" /\ ~NoneReady /\ BeginUnary

NoneLeft == \A b \in Backends : sub[b] = "failed"

(* ListServices needs a connection, or fails: main logs it and goes on. *)
ListServices == step = "list" /\ (~NoneReady \/ NoneLeft) /\ BeginUnary

(* The balancer picks a ready sub-connection. *)
SayHello(b) ==
    /\ step = "unary"
    /\ left > 0
    /\ at = NoBackend
    /\ sub[b] = "ready"
    /\ at' = b
    /\ UNCHANGED <<vars, program, step, up, sub, left, hits, tagged>>

Replied ==
    /\ step = "unary"
    /\ at # NoBackend
    /\ tagged' = [tagged EXCEPT ![at] = @ + 1]
    /\ hits' = [hits EXCEPT ![at] = @ + 1]
    /\ left' = left - 1
    /\ at' = NoBackend
    /\ UNCHANGED <<vars, program, step, up, sub>>

(* cmd/client gives up at an error, examples/loadbalancing goes on. *)
OnError ==
    IF program = "lb"
    THEN left' = left - 1 /\ UNCHANGED step
    ELSE step' = "fatal" /\ UNCHANGED left

(* A call fails before or after the server saw it. *)
CallFails ==
    /\ step = "unary"
    /\ at # NoBackend
    /\ \/ tagged' = [tagged EXCEPT ![at] = @ + 1]
       \/ UNCHANGED tagged
    /\ OnError
    /\ at' = NoBackend
    /\ UNCHANGED <<vars, program, up, sub, hits>>

(* With no sub-connection left to wait for, a call or a stream fails. *)
Refused ==
    /\ step \in {"unary", "stream"}
    /\ left > 0
    /\ at = NoBackend
    /\ NoneLeft
    /\ OnError
    /\ UNCHANGED <<vars, program, up, sub, at, hits, tagged>>

(* The Timeout interceptor of cmd/client ends a call that waits for a       *)
(* connection; examples/loadbalancing has no such interceptor.              *)
TimesOut ==
    /\ program = "client"
    /\ step = "unary"
    /\ left > 0
    /\ at = NoBackend
    /\ OnError
    /\ UNCHANGED <<vars, program, up, sub, at, hits, tagged>>

BeginStreams ==
    /\ step = "unary"
    /\ left = 0
    /\ step' = "stream"
    /\ left' = IF program = "lb" THEN Streams ELSE 1
    /\ hits' = Zero
    /\ tagged' = Zero
    /\ UNCHANGED <<vars, program, up, sub, at>>

SayHelloServerStream(b) ==
    /\ step = "stream"
    /\ left > 0
    /\ at = NoBackend
    /\ sub[b] = "ready"
    /\ Open
    /\ at' = b
    /\ UNCHANGED <<program, step, up, sub, left, hits, tagged>>

(* streamServerTag runs before the handler; nobody counts a stream that the *)
(* program gave up before.                                                  *)
StreamServerTag ==
    /\ Start
    /\ tagged' = IF at = NoBackend THEN tagged ELSE [tagged EXCEPT ![at] = @ + 1]
    /\ UNCHANGED <<program, step, up, sub, left, at, hits>>

HeaderKnown == received > 0 \/ client = "eof"

(* Seeded fault: one header variable for all streams. *)
AddrFromHeaderStale ==
    IF HeaderKnown THEN {at} ELSE {NoBackend} \union { b \in Backends : hits[b] > 0 }

(* The header comes with the first greeting or with the end of the stream.  *)
(* A stream that broke may have lost it on the way, or broken before it.    *)
AddrFromHeader ==
    IF HeaderKnown THEN {at} ELSE IF sent > 0 THEN {at, NoBackend} ELSE {NoBackend}

(* drainStream takes an error for the end; cmd/client does not. *)
StreamDrained ==
    /\ step = "stream"
    /\ at # NoBackend
    /\ client \in {"eof", "error"}
    /\ IF program = "lb"
       THEN /\ \E a \in AddrFromHeader : hits' = [hits EXCEPT ![a] = @ + 1]
            /\ left' = left - 1
            /\ UNCHANGED step
       ELSE /\ step' = IF client = "eof" THEN "stream" ELSE "fatal"
            /\ left' = 0
            /\ UNCHANGED hits
    /\ at' = NoBackend
    /\ UNCHANGED <<vars, program, up, sub, tagged>>

End ==
    /\ step = "stream"
    /\ left = 0
    /\ step' = "done"
    /\ UNCHANGED <<vars, program, up, sub, left, at, hits, tagged>>

MainStep ==
    \/ ServersStarted \/ Connect \/ WaitReady \/ ListServices \/ Refused \/ TimesOut
    \/ \E b \in Backends : SayHello(b) \/ SayHelloServerStream(b)
    \/ Replied \/ CallFails \/ BeginStreams \/ StreamDrained \/ End

DemoNext ==
    \/ ~Ended /\ (MainStep \/ ListenFails \/ ConnectFails)
    \/ ~Ended /\ \E b \in Backends :
          StartServer(b) \/ Serve(b) \/ ServerStops(b) \/ SubConnects(b) \/ TransportLost(b)
    \/ StreamServerTag
    \/ StreamStep /\ UNCHANGED demoVars

(* main runs on, its servers reach Serve, and a call is answered or fails;  *)
(* gRPC keeps trying to connect.                                            *)
DemoFairness ==
    /\ StreamFairness
    /\ WF_allVars(MainStep /\ ~Ended)
    /\ \A b \in Backends :
          WF_allVars((StartServer(b) \/ Serve(b) \/ SubConnects(b)) /\ ~Ended)

DemoSafe == DemoInit /\ [][DemoNext]_allVars
DemoSpec == DemoSafe /\ DemoFairness

-----------------------------------------------------------------------------
(* Properties *)

(* examples/loadbalancing/demo.go, main.go:12-14, "Each response includes    *)
(* the server's listen address so the round-robin distribution is clearly    *)
(* visible": whatever calls fail and whatever streams break, before or after *)
(* their header, the tally credits no server with a call it did not see.     *)
HitsAreReal == \A b \in Backends : hits[b] <= tagged[b]

(* Both programs end, whatever breaks, unless again and again no connection  *)
(* is ready while they wait for one without a deadline: cmd/client has one   *)
(* for its unary call (main.go:42), but none for ListServices and its        *)
(* stream, and examples/loadbalancing has none at all.  No handler is left   *)
(* behind.                                                                   *)
BothEnd ==
    /\ HandlerEnds
    /\ <>Ended \/ ([]<>NoneReady /\ <>[](program = "client" => step \in {"list", "stream"}))

-----------------------------------------------------------------------------
(* The inductive strengthening that the proofs rest on. *)

DemoTypeOK ==
    /\ left \in Nat
    /\ at \in Backends \union {NoBackend}
    /\ hits \in [Backends \union {NoBackend} -> Nat]
    /\ tagged \in [Backends \union {NoBackend} -> Nat]

(* A call is in progress only inside one of the two loops, and is one of     *)
(* the calls that the loop has left.                                         *)
CallInLoop == at # NoBackend => step \in {"unary", "stream"} /\ left > 0

(* The server of a stream that started ran its tag, before the tally. *)
TallyBehind ==
    \A b \in Backends :
        hits[b] + (IF step = "stream" /\ at = b /\ pc # "new" THEN 1 ELSE 0) <= tagged[b]

TallyInv == DemoTypeOK /\ CallInLoop /\ TallyBehind

=============================================================================
