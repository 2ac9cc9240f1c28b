---------------------------- MODULE GreeterStream ----------------------------
(***************************************************************************)
(* internal/service/greeter/greeter.go, SayHelloServerStream, and the      *)
(* receive loop of a client (cmd/client/main.go, drainStream of            *)
(* examples/loadbalancing) at the other end, one stream after the other.   *)
(* The handler sends its greetings one by one with a cancellable delay in  *)
(* between; the stream between them is gRPC's, outside this repository:    *)
(* ordered, with flow control, and breakable.  The client's cancellation   *)
(* reaches the handler's context some time later.  The two programs are in *)
(* module Demos; they never cancel, other callers may.                     *)
(***************************************************************************)
EXTENDS Integers

CONSTANTS
    Greetings,  \* len(greetings), 3 in the code
    Window      \* messages that flow control lets the handler be ahead

ASSUME GreetingsNat == Greetings \in Nat \ {0}
ASSUME WindowNat    == Window \in Nat \ {0}

VARIABLES
    pc,        \* the handler: "none", "new" while the stream is on its way to
               \* the server, "send", "delay", "nil" or "error" once returned
    sent,      \* greetings sent
    ctxDone,   \* stream.Context() is done
    lateSends, \* history: calls of Send after that, counted up to 2
    wire,      \* messages under way
    broken,    \* the transport is gone
    client,    \* the receive loop: "idle", "recv", "eof" or "error"
    cancelled, \* the client cancelled
    received   \* greetings received

serverVars == <<pc, sent, ctxDone, lateSends>>
clientVars == <<client, cancelled, received>>
vars       == <<serverVars, wire, broken, clientVars>>

TypeOK ==
    /\ pc \in {"none", "new", "send", "delay", "nil", "error"}
    /\ sent \in 0..Greetings
    /\ received \in 0..Greetings
    /\ lateSends \in 0..2
    /\ wire \in 0..Window
    /\ client \in {"idle", "recv", "eof", "error"}
    /\ ctxDone \in BOOLEAN
    /\ broken \in BOOLEAN
    /\ cancelled \in BOOLEAN

Init ==
    /\ pc = "none" /\ client = "idle"
    /\ sent = 0 /\ received = 0 /\ wire = 0 /\ lateSends = 0
    /\ ctxDone = FALSE /\ broken = FALSE /\ cancelled = FALSE

(* Caller.SayHelloServerStream returns once the request is under way.  The  *)
(* handler of an earlier stream that the client gave up is out of sight.    *)
Open ==
    /\ client # "recv"
    /\ pc' = "new" /\ client' = "recv"
    /\ sent' = 0 /\ received' = 0 /\ wire' = 0 /\ lateSends' = 0
    /\ ctxDone' = FALSE /\ broken' = FALSE /\ cancelled' = FALSE

-----------------------------------------------------------------------------
(* The handler. *)

(* The stream reaches the server, even if the client has given it up since. *)
Start ==
    /\ pc = "new"
    /\ pc' = "send"
    /\ UNCHANGED <<sent, ctxDone, lateSends, wire, broken, clientVars>>

(* Seeded fault: the loop stops before the last greeting. *)
AfterSendShort(n) == IF n < Greetings - 1 THEN "delay" ELSE "nil"

(* The last greeting is followed by the return, any other by the delay. *)
AfterSend(n) == IF n < Greetings THEN "delay" ELSE "nil"

Send ==
    /\ pc = "send"
    /\ ~ctxDone
    /\ wire < Window
    /\ sent' = sent + 1
    /\ wire' = IF broken THEN 0 ELSE wire + 1
    /\ pc' = AfterSend(sent + 1)
    /\ UNCHANGED <<ctxDone, lateSends, broken, clientVars>>

(* Seeded fault: a failed Send is tried again. *)
AfterSendErrorRetried == "delay"

AfterSendError == "error"

SendFails ==
    /\ pc = "send"
    /\ ctxDone
    /\ pc' = AfterSendError
    /\ lateSends' = IF lateSends < 2 THEN lateSends + 1 ELSE 2
    /\ UNCHANGED <<sent, ctxDone, wire, broken, clientVars>>

(* select of delay.C and ctx.Done(): either way the next greeting is next. *)
DelayEnds ==
    /\ pc = "delay"
    /\ pc' = "send"
    /\ UNCHANGED <<sent, ctxDone, lateSends, wire, broken, clientVars>>

-----------------------------------------------------------------------------
(* The stream. *)

(* The cancellation, or the end of the transport, reaches the server. *)
ContextDone ==
    /\ cancelled \/ broken
    /\ pc \notin {"none", "new"}
    /\ ~ctxDone
    /\ ctxDone' = TRUE
    /\ UNCHANGED <<pc, sent, lateSends, wire, broken, clientVars>>

Break ==
    /\ pc # "none"
    /\ ~broken
    /\ broken' = TRUE
    /\ wire' = 0
    /\ UNCHANGED <<serverVars, clientVars>>

-----------------------------------------------------------------------------
(* The client's receive loop. *)

Cancel ==
    /\ client = "recv"
    /\ ~cancelled
    /\ cancelled' = TRUE
    /\ UNCHANGED <<serverVars, wire, broken, client, received>>

Recv ==
    /\ client = "recv"
    /\ wire > 0
    /\ wire' = wire - 1
    /\ received' = received + 1
    /\ UNCHANGED <<serverVars, broken, client, cancelled>>

RecvEOF ==
    /\ client = "recv"
    /\ wire = 0
    /\ ~broken
    /\ pc = "nil"
    /\ client' = "eof"
    /\ UNCHANGED <<serverVars, wire, broken, cancelled, received>>

RecvError ==
    /\ client = "recv"
    /\ cancelled \/ broken \/ (wire = 0 /\ pc = "error")
    /\ client' = "error"
    /\ UNCHANGED <<serverVars, wire, broken, cancelled, received>>

HandlerStep == Send \/ SendFails \/ DelayEnds
ServerStep  == Start \/ HandlerStep
ClientStep  == Recv \/ RecvEOF \/ RecvError

(* What moves a stream but its start. *)
StreamStep == HandlerStep \/ ContextDone \/ Break \/ Cancel \/ ClientStep

(* Both ends run on, timers fire, and a cancellation reaches the server. *)
StreamFairness == WF_vars(ServerStep) /\ WF_vars(ClientStep) /\ WF_vars(ContextDone)

-----------------------------------------------------------------------------
(* Properties *)

(* SayHelloServerStream, greeter.go:56-75, against cmd/client/main.go:88-97: *)
(* a client that sees io.EOF has received every greeting.                    *)
EOFMeansAll == client = "eof" => received = Greetings

(* greeter.go:60-64, "On cancellation, the next Send will return the         *)
(* appropriate error": after a cancellation the handler tries at most one    *)
(* more Send, wherever the cancellation found it.                            *)
OneLateSend == lateSends <= 1

(* greeter.go:60-62, "so the server stops promptly": a handler does not stay *)
(* behind when its client reads on, cancels or breaks off.                   *)
HandlerEnds == pc \in {"send", "delay"} ~> pc \in {"nil", "error"}

-----------------------------------------------------------------------------
(* The inductive strengthening that the proofs rest on. *)

(* The handler sends nothing before it starts and returns nil exactly after  *)
(* its last greeting.                                                        *)
HandlerCounts ==
    /\ pc \in {"none", "new"} => sent = 0
    /\ pc \in {"send", "delay"} => sent < Greetings
    /\ pc = "nil" => sent = Greetings

(* Nothing is lost unless the transport is, and nothing is made up. *)
NothingLost ==
    /\ received + wire <= sent
    /\ ~broken => received + wire = sent

(* A Send that fails is the handler's last. *)
LateSendIsLast == OneLateSend /\ (pc # "error" => lateSends = 0)

StreamInv == TypeOK /\ HandlerCounts /\ NothingLost /\ LateSendIsLast /\ EOFMeansAll

=============================================================================
