----------------------------- MODULE DemosProofs -----------------------------
(***************************************************************************)
(* What GreeterStream and Demos keep for any number of greetings, any      *)
(* window, any set of backends and any number of calls.                    *)
(***************************************************************************)
EXTENDS Demos, TLAPS

USE GreetingsNat, WindowNat

-----------------------------------------------------------------------------
(* The stream. *)

LEMMA StreamInit == Init => StreamInv
<1> SUFFICES ASSUME Init PROVE StreamInv
    OBVIOUS
<1>1. ctxDone \in BOOLEAN /\ broken \in BOOLEAN /\ cancelled \in BOOLEAN
    BY Zenon DEF Init
<1> QED BY <1>1
    DEF Init, StreamInv, TypeOK, HandlerCounts, NothingLost, LateSendIsLast, OneLateSend,
        EOFMeansAll

(* What every step leaves Boolean. *)
LEMMA FlagsStayBoolean ==
    ASSUME TypeOK, Open \/ Start \/ StreamStep \/ UNCHANGED vars
    PROVE  ctxDone' \in BOOLEAN /\ broken' \in BOOLEAN /\ cancelled' \in BOOLEAN
BY Zenon DEF TypeOK, vars, serverVars, clientVars, Open, Start, StreamStep, HandlerStep, Send,
       SendFails, DelayEnds, ContextDone, Break, Cancel, ClientStep, Recv, RecvEOF, RecvError

LEMMA StreamKeepsInv ==
    ASSUME StreamInv, Open \/ Start \/ StreamStep \/ UNCHANGED vars
    PROVE  StreamInv'
<1> USE DEF StreamInv, TypeOK, HandlerCounts, NothingLost, LateSendIsLast, OneLateSend,
            EOFMeansAll, serverVars, clientVars
<1>1. ctxDone' \in BOOLEAN /\ broken' \in BOOLEAN /\ cancelled' \in BOOLEAN
    BY FlagsStayBoolean
<1>2. CASE Open         BY <1>1, <1>2 DEF Open
<1>3. CASE Send         BY <1>1, <1>3 DEF Send, AfterSend
<1>4. CASE SendFails    BY <1>1, <1>4 DEF SendFails, AfterSendError
<1>5. CASE DelayEnds    BY <1>1, <1>5 DEF DelayEnds
<1>6. CASE ContextDone  BY <1>1, <1>6 DEF ContextDone
<1>7. CASE Break        BY <1>1, <1>7 DEF Break
<1>8. CASE Cancel       BY <1>1, <1>8 DEF Cancel
<1>9. CASE Recv         BY <1>1, <1>9 DEF Recv
<1>10. CASE RecvEOF     BY <1>1, <1>10 DEF RecvEOF
<1>11. CASE RecvError   BY <1>1, <1>11 DEF RecvError
<1>12. CASE UNCHANGED vars BY <1>12 DEF vars
<1>13. CASE Start       BY <1>1, <1>13 DEF Start
<1> QED BY <1>2, <1>3, <1>4, <1>5, <1>6, <1>7, <1>8, <1>9, <1>10, <1>11, <1>12, <1>13
    DEF StreamStep, HandlerStep, ClientStep

(* What a program does to the stream: it opens one, or the stream starts, or *)
(* moves, or is left alone.                                                  *)
LEMMA ProgramMovesStream ==
    ASSUME [DemoNext]_allVars
    PROVE  Open \/ Start \/ StreamStep \/ UNCHANGED vars
<1>1. CASE MainStep
    BY <1>1 DEF MainStep, ServersStarted, Connect, WaitReady, ListServices, BeginUnary, Refused,
                TimesOut, SayHello, SayHelloServerStream, Replied, CallFails, BeginStreams,
                StreamDrained, End
<1>2. CASE ListenFails \/ ConnectFails
    BY <1>2 DEF ListenFails, ConnectFails
<1>3. ASSUME NEW b \in Backends,
             \/ StartServer(b) \/ Serve(b) \/ ServerStops(b)
             \/ SubConnects(b) \/ TransportLost(b)
      PROVE  StreamStep \/ UNCHANGED vars
    BY <1>3 DEF StartServer, Serve, ServerStops, SubConnects, TransportLost, StreamStep
<1>4. CASE UNCHANGED allVars
    BY <1>4 DEF allVars
<1>5. CASE StreamServerTag
    BY <1>5 DEF StreamServerTag
<1> QED BY <1>1, <1>2, <1>3, <1>4, <1>5 DEF DemoNext

LEMMA StreamInvHolds == DemoSpec => []StreamInv
<1>1. DemoInit => StreamInv
    BY StreamInit DEF DemoInit
<1>2. StreamInv /\ [DemoNext]_allVars => StreamInv'
    BY StreamKeepsInv, ProgramMovesStream
<1> QED BY <1>1, <1>2, PTL DEF DemoSpec, DemoSafe

(* SayHelloServerStream, greeter.go:56-75: io.EOF at the client means that   *)
(* it received every greeting, for any number of greetings and any flow      *)
(* control window.                                                           *)
THEOREM EOFIsComplete == DemoSpec => []EOFMeansAll
<1>1. StreamInv => EOFMeansAll
    BY DEF StreamInv
<1> QED BY <1>1, StreamInvHolds, PTL

(* greeter.go:60-64: wherever a cancellation finds the handler, it tries at  *)
(* most one more Send.                                                       *)
THEOREM LateSendAtMostOnce == DemoSpec => []OneLateSend
<1>1. StreamInv => OneLateSend
    BY DEF StreamInv, LateSendIsLast
<1> QED BY <1>1, StreamInvHolds, PTL

-----------------------------------------------------------------------------
(* The programs' tally. *)

LEMMA TallyInit == DemoInit => TallyInv
BY DEF DemoInit, Zero, TallyInv, DemoTypeOK, CallInLoop, TallyBehind

LEMMA TallyKept ==
    ASSUME StreamInv, TallyInv, [DemoNext]_allVars
    PROVE  TallyInv'
<1> USE NoBackendIsNone, DemoSizes DEF TallyInv, DemoTypeOK, CallInLoop, TallyBehind
<1>0. UNCHANGED vars => pc' = pc
    BY DEF vars, serverVars
<1>1. CASE (StreamStep \/ UNCHANGED vars) /\ UNCHANGED demoVars
  <2>1. pc = "new" <=> pc' = "new"
    BY <1>1 DEF StreamStep, HandlerStep, Send, AfterSend, SendFails, AfterSendError, DelayEnds,
                ContextDone, Break, Cancel, ClientStep, Recv, RecvEOF, RecvError, vars,
                serverVars, clientVars
  <2> QED BY <1>1, <2>1 DEF demoVars
<1>2. CASE ListenFails \/ ConnectFails \/ ServersStarted \/ Connect \/ End
    BY <1>0, <1>2 DEF ListenFails, ConnectFails, ServersStarted, Connect, End
<1>3. CASE WaitReady \/ ListServices
    BY <1>0, <1>3 DEF WaitReady, ListServices, BeginUnary
<1>4. CASE Refused \/ TimesOut
    BY <1>0, <1>4 DEF Refused, TimesOut, OnError
<1>5. ASSUME NEW b \in Backends, SayHello(b) PROVE TallyInv'
    BY <1>0, <1>5 DEF SayHello
<1>6. ASSUME NEW b \in Backends, SayHelloServerStream(b) PROVE TallyInv'
    BY <1>6 DEF SayHelloServerStream, Open
<1>7. CASE Replied
    BY <1>0, <1>7 DEF Replied
<1>8. CASE CallFails
    BY <1>0, <1>8 DEF CallFails, OnError
<1>9. CASE BeginStreams
    BY <1>0, <1>9 DEF BeginStreams, Zero
<1>10. CASE StreamDrained
  <2>1. HeaderKnown \/ sent > 0 => pc # "new"
    BY DEF HeaderKnown, StreamInv, TypeOK, HandlerCounts, NothingLost, EOFMeansAll
  <2> QED BY <1>0, <1>10, <2>1 DEF StreamDrained, AddrFromHeader
<1>11. ASSUME NEW b \in Backends,
              \/ StartServer(b) \/ Serve(b) \/ ServerStops(b)
              \/ SubConnects(b) \/ TransportLost(b)
       PROVE  TallyInv'
    BY <1>0, <1>11 DEF StartServer, Serve, ServerStops, SubConnects, TransportLost, Break, serverVars
<1>12. CASE StreamServerTag
    BY <1>12 DEF StreamServerTag, Start
<1> QED BY <1>1, <1>2, <1>3, <1>4, <1>5, <1>6, <1>7, <1>8, <1>9, <1>10, <1>11, <1>12
    DEF DemoNext, MainStep, allVars, demoVars

(* examples/loadbalancing/demo.go: for any number of servers, calls and      *)
(* streams, and whatever fails, the tally credits no server with a call it   *)
(* did not see.                                                              *)
THEOREM TallyIsReal == DemoSpec => []HitsAreReal
<1>1. TallyInv => HitsAreReal
  <2> SUFFICES ASSUME TallyInv, NEW b \in Backends PROVE hits[b] <= tagged[b]
      BY DEF HitsAreReal
  <2> QED BY DEF TallyInv, DemoTypeOK, TallyBehind
<1> QED BY <1>1, TallyInit, TallyKept, StreamInvHolds, PTL DEF DemoSpec, DemoSafe

=============================================================================
