----------------------------- MODULE ClientCall -----------------------------
(***************************************************************************)
(* internal/client/interceptor: one caller makes unary calls and opens     *)
(* streams through the chains of internal/client/doc.go (Logging, Timeout, *)
(* Retry, Auth; StreamLogging, StreamAuth) while other goroutines call     *)
(* Configure.  Every interceptor takes its own snapshot of the package's   *)
(* configuration, Auth one per attempt.  Below the chain are the transport *)
(* and the server, which are outside this repository: a request may be     *)
(* lost, executed and its answer lost, or answered late.  Of a log line    *)
(* the model keeps the status code; the loggers and the durations are left *)
(* out (Backoff has the latter): a timer fires at any time.                *)
(***************************************************************************)
EXTENDS Backoff, FiniteSets

CONSTANTS
    RetryMaxes,   \* what WithRetry may set; an int of the code
    RetryCodes,   \* what WithRetryCodes may set: sets of status codes
    MaxOptions    \* bound: options applied in one behaviour

ASSUME RetryMaxesInt == RetryMaxes \subseteq Ints
ASSUME MaxOptionsNat == MaxOptions \in Nat

ServerCodes  == {"OK", "InvalidArgument", "Unavailable"}
ContextCodes == {"DeadlineExceeded", "Canceled"}
Codes        == ServerCodes \union ContextCodes \union {"Unauthenticated"}

(* Codes that arrive as a gRPC status, and ctx.Err(), which is none. *)
Errors == (Codes \ {"OK"}) \union {"ctx.Err"}

(* The code that status.FromError finds in an error, nil included. *)
FromError(err) == IF err = "ctx.Err" THEN "Unknown" ELSE err

defaultRetryCodes == {"Unavailable"}   \* and ResourceExhausted, Aborted, likewise

(* What a TokenSource does: there is none; it puts a token into the context *)
(* (StaticToken, OAuth2TokenSource); it returns an error (OAuth2TokenSource *)
(* without a source or without a token); its token is "" (StaticToken).     *)
(* Any source may also take for ever: the refresh of an OAuth2 token does   *)
(* not look at the RPC's context (config.go:40-41).                         *)
Tokens == {"nil", "token", "fails", "empty"}

ASSUME RetryCodesStatus == \A S \in RetryCodes : S \subseteq Codes \ {"OK"}

VARIABLES
    cfg,      \* defaultConfig: defaultTimeout > 0, retryMax, retryCodes, tokenSource
    options,  \* options applied so far
    pc,       \* where the call is
    snap,     \* the snapshots that Timeout, Retry and Auth took
    context,  \* the call's context: who set its deadline, and how it ended
    lastErr,  \* lastErr of Retry, "OK" for nil
    wire,     \* the attempts of the call, see Fresh
    result,   \* what the caller got, "none" before
    logged    \* the code that Logging or StreamLogging logged for the call

configVars == <<cfg, options>>
callVars   == <<pc, snap, context, lastErr, wire, result, logged>>
vars       == <<configVars, callVars>>

Unary  == {"timeout", "retry", "attempt", "token", "inflight", "answered", "sleep"}
Stream == {"stream", "streamToken", "opening"}
InCall == pc \in Unary \union Stream

(* attempts: invocations of the invoker; late: those made after the context *)
(* had ended; answer: the server's answer to the attempt in flight; adrift: *)
(* requests the client gave up on and the server may still execute;         *)
(* executions: by the server, on behalf of this call.                       *)
Fresh == [attempts |-> 0, late |-> 0, answer |-> "none", adrift |-> 0, executions |-> 0]

Init ==
    /\ cfg = [timeout |-> FALSE, retryMax |-> 0, codes |-> defaultRetryCodes, token |-> "nil"]
    /\ options = 0
    /\ pc = "idle"
    /\ snap = [timeout |-> FALSE, retryMax |-> 0, codes |-> defaultRetryCodes, token |-> "nil"]
    /\ context = [deadline |-> "none", ended |-> "live"]
    /\ lastErr = "OK"
    /\ wire = Fresh
    /\ result = "none"
    /\ logged = "none"

-----------------------------------------------------------------------------
(* Configure, one option at a time, under the write lock. *)
Configure(field, value) ==
    /\ options < MaxOptions
    /\ options' = options + 1
    /\ cfg' = [cfg EXCEPT ![field] = value]
    /\ UNCHANGED callVars

WithDefaultTimeout == \E positive \in BOOLEAN : Configure("timeout", positive)
WithRetry          == \E n \in RetryMaxes : Configure("retryMax", n)
WithRetryCodes     == \E S \in RetryCodes : Configure("codes", S)
WithTokenSource    == \E t \in Tokens : Configure("token", t)

-----------------------------------------------------------------------------
(* The caller starts a unary call, or opens a stream. *)
Begin(first) ==
    /\ ~InCall
    /\ pc' = first
    /\ \E d \in {"none", "caller"} : context' = [deadline |-> d, ended |-> "live"]
    /\ snap' = [snap EXCEPT !.timeout = FALSE]
    /\ lastErr' = "OK"
    /\ wire' = Fresh
    /\ result' = "none"
    /\ logged' = "none"
    /\ UNCHANGED configVars

Call       == Begin("timeout")
OpenStream == Begin("stream")

(* A step of the call that does not return from it. *)
Goto(next) ==
    /\ pc' = next
    /\ UNCHANGED <<configVars, result, logged>>

(* The return of the chain, through the second half of Logging. *)
Return(err) ==
    /\ pc' = "done"
    /\ result' = err
    /\ logged' = FromError(err)
    /\ UNCHANGED <<configVars, context, lastErr>>

(* The deadline passes, or the caller cancels. *)
ContextEnds(code) ==
    /\ InCall
    /\ context.ended = "live"
    /\ context' = [context EXCEPT !.ended = code]
    /\ UNCHANGED <<configVars, pc, snap, lastErr, wire, result, logged>>

ContextExpires   == context.deadline # "none" /\ ContextEnds("DeadlineExceeded")
ContextCancelled == ContextEnds("Canceled")

-----------------------------------------------------------------------------
(* Timeout *)

(* Seeded fault: the default timeout is never applied. *)
DeadlineUnset == context.deadline

Deadline == IF cfg.timeout /\ context.deadline = "none" THEN "default" ELSE context.deadline

Timeout ==
    /\ pc = "timeout"
    /\ Goto("retry")
    /\ snap' = [snap EXCEPT !.timeout = cfg.timeout]
    /\ context' = [context EXCEPT !.deadline = Deadline]
    /\ UNCHANGED <<lastErr, wire>>

-----------------------------------------------------------------------------
(* Retry *)

(* Seeded fault: the bound of the loop is retryMax - 1. *)
IterationsShort == Wrap(cfg.retryMax - 1)

(* The number of iterations of range cfg.retryMax + 1. *)
Iterations == Wrap(cfg.retryMax + 1)

RetrySnapshot ==
    /\ pc = "retry"
    /\ snap' = [snap EXCEPT !.retryMax = cfg.retryMax, !.codes = cfg.codes]
    /\ UNCHANGED wire

RetryBegin ==
    /\ RetrySnapshot
    /\ cfg.retryMax <= 0 \/ Iterations > 0
    /\ Goto("attempt")
    /\ UNCHANGED <<context, lastErr>>

(* The loop has no iteration: lastErr is still nil. *)
RetryNoIteration ==
    /\ RetrySnapshot
    /\ cfg.retryMax > 0
    /\ Iterations <= 0
    /\ Return(lastErr)

(* Seeded fault: every failure is taken for retryable. *)
IsRetryableAny(code) == TRUE

IsRetryable(code) == code \in snap.codes

(* Seeded fault: the loop reads the configuration instead of its snapshot. *)
MayRetryUnsnapped ==
    /\ cfg.retryMax > 0
    /\ lastErr # "OK"
    /\ lastErr \in cfg.codes
    /\ wire.attempts - 1 < cfg.retryMax

(* One more attempt after a sleep; attempts - 1 is the code's attempt. *)
MayRetry ==
    /\ snap.retryMax > 0
    /\ lastErr # "OK"
    /\ IsRetryable(lastErr)
    /\ wire.attempts - 1 < snap.retryMax

RetryReturn ==
    /\ pc = "answered"
    /\ ~MayRetry
    /\ Return(lastErr)
    /\ UNCHANGED <<snap, wire>>

RetryWait ==
    /\ pc = "answered"
    /\ MayRetry
    /\ Goto("sleep")
    /\ UNCHANGED <<snap, context, lastErr, wire>>

(* The select of timer.C and ctx.Done; both may be ready. *)
TimerFires ==
    /\ pc = "sleep"
    /\ Goto("attempt")
    /\ UNCHANGED <<snap, context, lastErr, wire>>

SleepInterrupted ==
    /\ pc = "sleep"
    /\ context.ended # "live"
    /\ Return("ctx.Err")
    /\ UNCHANGED <<snap, wire>>

-----------------------------------------------------------------------------
(* One invocation: Auth, then the transport. *)

(* injectToken calls the source of Auth's own snapshot and waits for it. *)
AtTokenSource == pc \in {"token", "streamToken"} /\ snap.token # "nil"

(* The source has failed, or its token is empty. *)
NoToken == snap.token \in {"fails", "empty"}

(* Auth is through with the source. *)
TokenKnown == snap' = [snap EXCEPT !.token = "nil"]

Invoke ==
    /\ pc = "attempt"
    /\ Goto("token")
    /\ snap' = [snap EXCEPT !.token = cfg.token]
    /\ wire' = [wire EXCEPT !.attempts = @ + 1, !.answer = "none",
                           !.late = IF context.ended = "live" THEN @ ELSE @ + 1]
    /\ UNCHANGED <<context, lastErr>>

AuthFails ==
    /\ pc = "token"
    /\ NoToken
    /\ Goto("answered")
    /\ TokenKnown
    /\ lastErr' = "Unauthenticated"
    /\ UNCHANGED <<context, wire>>

Send ==
    /\ pc = "token"
    /\ ~NoToken
    /\ IF context.ended = "live"
       THEN Goto("inflight") /\ UNCHANGED lastErr
       ELSE Goto("answered") /\ lastErr' = context.ended
    /\ TokenKnown
    /\ UNCHANGED <<context, wire>>

(* The server executes the request and answers, or executes one that the    *)
(* client has given up on.                                                  *)
ServerExecutes ==
    /\ pc = "inflight"
    /\ wire.answer = "none"
    /\ \E code \in ServerCodes :
           wire' = [wire EXCEPT !.executions = @ + 1, !.answer = code]
    /\ UNCHANGED <<configVars, pc, snap, context, lastErr, result, logged>>

ServerExecutesAdrift ==
    /\ wire.adrift > 0
    /\ wire' = [wire EXCEPT !.executions = @ + 1, !.adrift = @ - 1]
    /\ UNCHANGED <<configVars, pc, snap, context, lastErr, result, logged>>

(* The attempt in flight comes back as err. *)
Answered(err) ==
    /\ pc = "inflight"
    /\ Goto("answered")
    /\ lastErr' = err
    /\ wire' = [wire EXCEPT !.adrift = IF wire.answer = "none" THEN @ + 1 ELSE @]
    /\ UNCHANGED <<snap, context>>

AnswerArrives   == wire.answer # "none" /\ Answered(wire.answer)
TransportFails  == Answered("Unavailable")
ContextAnswered == context.ended # "live" /\ Answered(context.ended)

-----------------------------------------------------------------------------
(* A stream: StreamLogging, StreamAuth, then the transport opens it.  It has *)
(* no default deadline and is not retried; only a failure to open is logged. *)
StreamReturn(err) ==
    /\ pc' = "open"
    /\ result' = err
    /\ logged' = IF err = "OK" THEN "none" ELSE FromError(err)
    /\ TokenKnown
    /\ UNCHANGED <<configVars, context, lastErr, wire>>

StreamAuth ==
    /\ pc = "stream"
    /\ Goto("streamToken")
    /\ snap' = [snap EXCEPT !.token = cfg.token]
    /\ UNCHANGED <<context, lastErr, wire>>

StreamAuthFails ==
    /\ pc = "streamToken"
    /\ NoToken
    /\ StreamReturn("Unauthenticated")

Streamer ==
    /\ pc = "streamToken"
    /\ ~NoToken
    /\ Goto("opening")
    /\ TokenKnown
    /\ UNCHANGED <<context, lastErr, wire>>

StreamOpens   == pc = "opening" /\ \E err \in {"OK", "Unavailable"} : StreamReturn(err)
StreamExpires == pc = "opening" /\ context.ended # "live" /\ StreamReturn(context.ended)

-----------------------------------------------------------------------------
Next ==
    \/ WithDefaultTimeout
    \/ WithRetry
    \/ WithRetryCodes
    \/ WithTokenSource
    \/ Call
    \/ OpenStream
    \/ ContextExpires
    \/ ContextCancelled
    \/ Timeout
    \/ RetryBegin
    \/ RetryNoIteration
    \/ RetryReturn
    \/ RetryWait
    \/ TimerFires
    \/ SleepInterrupted
    \/ Invoke
    \/ AuthFails
    \/ Send
    \/ ServerExecutes
    \/ ServerExecutesAdrift
    \/ AnswerArrives
    \/ TransportFails
    \/ ContextAnswered
    \/ StreamAuth
    \/ StreamAuthFails
    \/ Streamer
    \/ StreamOpens
    \/ StreamExpires

(***************************************************************************)
(* Fairness: the interceptors run on, a timer fires, a deadline passes,    *)
(* and the transport gives up when the context has ended.  Nothing is      *)
(* assumed of the server, of the network, or of a token source.            *)
(***************************************************************************)
ClientRuns ==
    \/ Timeout \/ RetryBegin \/ RetryNoIteration \/ RetryReturn \/ RetryWait
    \/ TimerFires \/ Invoke \/ ContextAnswered
    \/ StreamAuth \/ StreamExpires
    \/ ~AtTokenSource /\ (Send \/ Streamer)

Spec     == Init /\ [][Next]_vars
FairSpec == Spec /\ WF_vars(ClientRuns) /\ WF_vars(ContextExpires)

-----------------------------------------------------------------------------
(* Properties *)

(* Retry, retry.go:52-58, and Logging: a unary call reports success, to its  *)
(* caller and in the log, only if the server executed it and answered OK to  *)
(* the last attempt, for every maxRetries but the largest int, whose loop    *)
(* bound overflows.                                                          *)
SuccessMeansExecuted ==
    /\ pc = "done"
    /\ "OK" \in {result, logged}
    /\ snap.retryMax < MaxInt
    => wire.executions >= 1 /\ wire.answer = "OK"

(* Retry, retry.go:21-30 and the snapshot of line 46: the server executes a  *)
(* call a second time only if the configuration that the call began with     *)
(* retries an error that a server or the transport may answer with, and      *)
(* never more than its maxRetries say, whatever Configure changes meanwhile. *)
RepeatsAllowed ==
    wire.executions > 1 => /\ {"Unavailable", "InvalidArgument"} \intersect snap.codes # {}
                           /\ wire.executions <= snap.retryMax + 1

(* Retry, retry.go:77-83: the timer and ctx.Done() may be ready together, so *)
(* an attempt may start after the context has ended; but only one, unless    *)
(* the application retries what such an attempt fails with: the context's    *)
(* own codes, or Unauthenticated when Auth has no token.                     *)
OneLateAttempt ==
    snap.codes \intersect (ContextCodes \union {"Unauthenticated"}) = {} => wire.late <= 1

(* backoffDuration, retry.go:96-123, at every attempt that Retry sleeps      *)
(* after and for every base duration: no wait is negative or asks            *)
(* rand.Int64N for an impossible number; a non-positive base does not wait;  *)
(* the wait is "between base/2 and base x 2^attempt" when that product fits; *)
(* a product that overflows and wraps to zero or below waits at least half   *)
(* the largest duration.  That is all the code's test of the sign catches: a *)
(* product that wraps to a positive number may wait less than base/2.        *)
WaitInRange ==
    pc = "sleep" =>
        \A base \in Ints :
            LET attempt == wire.attempts - 1
                waits   == BackoffDurations(attempt, base)
                exact   == base * 2^attempt
                shifted == base * 2^(IF attempt < Width - 2 THEN attempt ELSE Width - 2)
            IN  /\ waits # {}
                /\ waits \subseteq 0..MaxInt
                /\ base <= 0 => waits = {0}
                /\ base > 0 /\ exact <= MaxInt => waits \subseteq (base \div 2)..exact
                /\ base > 0 /\ Wrap(shifted) <= 0 => waits \subseteq (MaxInt \div 2)..MaxInt

(* Timeout, Retry and StreamLogging, timeout.go:33-43 and retry.go:77-83: a  *)
(* call whose caller set a deadline, or that Timeout found a default for,    *)
(* returns even if the server never answers and no stream opens, and its     *)
(* failure is logged; unless it waits for ever for a token: no deadline ends *)
(* that, "token refresh cannot be cancelled via the RPC context"             *)
(* (config.go:40-41).                                                        *)
CallReturns ==
    (InCall /\ pc # "timeout" /\ (snap.timeout \/ context.deadline = "caller"))
        ~> \/ ~InCall /\ (result # "OK" => logged = FromError(result))
           \/ []AtTokenSource

-----------------------------------------------------------------------------
(* The inductive strengthening that the proofs rest on. *)

Wires == [attempts : Nat, late : Nat, answer : ServerCodes \union {"none"},
          adrift : Nat, executions : Nat]

TypeOK ==
    /\ cfg \in [timeout : BOOLEAN, retryMax : Ints, codes : SUBSET Codes, token : Tokens]
    /\ pc \in {"idle", "done", "open"} \union Unary \union Stream
    /\ snap \in [timeout : BOOLEAN, retryMax : Ints, codes : SUBSET Codes, token : Tokens]
    /\ context \in [deadline : {"none", "caller", "default"},
                    ended    : {"live"} \union ContextCodes]
    /\ lastErr \in Codes
    /\ wire \in Wires

FreshBefore == pc \in {"idle", "timeout", "retry"} \union Stream => wire = Fresh

(* Requests of this call that the server has executed or may yet execute. *)
Sent == wire.executions + wire.adrift
           + (IF pc = "inflight" /\ wire.answer = "none" THEN 1 ELSE 0)

(* The loop counts its attempts: those made, and the one to come. *)
AttemptsBounded ==
    /\ Sent <= wire.attempts
    /\ wire.attempts >= 2 => wire.attempts <= snap.retryMax + 1
    /\ pc \in {"attempt", "sleep"} /\ wire.attempts >= 1 => wire.attempts <= snap.retryMax
    /\ pc \in {"token", "inflight", "answered", "sleep"} => wire.attempts >= 1
    /\ pc = "token" => Sent < wire.attempts

RetriesAnswers == {"Unavailable", "InvalidArgument"} \intersect snap.codes # {}

(* Where a call that has sent a request goes on, either its configuration    *)
(* retries what a server or a transport may answer, or the context has ended *)
(* and no further request is sent.                                           *)
RepeatsExplained ==
    /\ Sent >= 2 => RetriesAnswers
    /\ pc \in {"attempt", "token", "sleep"} /\ Sent >= 1 => RetriesAnswers \/ context.ended # "live"
    /\ pc = "answered" /\ Sent >= 1 =>
          RetriesAnswers \/ context.ended # "live" \/ lastErr \in ServerCodes

(* The error of an attempt that began after the context had ended. *)
LateErrors == ContextCodes \union {"Unauthenticated"}

LateIsLast ==
    /\ wire.late >= 1 => context.ended # "live"
    /\ snap.codes \intersect LateErrors = {} =>
        /\ wire.late <= 1
        /\ pc \in {"attempt", "inflight", "sleep"} => wire.late = 0
        /\ pc = "answered" /\ wire.late = 1 => lastErr \in LateErrors

(* The client takes for OK only what the server answered. *)
OKIsAnswered ==
    /\ pc = "token" => wire.answer = "none"
    /\ pc = "inflight" /\ wire.answer # "none" => wire.executions >= 1
    /\ pc = "answered" /\ lastErr = "OK" => wire.executions >= 1 /\ wire.answer = "OK"

CallInv ==
    /\ TypeOK
    /\ FreshBefore
    /\ AttemptsBounded
    /\ RepeatsExplained
    /\ LateIsLast
    /\ OKIsAnswered
    /\ SuccessMeansExecuted

=============================================================================
