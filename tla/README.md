# Verification of grpc-template

TLA+ models of the client and server runtime of this repository, TLC
configurations that check them on small instances, and TLAPS proofs of the
properties that matter most for every value of the parameters. Paths below are
relative to the repository's root.

## The system

A Go template for gRPC programs. The application builds a `Client`
(`internal/client`) or a `Server` (`internal/server`) from functional options,
installs interceptors (`internal/client/interceptor`,
`internal/server/interceptor`) that share a package-wide configuration, and
registers services such as the greeter.

| component | state | operations | interacts with |
|---|---|---|---|
| client lifecycle, `internal/client/client.go` | `conn`, `healthCancel` under `mu`; options fixed by `New` | `Connect`, `Conn`, `WaitReady`, `State`, `ListServices`, `Close`; one health-watch goroutine per `Connect` | the `grpc.ClientConn`; callers on several goroutines; the server's health service |
| options, `client/option.go`, `server/option.go` | one deferred `configErr`, the TLS config, the option lists, the registrars | the `With…` functions, `RegisterService`, `buildDialOpts`, `buildOptions` | run once, in order, inside `New`; several of them call a package-wide `Configure` |
| client interceptors | package-wide `defaultConfig` under `configMu` | `Configure`, `Timeout`, `Retry`, `Auth`, `Logging`, `StreamAuth`, `StreamLogging` | each takes its own snapshot; a call passes them in chain order |
| server lifecycle, `internal/server/server.go` | `registrars`, `healthSrv`, the injected listener | `RegisterService`, `Health`, `Run` with its serve goroutine | `grpc.Server`, `health.Server`, signals and the caller's context |
| server interceptor configuration, `interceptor/config.go` | package-wide `defaultConfig` with two shared maps | `Configure` and its options | every interceptor of every RPC reads it |
| rate limiter, `interceptor/rate_limit.go` | a map from peer to bucket and `lastSeen`; a ticker | `Allow`, `cleanup`, `Stop` | RPC goroutines against the cleanup goroutine |
| server interceptor chain | the RPC's context, status and log | `RequestID`, `Recovery`, `Logging`, `Auth`, `RateLimit`, `Validation` | call nesting; panics unwind it |
| greeter | none | `SayHello`, `SayHelloServerStream` | a client that may cancel between two messages |
| commands and examples | the tally of `examples/loadbalancing` | `cmd/client`, `cmd/server`, `examples/loadbalancing` | the client, several servers, gRPC's balancer |
| logging, balancer registration, generated code, test utilities, deployment | – | – | not modelled |

What is hard in it: Connect has two critical sections with a gap; a watcher must
end wherever a Close finds it (opening a stream, receiving, sleeping); `Allow`
uses a bucket after it released the lock under which it looked the bucket up;
cleanup forgets what a peer has spent; `Run` must join its serve goroutine even
if the context is cancelled before `Serve` begins; interceptors work on snapshots
whose maps are shared; a retry may repeat what a server has already executed; a
timer and a context may be ready together; an option may erase another's error; the
drain of a server waits for the health stream of this repository's own client; a
failed `Run` leaves a server behind that still answers that stream.
`PROJECT.json` lists these hazards line by line with the properties that watch
them.

What makes each component correct: no connection and no goroutine outlives its
owner (client, limiter, server); the connection a client has is
watched; a promise of a return is kept (`WaitReady`,
`Run`, a call with a deadline); success means what it says (a drained server, an
executed call, a complete stream); the rate bound holds
across evictions that forget no debt; credentials and service config are those of the last option, and a second start
is like the first; a panic stays inside its RPC; one RPC has one log line, with the
ID, the peer and the status that everybody else saw.

## Modules

One module per component; operators keep the names of the functions they model,
and `PROJECT.json` maps each to its lines.

| module | models | state and steps |
|---|---|---|
| `ClientLifecycle` | `client.go` | Callers and watcher goroutines, each with a program counter. A critical section is one step; `Close` is two (`CloseCancel`, `CloseConn`), because a watcher can see the cancelled context before the closed connection; `Connect` is `ConnectDial` and `StartHealthWatch`, with the mutex free in between. `ListServices` opens, receives and returns in steps of its own: what it has received it returns, whatever a `Close` does meanwhile. A received health status is only logged and is no step. |
| `ClientSession` | what a `Client` promises | The abstract specification: one session at a time, at most one watch, a connection closed only when nothing watches it. `ClientLifecycle!ImplementsSession` maps `current` to `conn`, `opened` to the number of dials and `watching` to the connections that a goroutine with a live context watches. |
| `RateLimiter` | `rate_limit.go` | `Allow` in two halves (`GetExisting`/`GetNew`, then `Admit`/`Reject`), `Cleanup`, the ticker with its one-slot channel, `Stop`. Time in ticks; a bucket gains one unit per tick and a token costs `Cost` units, so no fraction is lost. An observer starts a measuring window at any moment (`winStart`, `spent`). |
| `ServerLifecycle` | `server.go` | `Run` step by step against its serve goroutine, the context, status changes of the application and RPCs. `grpc.Server` and `health.Server` by what `Run` relies on. Every `Run` makes a health server of its own; the application holds whichever `Health` returned. |
| `HealthSystem` | `server.go` with `client.go` | The composition of `ServerLifecycle` and an instance of `ClientLifecycle`: the watcher's stream *is* the RPC that `GracefulStop` waits for, and the status that the server sets is what the watcher receives. Adds the transport (`attached`), what the stream delivered (`seen`), a count of sleeps (`naps`, a history variable) and a network that loses transports. |
| `InterceptorConfig` | server `config.go` and its readers | `Configure` holding the write lock over several options, the limiters' cleanup goroutines, RPCs that pass `Auth`, `Logging` and `RateLimit` with a snapshot each. The assignment to, and the lookup in, either shared map (excluded and demoted methods) take time. |
| `ServerChain` | the server interceptors | One RPC down a chain and up again, as an answer or as a panic, with its log line and the key `peerKey` makes of connection and proxy headers. `deepest`, a history variable, is the innermost level the RPC came to: which interceptors it passed is what the properties speak of, so they hold for chains in any order. A unary interceptor and its stream twin have the same control and share an action. |
| `Options` | both `option.go` files, `buildDialOpts`, `buildOptions`, `RegisterService` | A sequence of options, each of which may fail, and registrations, then `Connect` or `Run`, repeatedly. |
| `Backoff` | `backoffDuration` | Pure operators in two's complement arithmetic of `Width` bits. |
| `ClientCall` | the client interceptors | A unary call through `Logging`, `Timeout`, `Retry` and `Auth`, or a stream through `StreamLogging` and `StreamAuth`, over an unreliable transport; requests the client gave up on may still be executed. `Auth` waits for its token source (`token`, `streamToken`), which may block for ever. Extends `Backoff` for the loop bound and the waits. |
| `GreeterStream` | `SayHelloServerStream` and the receive loops of `cmd/client` and `drainStream` | The handler, a stream with flow control, the client. A stream is `new` until it reaches its server. |
| `Demos` | `cmd/client`, `cmd/server`, `examples/loadbalancing` | Extends `GreeterStream`: a program from `main` to its end against servers that start late, stop or never come; sub-connections and the balancer's pick are external. `tagged`, a history variable, counts the calls in which a server ran its tag; for a stream that is `StreamServerTag`, when the stream reaches the server. |

`MC…` modules add the symmetry sets and the values a `.cfg` cannot write down.
`…Proofs` modules hold the theorems. An operator introduced by the comment
*Seeded fault* is not part of a specification: it is a plausible mistake in the
operator that follows it, and replacing that operator by it makes TLC report the
property that `PROJECT.json` pairs it with. It shows that the property depends on
the code it is about.

## Runs

| run | question | bounds |
|---|---|---|
| `client_serialised` | With Connect and Close never overlapping: does the watcher always belong to the current connection, does Close reach it and does it end, does every `WaitReady` return, does the client implement the session? | 2 callers, 2 dials (so that a watcher of an old connection meets a new one), backoff 1–2 |
| `client_concurrent` | With everything overlapping, panics of the watcher included: is a connection open exactly while it is `conn`; is the connection a client has watched until its `Close`? | 2 callers, 2 dials |
| `client_close_leak` (violation) | Does Close cancel the watcher when it overlaps a Connect? | 2 callers, 2 dials |
| `rate_limiter` | The rate bound across evictions, one bucket per peer, reclamation within 1.5 TTL | 1 peer (peers do not interact), 2 requests, a burst of 2 tokens of 2 ticks each, a `HoldBound` of 1 and a TTL of 3, one tick less than a bucket and a delay need: an eviction gives a tick's worth away, and 9 ticks fit two of them |
| `health_system` | Joined goroutine, drained server, health status that follows the application, return of `Run`; the watcher's backoff, that it learns the present status again after restarts and lost transports, and that a Close ends the drain it held up | 2 runs (so that a restart, or a server left behind, meets a live watcher), 1 dial, 1 lost transport, backoff 1–2 with 2 sleeps counted, 1 plain RPC |
| `config_limiters` | Goroutines of replaced and installed limiters; no snapshot of a `Configure` half done | 2 configurers, 2 memory limiters and a custom one, 3 `Configure` calls with 4 options, 1 RPC |
| `config_map_race` (violation) | Is a shared map of methods read while it is written? | the same, 2 options |
| `options` | Credentials and service config of the last option; justified refusals; registered services served; a second start like the first | 5 options on either side (a credentials option, a service config, and one of each again fit), 2 starts, 1 service |
| `options_masked` (violation) | Is a deferred error always reported? | 3 options, 1 start |
| `client_call` | Success, repeated execution, late attempts, the backoff's range, return of a call with a deadline, for unary calls and streams, with token sources that succeed, fail or block | 4-bit integers, `maxRetries` of -1, 0, 1, 4 (past `maxBackoffShift`) and the largest, retried codes that a server, an ended context or `Auth` fails with, 3 options |
| `server_chain` | Contained panics, authorisation under concurrent `Configure`, one log line, which names the request and the peer as the response and the limiter do | eight chains, among them those of `cmd/server/main.go`, `internal/server/doc.go` and `internal/server/interceptor/doc.go` and two in orders no document shows; 2 options |
| `demos` | EOF means all greetings, at most one late `Send`, a tally that credits no server with a call it did not see, both programs and every handler end | 3 greetings as in the code, a window of 2, 2 servers, 3 requests and 3 streams (a call on each server and one after a break) |

The named bounds are `MaxDials`, `MaxTime`, `MaxRuns`, `MaxBreaks`, `MaxNaps`,
`MaxConfigures`, `MaxOptions`, `MaxStarts`, `Width`, and the sizes `Greetings`,
`Window`, `Requests` and `Streams`. The safety properties do not depend on them: the
theorems below are for every value. `MaxNaps` stands for "as many sleeps or more"
and must be large enough to reach `MaxBackoff` (`NapsReachMax`). `HoldBound`
is an assumption rather than a bound: the longest time a request goroutine may be
preempted between the two halves of `Allow`. `Serialised`, `PromptLoop` and
`Reinstall` say what the environment does: whether the application overlaps a
Connect with a Close; whether the cleanup goroutine runs before the next tick; and
whether a limiter that was installed before may be installed again (it may not in
`config_limiters`: its `Stop` is final, so a reinstalled limiter has no cleanup).

`CHECK_DEADLOCK FALSE` stands where behaviours end: a panicking watcher ends the
process in `client_concurrent`; a configuration, an RPC, a program and a sequence
of options are finite in `config_*`, `server_chain`, `demos` and `options*`.

Type invariants are not spent on runs: the `TypeOK` of every module that has one is
proved instead, as a theorem or as a part of the inductive invariant.

### Fairness

- `ClientLifecycle`: a call inside the client's own code runs on; a cancelled
  context unblocks the watcher's stream call, `Recv` and sleep, so a watcher runs
  on *once it is cancelled*; the context of a `WaitReady` expires, which the
  caller notices if it blocks again and again (strong fairness, since a state
  change may win the race each time). Nothing of the server, the connection or a
  watcher with a live context.
- `ServerLifecycle`: `Run` and the serve goroutine are scheduled, and a handler
  that is not a health Watch returns.
- `HealthSystem`: in addition, a call of the client runs on, a channel keeps trying
  (gRPC's own reconnection), the watcher runs and its timers fire, a status that was
  sent arrives, and the end of a stream reaches the server. Nothing makes the
  application close the client, cancel the context or start a server.
- `ClientCall`: the interceptors run, timers fire, a deadline passes, and the
  transport gives up on an ended context. Nothing of server, network or token source.
- `GreeterStream`: both ends run, a stream on its way reaches its server, and so does
  a cancellation. A client that stops reading is thereby excluded.
- `Demos`: `main` runs on, servers that are started reach `Serve`, and gRPC keeps
  connecting to a server that serves. Nothing keeps a server up.

### Where code and documentation disagree

Three runs expect a violation; the counterexamples are short.

- `client_close_leak`: a `Close` between the two critical sections of `Connect`
  (`client.go:142` and `240`) finds no `healthCancel`; the watcher that starts
  afterwards is on a nil or a later connection and the `Close` that should have
  cancelled it is over, although `Close` "cancels any background goroutines".
- `config_map_race`: the snapshot of `getConfig` shares its maps with the
  configuration, so `Auth` and `Logging` read a map that a concurrent
  `WithExcludedMethods` or `WithDemotedMethods` writes, although
  `interceptor/doc.go` allows `Configure` during RPCs "without data races".
- `options_masked`: a succeeding `WithLoadBalancing` (client) or
  `WithDefaultServiceConfig` (server) clears `configErr` whoever recorded it, so a
  failed TLS option goes unreported and the transport is plaintext.

Some passing properties carry the exception that the code needs, and say so:

- `RunReturns`: an open health Watch holds `GracefulStop`, which has no timeout;
  `CloseReleasesDrain` says who can release it.
- `WatcherCatchesUp`: a `Run` that ends with a serve error does not stop its
  `grpc.Server`, so a watcher attached to it never hears of the next `Run`.
- `HealthFollowsApp`: a status set on a health server that an earlier `Run` made,
  or before `setupServer` set its own, is lost.
- `LoggedOnce`: a panic that unwinds `Logging` leaves no line, as in the chain of
  `cmd/server/main.go`.
- `LogIdentifies`: `interceptor/doc.go:46-47` has `Logging` log the request ID "for
  every RPC", but the usage that the same file shows (lines 93-100) puts `Logging`
  outside `RequestID`, and so does the chain of `internal/server/doc.go`, which has no
  `RequestID`: there the line has no ID. The property states when it has one. Limiter
  and log agree on the peer unless `trustProxy` changes between their two snapshots.
- `RateBound`: nothing relates the TTL of a `MemoryRateLimiter` to its rate and burst.
  If the TTL is shorter than a bucket takes to fill (with the delay inside `Allow`), each
  eviction gives the peer the missing part (`Shortfall`): the limit alone is exceeded,
  with the constants of `rate_limiter` too, and the property bounds by how much.
- `CallReturns`: a call whose `Auth` waits for a token does not return at its deadline;
  `OAuth2TokenSource` says that a refresh "cannot be cancelled via the RPC context"
  (`client/interceptor/config.go:40-41`).
- `BothEnd`: a program waits as long as no server can be reached, unless it is
  `cmd/client` in its unary call, which has a deadline of 5 s.
- `OneLateAttempt`: an application that retries `DeadlineExceeded`, `Canceled` or
  `Unauthenticated` makes an attempt that starts after the context has ended fail
  with a code to be retried, so another may follow.
- `SuccessMeansExecuted`: nothing is claimed of `maxRetries` equal to the largest int.
- `WaitInRange`: the comment of `backoffDuration` (`retry.go:96-99`) has every wait
  "between base/2 and base × 2^attempt, capped to prevent int64 overflow", but the code
  recognises an overflow by the sign of the product only. A product that wraps to a
  positive number goes unnoticed and its wait may be shorter than base/2 (with 5 bits,
  base 9 and attempt 2: 36 wraps to 4 and the wait is 2 or 3). The property claims the
  documented range while the product fits, and at least half the largest duration when
  it wraps to zero or below.
- `BackoffIsExponential`: the watcher's backoff starts afresh whenever a stream opens,
  so one that opens and fails over and over is retried at the initial backoff.

## Proofs

Checked by TLAPS for every value of the constants under the named assumptions of
the modules (non-empty sets, natural bounds, a positive cost, a TTL of at least
two ticks, an ordered backoff range). Every safety invariant and every action
property that a passing run checks is a theorem. Each inductive invariant was
checked by TLC on the run of its property before it was proved.

`ClientLifecycleProofs`

- `TypeCorrect` (`TypeOK`) and `NoConnectionLeak` (`OpenIffCurrent`), for any
  number of callers and dials and any overlap. `OpenIffCurrent` is not inductive
  alone: `ConnInv` adds that a call in progress holds a dialled connection, that
  one caller at a time is inside `Close`, and that undialled connections are
  untouched; without the first a `WaitReady` could revive a connection that was
  never dialled.
- `WatcherOwnership` (`WatcherOwned`), `CloseStopsWatch` (`CloseCancelsWatchers`)
  and `SessionRefinement` (`ImplementsSession`) when Connect and Close are
  serialised. `WatchInv` adds that one caller is inside either, that the Connect
  inside still has its own connection current and no registered watcher, and that
  a live watcher is the registered one on the current connection. The refinement
  maps each step to `Open`, `Watch`, `Unwatch`, `Shut` or a stutter.
- `ConnectedStaysWatched` (`ConnectedIsWatched`), with nothing serialised, by
  `ConnectedInv` on top of `ConnInv`: each connection has one Connect to start its watcher
  (`HoldersDiffer`), a watcher that has not been started has not been cancelled and its
  `CancelFunc` is not registered (`NotStartedYet`), so that whatever a `Close` cancels
  while another Connect is on its way, it is not the watch to come; and the `Close` that
  does cancel the current watch is still inside when it takes the connection
  (`CurrentWatched`).

`HealthSystemProofs`, for any number of Runs, RPCs, dials and lost transports, of
`HealthSystem` (and `ServerTypeCorrect`, `TypeOK`, of `ServerLifecycle` alone):

- `ServeIsJoined` (`ServeJoined`), `NilIsDrained` (`NilMeansDrained`),
  `DownIsNotServing` (`NotServingOnceDown`) and `HealthIsTheApps`
  (`HealthFollowsApp`), by `ServerInv`. None is inductive alone. `ServerFollowsRun` and
  `ServeFollowsRun` tie the `grpc.Server`, the goroutine, its channel and the listener
  to Run's position: from `RunListen` on the channel is full exactly when the goroutine
  is done, so whoever takes the result has joined it. `ActiveHasServer` says that only
  a server that serves or drains has RPCs, and `HealthFollowsRun` that `Shutdown` is
  final for a Run's health server. The invariant is preserved by the server's steps and
  by the beginning and the end of the client's own stream.
- `BackoffDoubles` (`BackoffIsExponential`), by `NapsInv`, for every
  `InitialBackoff <= MaxBackoff`. That `2^(n+1)` is `2 * 2^n` is out of the SMT solver's
  reach and induction is not available; it follows from the library's count of the
  subsets of a finite set: `1..n+1` has twice as many as `1..n`
  (`SubsetsCounted`, `PowerDoubles`).
- `ClientRefinement`: `SysSpec => C!Spec`. The composition's steps are steps of
  `ClientLifecycle` or leave the client alone, so the theorems of
  `ClientLifecycleProofs` apply to the client of the composition too. (The prover does
  not instantiate temporal theorems of another module; that last consequence is by the
  meaning of `INSTANCE`.) The server has no such theorem: a stream on a server that a
  failed Run left behind is an RPC that `ServerLifecycle` alone does not have.

`InterceptorConfigProofs`, for any number of configurers, limiters, RPCs and options:

- `ReplacedLimiterStops` (`ReplacedIsStopped`), reinstalled limiters included, and
  `SnapshotsAreWhole` (`SnapshotIsWhole`); `CurrentLimiterRuns` (`CurrentIsCleaned`)
  unless `Reinstall`. `ConfigInv` adds `StoppedWasInstalled` (only a limiter that was
  installed is ever stopped), `CurrentRuns` (which holds inside a
  `Configure` too, where the property is silent) and `CommittedWhenFree` (without a
  writer the configuration is one that a `Configure` left behind, so a snapshot taken
  under the read lock is whole).

`ServerChainProofs`, for every set of chains without repetitions, of any length and in
any order:

- `PanicsAreContained` (`PanicContained`), `AnswersAreAuthorised`
  (`HandlerAuthorised`), `LoggedExactlyOnce` (`LoggedOnce`) and `LinesIdentify`
  (`LogIdentifies`), by `ChainInv`, which says of an RPC on its way what the properties
  say of a finished one: `PanicInv` (a panic has come through no `Recovery`), `AuthInv`
  (until the RPC has passed `Auth` a guarded method has an `AuthFunc` and is not
  excluded, who passed it then had a good token, and only an RPC that passed the whole
  chain has the handler's answer), `LogInv` (the line is there exactly when `Logging`
  lies behind), `IDInv` (the ID is the same at every level below `RequestID` and
  empty at every other), `PeerInv` and `LineInv` (every peer is named by a value that
  `trustProxy` had while the RPC was under way).

`ClientCallProofs`, for every `Width`, set of `maxRetries` and set of retried codes:

- `SuccessIsReal` (`SuccessMeansExecuted`), `RepeatsAreAllowed` (`RepeatsAllowed`) and
  `LateAttemptAtMostOnce` (`OneLateAttempt`), by `CallInv`: `AttemptsBounded` counts
  every request that was executed *or may yet be*, since an abandoned one still arrives;
  `RepeatsExplained` says why a call that has sent one goes on; `LateIsLast` that a late
  attempt fails with a code that ends the loop; `OKIsAnswered` that the client takes for
  OK only what the server answered.
- `WaitsInRange` (`WaitInRange`), for every attempt, base and width: no wait is negative,
  a product that fits gives the documented range, and one that wraps to zero or below is
  caught by the code's test; with the same lemmas on powers of two, and `PowerGrows`. That
  the test also catches a product that wraps to a positive number is not proved, because
  it does not.

`DemosProofs`, for any number of greetings, servers, calls and streams and any window:

- `EOFIsComplete` (`EOFMeansAll`) and `LateSendAtMostOnce` (`OneLateSend`), by
  `StreamInv`: `NothingLost` relates what was sent, received and is under way,
  `HandlerCounts` says when the handler returns nil, and `LateSendIsLast` that a failing
  `Send` is the handler's last.
- `TallyIsReal` (`HitsAreReal`), by `TallyInv`: `TallyBehind` counts the open stream
  once its server ran the tag, which the tally does not count yet; that a header which the
  client may have comes from a stream that started is `StreamInv`.

`RateLimiterProofs`

- `TypeCorrect` (`TypeOK`, with `PastInv`: no timestamp lies ahead).
- `HeldBucketIsCurrent` (`HeldIsCurrent`) if `HoldBound <= TTL`, by `HeldInv`: the
  entry of a holder was seen when the holder got it.
- `RateBounded` (`RateBound`) if `HoldBound <= TTL`, for every rate, burst and TTL, by
  `BucketInv`: what was admitted in the window and what the bucket would admit now stay
  within the allowance, and an evicted entry lacked at most `Shortfall` of a full bucket,
  once per TTL. The cleanup goroutine may be arbitrarily late.
- `TokenBucketKept`: if also `Cap + HoldBound <= TTL + 1`, the shortfall is zero and the
  bound is that of the token bucket alone, burst plus rate times time.
- `Reclaimed` (`StaleReclaimed`) for a prompt loop, by `TickerInv`, which relates
  the oldest entry to the last tick.

`OptionsProofs`, for any number of options, starts and services:

- `CredentialsAreFresh` (`NoStaleCredentials`), `RefusalIsJustified`
  (`RefusedForCause`) and `RegisteredServed` (`RegisteredIsServed`), by `IInv`: each
  field mirrors the last option of its group, and what was registered when a start
  began is still registered when it copies the registrars.
- `LastConfigWins` (`LastServiceConfigWins`), by `ServiceInv` and lemmas on what an
  `Append` does to the latest service config of the list.
- `TypeCorrect` (`TypeOK`), with `ServiceInv` for the type of what a start is built
  from.
- `RestartRepeats` (`StartIsRepeatable`), an action property, by `RepeatInv`: what a
  start read is still what the fields hold, since no option runs after `New`.

Only model-checked: liveness (`ClosedWatcherEnds`, `WaitReadyReturns`,
`RunReturns`, `WatcherCatchesUp`, `CloseReleasesDrain`, `CallReturns`, `BothEnd`), which
is beyond this prover together with `ENABLED` and induction over data.

## Not modelled

Logging (an atomic pointer and a pass-through to `log/slog`; no property depends on
it), the registration of balancers (blank imports; whether a policy is known is an
input of `Options`), generated code, test utilities and manifests. In the modelled
parts: the wording of log lines, errors and greetings, and the flags and environment
variables of the commands; the format of addresses and IDs, of which `ServerChain`
keeps whether they are well-formed and whose they are; durations other than the
limiter's clock and the backoff; what two servers or clients of one process expect of
the configuration they share, which no document says.

## Plan

Done, in this order: client lifecycle with its abstract session and proofs; rate
limiter with proofs; server lifecycle; interceptor configuration; options with
proofs; client calls and streams; interceptor chain with `peerKey`; greeter stream;
the composition of health watch and drain; the commands and the example; then the
proofs of the safety of all of these.

Next, in order of importance:

1. An abstract specification of what `Run` promises (one server at a time, drained or
   failed) and the proof that `ServerLifecycle` implements it.
2. An abstract limiter whose peers have one bucket each that is never forgotten, and the
   rate limiter shown to admit no more than it does if its TTL is long enough.
3. The safety part of the liveness properties: that nobody is ever stuck where the
   fairness of the runs would not move it on.
