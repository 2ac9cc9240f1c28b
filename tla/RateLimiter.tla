----------------------------- MODULE RateLimiter -----------------------------
(***************************************************************************)
(* internal/server/interceptor/rate_limit.go: a MemoryRateLimiter with a   *)
(* positive rate, shared by the goroutines that serve RPCs and by its own  *)
(* cleanup goroutine.  Allow looks the peer's bucket up under the map's    *)
(* mutex and takes the token after releasing it, so a cleanup can run in   *)
(* between.                                                                *)
(*                                                                         *)
(* Time is counted in ticks; a token costs Cost ticks at the configured    *)
(* rate, and a bucket's content is measured in ticks too, so a bucket      *)
(* gains one unit per tick up to Cap.  A bucket (a *rate.Limiter) is named *)
(* by its key and the time it was made, which is unique because an entry   *)
(* is evicted only when it is older than now.                              *)
(***************************************************************************)
EXTENDS Integers

CONSTANTS
    Keys,       \* peers
    Requests,   \* goroutines serving RPCs
    Cost,       \* ticks in which one token accrues: 1 / rate
    Burst,      \* burst size in tokens
    TTL,        \* ttl in ticks
    HoldBound,  \* the longest time between getLimiter and limiter.Allow
    PromptLoop, \* the cleanup goroutine runs before the clock moves on
    MaxTime     \* bound: the length of a behaviour in ticks

ASSUME KeysNotEmpty  == Keys # {}
ASSUME CostPositive  == Cost \in Nat \ {0}
ASSUME BurstNat      == Burst \in Nat
ASSUME TTLTicks      == TTL \in Nat /\ TTL >= 2   \* time.NewTicker(ttl / 2) needs ttl / 2 > 0
ASSUME HoldBoundNat  == HoldBound \in Nat
ASSUME PromptBoolean == PromptLoop \in BOOLEAN
ASSUME MaxTimeNat    == MaxTime \in Nat

Cap    == Burst * Cost
Period == TTL \div 2
Times  == 0..MaxTime

SomeKey == CHOOSE k \in Keys : TRUE   \* the locals of a request that holds nothing

VARIABLES
    now,        \* time.Now()
    present,    \* present[k]: the map has an entry for k
    born,       \* born[k]: the bucket in k's entry
    lastSeen,   \* lastSeen[k]: the entry's lastSeen
    tokens,     \* tokens[k][b]: rate.Limiter.tokens of bucket b, in ticks
    last,       \* last[k][b]: rate.Limiter.last of bucket b
    holding,    \* holding[r]: r is between getLimiter and limiter.Allow
    key,        \* key[r]: the peer r serves
    bucket,     \* bucket[r]: the bucket r got
    since,      \* since[r]: when r got it
    stopped,    \* cleanupStop is closed
    loop,       \* the cleanup goroutine: "select" or "exited"
    nextTick,   \* when the ticker fires next
    pending,    \* a tick waits in the ticker's channel
    winStart,   \* history: the start of the observed window
    spent       \* history: spent[k]: ticks' worth of tokens admitted in it

entryVars   == <<present, born, lastSeen>>
bucketVars  == <<tokens, last>>
requestVars == <<holding, key, bucket, since>>
tickerVars  == <<nextTick, pending>>
loopVars    == <<stopped, loop>>
windowVars  == <<winStart, spent>>
vars == <<now, entryVars, bucketVars, requestVars, tickerVars, loopVars, windowVars>>

TypeOK ==
    /\ now \in Times
    /\ present \in [Keys -> BOOLEAN]
    /\ born \in [Keys -> Times]
    /\ lastSeen \in [Keys -> Times]
    /\ tokens \in [Keys -> [Times -> 0..Cap]]
    /\ last \in [Keys -> [Times -> Times]]
    /\ holding \in [Requests -> BOOLEAN]
    /\ key \in [Requests -> Keys]
    /\ bucket \in [Requests -> Times]
    /\ since \in [Requests -> Times]
    /\ stopped \in BOOLEAN
    /\ loop \in {"select", "exited"}
    /\ nextTick \in Nat
    /\ pending \in BOOLEAN
    /\ winStart \in Times
    /\ spent \in [Keys -> Nat]

Init ==
    /\ now = 0
    /\ present = [k \in Keys |-> FALSE]
    /\ born = [k \in Keys |-> 0]
    /\ lastSeen = [k \in Keys |-> 0]
    /\ tokens = [k \in Keys |-> [b \in Times |-> 0]]
    /\ last = [k \in Keys |-> [b \in Times |-> 0]]
    /\ holding = [r \in Requests |-> FALSE]
    /\ key = [r \in Requests |-> SomeKey]
    /\ bucket = [r \in Requests |-> 0]
    /\ since = [r \in Requests |-> 0]
    /\ stopped = FALSE
    /\ loop = "select"
    /\ nextTick = Period
    /\ pending = FALSE
    /\ winStart = 0
    /\ spent = [k \in Keys |-> 0]

-----------------------------------------------------------------------------
(* Allow, first half: peerLimiters.getLimiter. *)

Hold(r, k, b) ==
    /\ ~holding[r]
    /\ holding' = [holding EXCEPT ![r] = TRUE]
    /\ key' = [key EXCEPT ![r] = k]
    /\ bucket' = [bucket EXCEPT ![r] = b]
    /\ since' = [since EXCEPT ![r] = now]

(* Seeded fault: getLimiter does not refresh lastSeen. *)
SeenAtUnrefreshed(k) == lastSeen[k]

SeenAt(k) == now

GetExisting(r, k) ==
    /\ present[k]
    /\ Hold(r, k, born[k])
    /\ lastSeen' = [lastSeen EXCEPT ![k] = SeenAt(k)]
    /\ UNCHANGED <<now, present, born, bucketVars, tickerVars, loopVars, windowVars>>

GetNew(r, k) ==
    /\ ~present[k]
    /\ Hold(r, k, now)
    /\ present' = [present EXCEPT ![k] = TRUE]
    /\ born' = [born EXCEPT ![k] = now]
    /\ lastSeen' = [lastSeen EXCEPT ![k] = now]
    /\ tokens' = [tokens EXCEPT ![k][now] = Cap]
    /\ last' = [last EXCEPT ![k][now] = now]
    /\ UNCHANGED <<now, tickerVars, loopVars, windowVars>>

(* Allow, second half: rate.Limiter.Allow on the bucket r got (the          *)
(* golang.org/x/time/rate package, outside this repository): advance the    *)
(* bucket to now, take a token if there is one, else change nothing.        *)

Level(k, b) ==
    LET grown == tokens[k][b] + (now - last[k][b])
    IN  IF grown < Cap THEN grown ELSE Cap

Release(r) ==
    /\ holding[r]
    /\ holding' = [holding EXCEPT ![r] = FALSE]
    /\ key' = [key EXCEPT ![r] = SomeKey]
    /\ bucket' = [bucket EXCEPT ![r] = 0]
    /\ since' = [since EXCEPT ![r] = 0]

Admit(r) ==
    LET k == key[r]
        b == bucket[r]
    IN  /\ Release(r)
        /\ Level(k, b) >= Cost
        /\ tokens' = [tokens EXCEPT ![k][b] = Level(k, b) - Cost]
        /\ last' = [last EXCEPT ![k][b] = now]
        /\ spent' = [spent EXCEPT ![k] = @ + Cost]
        /\ UNCHANGED <<now, entryVars, tickerVars, loopVars, winStart>>

Reject(r) ==
    /\ Release(r)
    /\ Level(key[r], bucket[r]) < Cost
    /\ UNCHANGED <<now, entryVars, bucketVars, tickerVars, loopVars, windowVars>>

-----------------------------------------------------------------------------
(* runCleanupLoop, cleanup and Stop. *)

(* Seeded fault: an entry counts as stale at half its TTL. *)
StaleEarly(k) == lastSeen[k] < now - Period

Stale(k) == lastSeen[k] < now - TTL

Cleanup ==
    /\ loop = "select"
    /\ pending
    /\ pending' = FALSE
    /\ present' = [k \in Keys |-> present[k] /\ ~Stale(k)]
    /\ UNCHANGED <<now, born, lastSeen, bucketVars, requestVars, nextTick,
                   loopVars, windowVars>>

Stop ==
    /\ ~stopped
    /\ stopped' = TRUE
    /\ UNCHANGED <<now, entryVars, bucketVars, requestVars, tickerVars, loop, windowVars>>

StopSeen ==
    /\ loop = "select"
    /\ stopped
    /\ loop' = "exited"
    /\ UNCHANGED <<now, entryVars, bucketVars, requestVars, tickerVars, stopped, windowVars>>

(* Seeded fault: the ticker fires once per TTL. *)
TickerIntervalFull == TTL

TickerInterval == Period

(* The ticker drops a tick when its channel of one slot is full; the loop's *)
(* exit stops it.                                                           *)
Ticker ==
    IF loop = "select" /\ now' = nextTick
    THEN pending' = TRUE /\ nextTick' = nextTick + TickerInterval
    ELSE UNCHANGED tickerVars

(* The clock.  HoldBound limits how long a request goroutine may be         *)
(* preempted between the two halves of Allow.                               *)
Tick ==
    /\ now < MaxTime
    /\ \A r \in Requests : holding[r] => now - since[r] < HoldBound
    /\ PromptLoop => ~(loop = "select" /\ pending)
    /\ now' = now + 1
    /\ Ticker
    /\ UNCHANGED <<entryVars, bucketVars, requestVars, loopVars, windowVars>>

(* An observer starts a new window at any moment. *)
StartWindow ==
    /\ winStart' = now
    /\ spent' = [k \in Keys |-> 0]
    /\ UNCHANGED <<now, entryVars, bucketVars, requestVars, tickerVars, loopVars>>

Next ==
    \/ \E r \in Requests, k \in Keys : GetExisting(r, k) \/ GetNew(r, k)
    \/ \E r \in Requests : Admit(r) \/ Reject(r)
    \/ Cleanup
    \/ Stop
    \/ StopSeen
    \/ Tick
    \/ StartWindow

Spec == Init /\ [][Next]_vars

-----------------------------------------------------------------------------
(* Properties *)

(* Nothing relates the TTL to the rate and the burst, so an entry may be    *)
(* evicted before its bucket is full again.  The next request finds a full  *)
(* bucket: what an eviction gives away is the part of the bucket that could *)
(* not refill between its last use and the eviction.                        *)
Shortfall ==
    IF Cap + HoldBound > TTL + 1 THEN Cap + HoldBound - (TTL + 1) ELSE 0

(* Evictions, up to time t, of buckets used since time s: the entry has to   *)
(* be unseen for more than the TTL before each.                              *)
Evictions(s, t) ==
    IF t + HoldBound < s THEN 0 ELSE (t + HoldBound - s) \div (TTL + 1)

Forgiven(s, t) == Evictions(s, t) * Shortfall

(* Allow, rate_limit.go:77-83, against cleanup, 183-193: in any window of    *)
(* time a peer is admitted at most the burst plus the rate times the         *)
(* window's length, plus the shortfall of the buckets evicted meanwhile, at  *)
(* most one in TTL + 1 ticks.  The shortfall is zero, and the bound that of  *)
(* the token bucket alone, exactly if the TTL covers the time a bucket takes *)
(* to fill and the delay inside Allow; with any other rate, burst and TTL    *)
(* that NewMemoryRateLimiter accepts, the limit itself may be exceeded.      *)
RateBound ==
    \A k \in Keys :
        spent[k] <= Cap + (now - winStart) + Forgiven(winStart, now)

(* cleanup against Allow, rate_limit.go:81-82 and 183-193: the bucket a      *)
(* request holds is still the peer's bucket when the request uses it, so no  *)
(* two buckets of one peer are in use at once.                               *)
HeldIsCurrent ==
    \A r \in Requests : holding[r] =>
        present[key[r]] /\ born[key[r]] = bucket[r]

(* runCleanupLoop, rate_limit.go:94-95: "stale entries are reclaimed within  *)
(* 1.5 x TTL": until Stop, no entry is older than that.                      *)
StaleReclaimed ==
    PromptLoop /\ ~stopped =>
        \A k \in Keys : present[k] => now - lastSeen[k] <= TTL + Period

-----------------------------------------------------------------------------
(* The inductive strengthening that the proofs rest on. *)

PastInv ==
    /\ winStart <= now
    /\ \A k \in Keys : lastSeen[k] <= now /\ \A b \in Times : last[k][b] <= now
    /\ \A r \in Requests : since[r] <= now

(* A holder saw its entry recently, hence after the cutoff of any cleanup. *)
HeldInv ==
    \A r \in Requests : holding[r] =>
        /\ now - since[r] <= HoldBound
        /\ present[key[r]]
        /\ born[key[r]] = bucket[r]
        /\ since[r] <= lastSeen[key[r]]

(* What was admitted in the window and what the peer may still take at once *)
(* never exceed the allowance; an absent entry stands for a full bucket.    *)
BucketInv ==
    \A k \in Keys :
        /\ present[k] =>
              /\ last[k][born[k]] <= lastSeen[k] + HoldBound
              /\ spent[k] > 0 => winStart <= lastSeen[k] + HoldBound
              /\ spent[k] + Level(k, born[k])
                    <= Cap + (now - winStart) + Forgiven(winStart, lastSeen[k])
        /\ ~present[k] =>
              spent[k] <= (now - winStart) + Forgiven(winStart, now)

(* The last tick of the ticker was at nextTick - Period; the cleanup it     *)
(* caused, if it has run, left nothing older than TTL then.                 *)
TickerInv ==
    /\ loop = "select" => nextTick - Period <= now /\ now < nextTick
    /\ PromptLoop /\ ~stopped =>
         /\ loop = "select"
         /\ pending => now = nextTick - Period
         /\ \A k \in Keys : present[k] =>
               lastSeen[k] >= nextTick - TTL - (IF pending THEN 2 * Period ELSE Period)

=============================================================================
