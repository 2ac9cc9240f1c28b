-------------------------- MODULE RateLimiterProofs --------------------------
(***************************************************************************)
(* Theorems about RateLimiter, for every set of peers and requests, every  *)
(* rate, burst, TTL and length of run.                                     *)
(***************************************************************************)
EXTENDS RateLimiter, TLAPS

LEMMA CapNat == Cap \in Nat
  BY CostPositive, BurstNat DEF Cap

LEMMA PeriodPositive == Period \in Nat \ {0}
  BY TTLTicks DEF Period

LEMMA TimesNat ==
    ASSUME NEW t \in Times
    PROVE  t \in Nat /\ t <= MaxTime
  BY MaxTimeNat DEF Times

LEMMA SomeKeyIsKey == SomeKey \in Keys
  BY KeysNotEmpty DEF SomeKey

(* The content of a bucket that was last advanced in the past, as the       *)
(* rate.Limiter computes it: between nothing and the cap.                   *)
LEMMA LevelRange ==
    ASSUME TypeOK, PastInv, NEW k \in Keys, NEW b \in Times
    PROVE  Level(k, b) \in 0..Cap
<1>1. tokens[k][b] \in 0..Cap /\ last[k][b] \in Nat /\ now \in Nat /\ last[k][b] <= now
  BY TimesNat DEF TypeOK, PastInv
<1> QED BY <1>1, CapNat DEF Level

(* Every step of the requests, the cleanup goroutine and the clock keeps the *)
(* types and leaves no timestamp in the future.                              *)
LEMMA TypeInductive ==
    ASSUME TypeOK, PastInv, [Next]_vars
    PROVE  TypeOK' /\ PastInv'
<1> USE DEF TypeOK, PastInv
<1>0. now \in Times /\ now \in Nat /\ 0 \in Times
  BY TimesNat, MaxTimeNat DEF Times
<1>a. \A t \in Times : t \in Nat /\ t <= MaxTime BY TimesNat
<1>b. SomeKey \in Keys /\ Cap \in Nat /\ Cap \in 0..Cap BY SomeKeyIsKey, CapNat
<1>1. ASSUME NEW r \in Requests, NEW k \in Keys, GetExisting(r, k)
      PROVE  TypeOK' /\ PastInv'
  BY <1>0, <1>1 DEF GetExisting, SeenAt, Hold, bucketVars, tickerVars, loopVars, windowVars
<1>2. ASSUME NEW r \in Requests, NEW k \in Keys, GetNew(r, k)
      PROVE  TypeOK' /\ PastInv'
  <2>1. tokens' \in [Keys -> [Times -> 0..Cap]] BY <1>0, <1>b, <1>2 DEF GetNew
  <2>2. /\ last' \in [Keys -> [Times -> Times]]
        /\ \A q \in Keys, b \in Times : last'[q][b] <= now
    BY <1>0, <1>2 DEF GetNew
  <2> QED BY <1>0, <1>2, <2>1, <2>2 DEF GetNew, Hold, tickerVars, loopVars, windowVars
<1>3. ASSUME NEW r \in Requests, Admit(r)
      PROVE  TypeOK' /\ PastInv'
  <2>1. Level(key[r], bucket[r]) \in 0..Cap BY LevelRange
  <2>2. Level(key[r], bucket[r]) - Cost \in 0..Cap
    BY <1>3, <1>b, <2>1, CostPositive DEF Admit
  <2>3. /\ tokens' \in [Keys -> [Times -> 0..Cap]]
    BY <1>3, <2>2 DEF Admit
  <2>4. /\ last' \in [Keys -> [Times -> Times]]
        /\ \A q \in Keys, b \in Times : last'[q][b] <= now
    BY <1>0, <1>3 DEF Admit
  <2>5. spent' \in [Keys -> Nat]
    BY <1>3, CostPositive DEF Admit
  <2> QED
    BY <1>0, <1>b, <1>3, <2>3, <2>4, <2>5
       DEF Admit, Release, entryVars, tickerVars, loopVars
<1>4. ASSUME NEW r \in Requests, Reject(r)
      PROVE  TypeOK' /\ PastInv'
  BY <1>0, <1>b, <1>4
     DEF Reject, Release, entryVars, bucketVars, tickerVars, loopVars, windowVars
<1>5. CASE Cleanup
  BY <1>5 DEF Cleanup, bucketVars, requestVars, loopVars, windowVars
<1>6. CASE Stop
  BY <1>6 DEF Stop, entryVars, bucketVars, requestVars, tickerVars, windowVars
<1>7. CASE StopSeen
  BY <1>7 DEF StopSeen, entryVars, bucketVars, requestVars, tickerVars, windowVars
<1>8. CASE Tick
  <2>1. now' \in Times /\ now' = now + 1 BY <1>0, <1>8, MaxTimeNat DEF Tick, Times
  <2>2. nextTick' \in Nat /\ pending' \in BOOLEAN
    <3>1. CASE loop = "select" /\ now' = nextTick
      <4>1. nextTick' = nextTick + Period /\ pending' = TRUE
        BY <1>8, <3>1 DEF Tick, Ticker, TickerInterval
      <4>2. nextTick' \in Nat BY <4>1, PeriodPositive
      <4> QED BY <4>1, <4>2
    <3>2. CASE ~(loop = "select" /\ now' = nextTick)
      BY <1>8, <3>2 DEF Tick, Ticker, tickerVars
    <3> QED BY <3>1, <3>2
  <2>3. UNCHANGED <<entryVars, bucketVars, requestVars, loopVars, windowVars>>
    BY <1>8 DEF Tick
  <2>4. TypeOK'
    BY <2>1, <2>2, <2>3 DEF entryVars, bucketVars, requestVars, loopVars, windowVars
  <2>5. PastInv'
    <3>1. UNCHANGED <<winStart, lastSeen, last, since>>
      BY <2>3 DEF entryVars, bucketVars, requestVars, windowVars
    <3>2. \A t \in Times : t <= now => t <= now' BY <1>0, <1>a, <2>1
    <3> QED BY <3>1, <3>2
  <2> QED BY <2>4, <2>5
<1>9. CASE StartWindow
  BY <1>0, <1>9
     DEF StartWindow, entryVars, bucketVars, requestVars, tickerVars, loopVars
<1>10. CASE UNCHANGED vars
  BY <1>10 DEF vars, entryVars, bucketVars, requestVars, tickerVars, loopVars, windowVars
<1> QED BY <1>1, <1>2, <1>3, <1>4, <1>5, <1>6, <1>7, <1>8, <1>9, <1>10 DEF Next

LEMMA TypeInit == Init => TypeOK /\ PastInv
<1>1. 0 \in Times /\ 0 \in 0..Cap BY CapNat, MaxTimeNat DEF Times
<1> SUFFICES ASSUME Init PROVE TypeOK /\ PastInv OBVIOUS
<1>2. \A k \in Keys : /\ tokens[k] = [b \in Times |-> 0]
                       /\ last[k] = [b \in Times |-> 0]
  BY DEF Init
<1>3. /\ tokens \in [Keys -> [Times -> 0..Cap]]
      /\ last \in [Keys -> [Times -> Times]]
  BY <1>1 DEF Init
<1>4. TypeOK BY <1>1, <1>3, PeriodPositive, SomeKeyIsKey DEF Init, TypeOK
<1>5. PastInv BY <1>2 DEF Init, PastInv
<1> QED BY <1>4, <1>5

(* Type correctness of the limiter, rate_limit.go:32-52. *)
THEOREM TypeCorrect == Spec => []TypeOK
<1>1. TypeOK /\ PastInv /\ [Next]_vars => TypeOK' /\ PastInv' BY TypeInductive
<1> QED BY TypeInit, <1>1, PTL DEF Spec

LEMMA TypePast ==
    ASSUME TypeOK
    PROVE  /\ now \in Nat /\ winStart \in Nat
           /\ \A r \in Requests : key[r] \in Keys /\ bucket[r] \in Times /\ since[r] \in Nat
           /\ \A k \in Keys : born[k] \in Times /\ lastSeen[k] \in Nat /\ spent[k] \in Nat
           /\ \A k \in Keys, b \in Times : last[k][b] \in Nat /\ tokens[k][b] \in 0..Cap
  BY TimesNat DEF TypeOK

(* cleanup against Allow, rate_limit.go:81-82 and 183-193: an entry whose    *)
(* bucket a request holds was seen less than HoldBound ago, so a cleanup     *)
(* does not find it stale.                                                   *)
LEMMA HeldInductive ==
    ASSUME HoldBound <= TTL, TypeOK, PastInv, HeldInv, [Next]_vars
    PROVE  HeldInv'
<1> USE TypePast, HoldBoundNat, TTLTicks DEF HeldInv
<1>0. TypeOK' BY TypeInductive
<1>1. ASSUME NEW r \in Requests, NEW k \in Keys, GetExisting(r, k)
      PROVE  HeldInv'
  BY <1>1 DEF GetExisting, SeenAt, Hold, TypeOK, PastInv
<1>2. ASSUME NEW r \in Requests, NEW k \in Keys, GetNew(r, k)
      PROVE  HeldInv'
  BY <1>2 DEF GetNew, Hold, TypeOK
<1>3. ASSUME NEW r \in Requests, Admit(r)
      PROVE  HeldInv'
  BY <1>3 DEF Admit, Release, TypeOK, entryVars
<1>4. ASSUME NEW r \in Requests, Reject(r)
      PROVE  HeldInv'
  BY <1>4 DEF Reject, Release, TypeOK, entryVars
<1>5. CASE Cleanup
  <2>1. \A r \in Requests : holding[r] => ~Stale(key[r])
    BY DEF Stale
  <2> QED BY <1>5, <2>1 DEF Cleanup, requestVars
<1>6. CASE Stop BY <1>6 DEF Stop, entryVars, requestVars
<1>7. CASE StopSeen BY <1>7 DEF StopSeen, entryVars, requestVars
<1>8. CASE Tick BY <1>8 DEF Tick, entryVars, requestVars
<1>9. CASE StartWindow BY <1>9 DEF StartWindow, entryVars, requestVars
<1>10. CASE UNCHANGED vars BY <1>10 DEF vars, entryVars, requestVars
<1> QED BY <1>1, <1>2, <1>3, <1>4, <1>5, <1>6, <1>7, <1>8, <1>9, <1>10 DEF Next

SafeInv == TypeOK /\ PastInv /\ HeldInv

LEMMA SafeInductive ==
    ASSUME HoldBound <= TTL
    PROVE  Spec => []SafeInv
<1>1. Init => SafeInv BY TypeInit DEF Init, SafeInv, HeldInv
<1>2. SafeInv /\ [Next]_vars => SafeInv'
  BY TypeInductive, HeldInductive DEF SafeInv
<1> QED BY <1>1, <1>2, PTL DEF Spec

(* Allow against cleanup, rate_limit.go:81-82 and 183-193: if no request is  *)
(* delayed for more than the TTL inside Allow, it uses the bucket that the   *)
(* map has for its peer.                                                     *)
THEOREM HeldBucketIsCurrent == HoldBound <= TTL => (Spec => []HeldIsCurrent)
<1>1. SafeInv => HeldIsCurrent BY DEF SafeInv, HeldInv, HeldIsCurrent
<1>2. SUFFICES ASSUME HoldBound <= TTL PROVE Spec => []HeldIsCurrent
  OBVIOUS
<1>3. Spec => []SafeInv BY <1>2, SafeInductive
<1> QED BY <1>1, <1>3, PTL

(* A bucket unused for more than TTL - HoldBound ticks lacks at most the     *)
(* shortfall.                                                                *)
LEMMA RestedLevel ==
    ASSUME TypeOK, PastInv, NEW k \in Keys, NEW b \in Times,
           now - last[k][b] >= TTL + 1 - HoldBound
    PROVE  Level(k, b) + Shortfall >= Cap
  BY TypePast, LevelRange, CapNat, HoldBoundNat, TTLTicks DEF Level, Shortfall

LEMMA ShortfallNat == Shortfall \in Nat
  BY CapNat, HoldBoundNat, TTLTicks DEF Shortfall

LEMMA DivisionGrows ==
    ASSUME NEW a \in Nat, NEW b \in Nat, NEW d \in Nat \ {0}, a <= b
    PROVE  /\ a \div d \in Nat
           /\ a \div d <= b \div d
           /\ a + d <= b => (a \div d) + 1 <= b \div d
  OBVIOUS

LEMMA ProductGrows ==
    ASSUME NEW a \in Nat, NEW b \in Nat, NEW c \in Nat
    PROVE  /\ a * c \in Nat
           /\ a <= b => a * c <= b * c
           /\ a + 1 <= b => a * c + c <= b * c
  OBVIOUS

(* What evictions may have forgiven grows with time, by a shortfall from one *)
(* eviction to the next, and is nothing before the peer used its bucket.     *)
LEMMA ForgivenGrows ==
    ASSUME NEW w \in Nat, NEW s \in Nat, NEW t \in Nat, s <= t
    PROVE  /\ Forgiven(w, s) \in Nat
           /\ Forgiven(w, s) <= Forgiven(w, t)
           /\ w <= s + HoldBound /\ s + TTL < t =>
                 Forgiven(w, s) + Shortfall <= Forgiven(w, t)
<1> USE HoldBoundNat, TTLTicks
<1>1. /\ Evictions(w, s) \in Nat /\ Evictions(w, t) \in Nat
      /\ Evictions(w, s) <= Evictions(w, t)
      /\ w <= s + HoldBound /\ s + TTL < t => Evictions(w, s) + 1 <= Evictions(w, t)
  <2> DEFINE d == TTL + 1
             a == s + HoldBound - w
             b == t + HoldBound - w
  <2>1. d \in Nat \ {0} OBVIOUS
  <2>2. CASE s + HoldBound < w /\ t + HoldBound < w
    BY <2>2 DEF Evictions
  <2>3. CASE s + HoldBound < w /\ w <= t + HoldBound
    <3>1. b \in Nat BY <2>3
    <3>2. Evictions(w, s) = 0 /\ Evictions(w, t) = b \div d BY <2>3 DEF Evictions
    <3> HIDE DEF b, d
    <3>3. b \div d \in Nat BY <2>1, <3>1, DivisionGrows
    <3> QED BY <2>3, <3>2, <3>3
  <2>4. CASE w <= s + HoldBound
    <3>1. a \in Nat /\ b \in Nat /\ a <= b BY <2>4
    <3>2. Evictions(w, s) = a \div d /\ Evictions(w, t) = b \div d
      BY <2>4 DEF Evictions
    <3>3. s + TTL < t => a + d <= b BY <2>4
    <3> HIDE DEF a, b, d
    <3>4. /\ a \div d \in Nat /\ b \div d \in Nat
          /\ a \div d <= b \div d
          /\ a + d <= b => (a \div d) + 1 <= b \div d
      BY <2>1, <3>1, DivisionGrows
    <3> QED BY <3>2, <3>3, <3>4
  <2> QED BY <2>2, <2>3, <2>4
<1> QED BY <1>1, ShortfallNat, ProductGrows DEF Forgiven

(* Allow and cleanup, rate_limit.go:77-83 and 183-193: an eviction forgets   *)
(* no more than a shortfall of what the peer has spent.                      *)
LEMMA BucketInductive ==
    ASSUME HoldBound <= TTL, TypeOK, PastInv, HeldInv, BucketInv, [Next]_vars
    PROVE  BucketInv'
<1> USE TypePast, CapNat, HoldBoundNat, TTLTicks, ShortfallNat
<1>0. /\ \A k \in Keys : Level(k, born[k]) \in 0..Cap
      /\ TypeOK'
  BY LevelRange, TypeInductive
<1> DEFINE Ok(k) ==
      /\ present[k] => /\ last[k][born[k]] <= lastSeen[k] + HoldBound
                       /\ spent[k] > 0 => winStart <= lastSeen[k] + HoldBound
                       /\ spent[k] + Level(k, born[k])
                            <= Cap + (now - winStart) + Forgiven(winStart, lastSeen[k])
      /\ ~present[k] => spent[k] <= (now - winStart) + Forgiven(winStart, now)
<1> SUFFICES ASSUME NEW k \in Keys PROVE Ok(k)'
  BY DEF BucketInv
<1>k. Ok(k) BY DEF BucketInv
<1>f. /\ Forgiven(winStart, lastSeen[k]) \in Nat /\ Forgiven(winStart, now) \in Nat
      /\ Forgiven(winStart, lastSeen[k]) <= Forgiven(winStart, now)
  BY ForgivenGrows DEF PastInv
<1>1. ASSUME NEW r \in Requests, NEW j \in Keys, GetExisting(r, j)
      PROVE  Ok(k)'
  <2>1. /\ UNCHANGED <<present, born, tokens, last, spent, now, winStart>>
        /\ lastSeen'[k] >= lastSeen[k] /\ lastSeen'[k] \in Nat
    BY <1>1 DEF GetExisting, SeenAt, bucketVars, windowVars, TypeOK, PastInv
  <2>2. Level(k, born[k])' = Level(k, born[k]) BY <2>1 DEF Level
  <2>3. Forgiven(winStart, lastSeen[k]) <= Forgiven(winStart', lastSeen'[k])
          /\ Forgiven(winStart', lastSeen'[k]) \in Nat
    <3>1. ASSUME NEW t \in Nat, lastSeen[k] <= t
          PROVE  /\ Forgiven(winStart, lastSeen[k]) <= Forgiven(winStart, t)
                 /\ Forgiven(winStart, t) \in Nat
      BY <3>1, ForgivenGrows
    <3> QED BY <2>1, <3>1
  <2>4. Forgiven(winStart', now') = Forgiven(winStart, now) BY <2>1
  <2> QED BY <1>k, <1>f, <2>1, <2>2, <2>3, <2>4, <1>0
<1>2. ASSUME NEW r \in Requests, NEW j \in Keys, GetNew(r, j)
      PROVE  Ok(k)'
  <2>1. UNCHANGED <<spent, now, winStart>> BY <1>2 DEF GetNew, windowVars
  <2>2. CASE k = j
    <3>1. /\ ~present[k] /\ present'[k] /\ born'[k] = now /\ lastSeen'[k] = now
          /\ tokens'[k][now] = Cap /\ last'[k][now] = now
      BY <1>2, <2>2 DEF GetNew, TypeOK
    <3>2. Level(k, born[k])' = Cap BY <2>1, <3>1 DEF Level
    <3>3. winStart <= now BY DEF PastInv
    <3> QED BY <1>k, <1>f, <2>1, <3>1, <3>2, <3>3
  <2>3. CASE k # j
    <3>1. /\ present'[k] = present[k] /\ born'[k] = born[k] /\ lastSeen'[k] = lastSeen[k]
          /\ tokens'[k] = tokens[k] /\ last'[k] = last[k]
      BY <1>2, <2>3 DEF GetNew, TypeOK
    <3>2. Level(k, born[k])' = Level(k, born[k]) BY <2>1, <3>1 DEF Level
    <3> QED BY <1>k, <2>1, <3>1, <3>2
  <2> QED BY <2>2, <2>3
<1>3. ASSUME NEW r \in Requests, Admit(r)
      PROVE  Ok(k)'
  <2>1. UNCHANGED <<now, winStart, present, born, lastSeen>>
    BY <1>3 DEF Admit, entryVars
  <2>2. CASE k = key[r]
    <3>1. /\ present[k] /\ bucket[r] = born[k]
          /\ since[r] <= lastSeen[k] /\ now - since[r] <= HoldBound
      BY <1>3, <2>2 DEF Admit, Release, HeldInv
    <3>2. /\ tokens'[k][born[k]] = Level(k, born[k]) - Cost
          /\ last'[k][born[k]] = now
          /\ spent'[k] = spent[k] + Cost
          /\ Level(k, born[k]) >= Cost
      BY <1>3, <2>2, <3>1 DEF Admit, TypeOK
    <3>3. Level(k, born[k])' = Level(k, born[k]) - Cost
      BY <1>0, <2>1, <3>2, CostPositive DEF Level
    <3>4. last'[k][born'[k]] <= lastSeen'[k] + HoldBound
      BY <2>1, <3>1, <3>2
    <3>5. winStart <= lastSeen[k] + HoldBound
      BY <3>1 DEF PastInv
    <3> QED BY <1>k, <1>f, <1>0, <2>1, <3>1, <3>2, <3>3, <3>4, <3>5, CostPositive
  <2>3. CASE k # key[r]
    <3>1. tokens'[k] = tokens[k] /\ last'[k] = last[k] /\ spent'[k] = spent[k]
      BY <1>3, <2>3 DEF Admit, TypeOK
    <3>2. Level(k, born[k])' = Level(k, born[k]) BY <2>1, <3>1 DEF Level
    <3> QED BY <1>k, <2>1, <3>1, <3>2
  <2> QED BY <2>2, <2>3
<1>4. ASSUME NEW r \in Requests, Reject(r)
      PROVE  Ok(k)'
  BY <1>k, <1>4 DEF Reject, Level, entryVars, bucketVars, windowVars
<1>5. CASE Cleanup
  <2>1. UNCHANGED <<now, winStart, spent, born, lastSeen, tokens, last>>
    BY <1>5 DEF Cleanup, bucketVars, windowVars
  <2>2. Level(k, born[k])' = Level(k, born[k]) BY <2>1 DEF Level
  <2>3. present'[k] => present[k] BY <1>5 DEF Cleanup
  <2>4. ASSUME present[k], ~present'[k]
        PROVE  spent[k] <= (now - winStart) + Forgiven(winStart, now)
    <3>0. lastSeen[k] < now - TTL BY <1>5, <2>4 DEF Cleanup, Stale
    <3>1. lastSeen[k] + TTL < now BY <3>0
    <3>2. now - last[k][born[k]] >= TTL + 1 - HoldBound BY <1>k, <2>4, <3>1
    <3>3. Level(k, born[k]) + Shortfall >= Cap BY <3>2, RestedLevel
    <3>4. CASE spent[k] = 0 BY <1>f, <3>4 DEF PastInv
    <3>5. CASE spent[k] > 0
      <4>1. Forgiven(winStart, lastSeen[k]) + Shortfall <= Forgiven(winStart, now)
        BY <1>k, <2>4, <3>1, <3>5, ForgivenGrows DEF PastInv
      <4> QED BY <1>k, <1>f, <1>0, <2>4, <3>3, <4>1
    <3> QED BY <3>4, <3>5
  <2> QED BY <1>k, <2>1, <2>2, <2>3, <2>4
<1>6. CASE Stop
  BY <1>k, <1>6 DEF Stop, Level, entryVars, bucketVars, windowVars
<1>7. CASE StopSeen
  BY <1>k, <1>7 DEF StopSeen, Level, entryVars, bucketVars, windowVars
<1>8. CASE Tick
  <2>1. now' = now + 1 BY <1>8 DEF Tick
  <2>2. UNCHANGED <<winStart, spent, present, born, lastSeen, tokens, last>>
    BY <1>8 DEF Tick, entryVars, bucketVars, windowVars
  <2>3. Level(k, born[k])' <= Level(k, born[k]) + 1
    BY <2>1, <2>2 DEF Level
  <2>4. Level(k, born[k])' \in Int
    BY <2>1, <2>2 DEF Level
  <2>5. /\ Forgiven(winStart, now) <= Forgiven(winStart, now + 1)
        /\ Forgiven(winStart, now + 1) \in Nat
    BY ForgivenGrows
  <2> QED BY <1>k, <1>f, <1>0, <2>1, <2>2, <2>3, <2>4, <2>5
<1>9. CASE StartWindow
  <2>1. /\ UNCHANGED <<now, present, born, lastSeen, tokens, last>>
        /\ winStart' = now /\ spent'[k] = 0
        /\ Forgiven(now, lastSeen[k]) \in Nat /\ Forgiven(now, now) \in Nat
    BY <1>9, ForgivenGrows DEF StartWindow, entryVars, bucketVars, PastInv
  <2>2. Level(k, born[k])' = Level(k, born[k]) BY <2>1 DEF Level
  <2> QED BY <1>k, <1>0, <2>1, <2>2
<1>10. CASE UNCHANGED vars
  BY <1>k, <1>10 DEF vars, Level, entryVars, bucketVars, windowVars
<1> QED BY <1>1, <1>2, <1>3, <1>4, <1>5, <1>6, <1>7, <1>8, <1>9, <1>10 DEF Next

(* Allow, rate_limit.go:77-83, against cleanup, 183-193: whatever the rate,  *)
(* the burst and the TTL, if no request is delayed for more than the TTL     *)
(* inside Allow, every window of time admits at most the burst plus the rate *)
(* times its length plus one shortfall for every TTL + 1 ticks of it.        *)
THEOREM RateBounded == HoldBound <= TTL => (Spec => []RateBound)
<1>1. SUFFICES ASSUME HoldBound <= TTL PROVE Spec => []RateBound
  OBVIOUS
<1>3. Spec => []SafeInv BY <1>1, SafeInductive
<1>4. Init => BucketInv
  <2> SUFFICES ASSUME Init, NEW k \in Keys
               PROVE ~present[k] /\ spent[k] <= (now - winStart) + Forgiven(winStart, now)
    BY DEF BucketInv
  <2> QED BY ForgivenGrows DEF Init
<1>5. SafeInv /\ BucketInv /\ [Next]_vars => BucketInv'
  BY <1>1, BucketInductive DEF SafeInv
<1>6. SafeInv /\ BucketInv => RateBound
  <2> SUFFICES ASSUME SafeInv, BucketInv, NEW k \in Keys
               PROVE  spent[k] <= Cap + (now - winStart) + Forgiven(winStart, now)
    BY DEF RateBound
  <2>1. Level(k, born[k]) \in 0..Cap BY LevelRange, TypePast DEF SafeInv
  <2>2. /\ Forgiven(winStart, lastSeen[k]) \in Nat /\ Forgiven(winStart, now) \in Nat
        /\ Forgiven(winStart, lastSeen[k]) <= Forgiven(winStart, now)
    BY ForgivenGrows, TypePast DEF SafeInv, PastInv
  <2> QED BY <2>1, <2>2, TypePast, CapNat DEF SafeInv, BucketInv
<1> QED BY <1>3, <1>4, <1>5, <1>6, PTL DEF Spec

(* Allow, rate_limit.go:77-83: a TTL that covers the time a bucket takes to  *)
(* fill plus the delay inside Allow makes evictions harmless: every window   *)
(* admits at most the burst plus the rate times its length.                  *)
THEOREM TokenBucketKept ==
    Cap + HoldBound <= TTL + 1 /\ HoldBound <= TTL =>
        (Spec => [](\A k \in Keys : spent[k] <= Cap + (now - winStart)))
<1>1. SUFFICES ASSUME Cap + HoldBound <= TTL + 1, HoldBound <= TTL
               PROVE  Spec => [](\A k \in Keys : spent[k] <= Cap + (now - winStart))
  OBVIOUS
<1>2. Shortfall = 0 BY <1>1, CapNat, HoldBoundNat, TTLTicks DEF Shortfall
<1>3. SafeInv /\ RateBound => \A k \in Keys : spent[k] <= Cap + (now - winStart)
  <2> SUFFICES ASSUME SafeInv, RateBound, NEW k \in Keys
               PROVE  spent[k] <= Cap + (now - winStart)
    OBVIOUS
  <2>1. now \in Nat /\ winStart \in Nat /\ spent[k] \in Nat BY TypePast DEF SafeInv
  <2>2. Evictions(winStart, now) \in Nat
    <3>1. CASE now + HoldBound < winStart BY <3>1 DEF Evictions
    <3>2. CASE winStart <= now + HoldBound
      <4>1. now + HoldBound - winStart \in Nat /\ TTL + 1 \in Nat \ {0}
        BY <2>1, <3>2, HoldBoundNat, TTLTicks
      <4> QED BY <2>1, <3>2, <4>1, DivisionGrows, HoldBoundNat DEF Evictions
    <3> QED BY <2>1, <3>1, <3>2, HoldBoundNat
  <2>3. Forgiven(winStart, now) = 0 BY <1>2, <2>2 DEF Forgiven
  <2> QED BY <2>1, <2>3, CapNat DEF RateBound
<1>4. Spec => []SafeInv BY <1>1, SafeInductive
<1>5. Spec => []RateBound BY <1>1, RateBounded
<1> QED BY <1>3, <1>4, <1>5, PTL

(* runCleanupLoop, rate_limit.go:93-106: the entries that the last cleanup   *)
(* left, or that the cleanup now due will find, are recent enough.           *)
LEMMA TickerInductive ==
    ASSUME TypeOK, PastInv, TickerInv, [Next]_vars
    PROVE  TickerInv'
<1> USE TypePast, PeriodPositive, TTLTicks, PromptBoolean DEF TickerInv
<1>0. nextTick \in Nat /\ pending \in BOOLEAN /\ stopped \in BOOLEAN
  BY DEF TypeOK
<1>1. ASSUME NEW r \in Requests, NEW j \in Keys, GetExisting(r, j)
      PROVE  TickerInv'
  <2>1. \A k \in Keys : lastSeen'[k] \in {lastSeen[k], now}
    BY <1>1 DEF GetExisting, SeenAt, TypeOK
  <2>2. UNCHANGED <<now, present, nextTick, pending, stopped, loop>>
    BY <1>1 DEF GetExisting, tickerVars, loopVars
  <2> QED BY <1>0, <2>1, <2>2
<1>2. ASSUME NEW r \in Requests, NEW j \in Keys, GetNew(r, j)
      PROVE  TickerInv'
  <2>1. \A k \in Keys : \/ lastSeen'[k] = now
                        \/ lastSeen'[k] = lastSeen[k] /\ (present'[k] => present[k])
    BY <1>2 DEF GetNew, TypeOK
  <2>2. UNCHANGED <<now, nextTick, pending, stopped, loop>>
    BY <1>2 DEF GetNew, tickerVars, loopVars
  <2> QED BY <1>0, <2>1, <2>2
<1>3. ASSUME NEW r \in Requests, Admit(r) \/ Reject(r)
      PROVE  TickerInv'
  BY <1>3 DEF Admit, Reject, entryVars, tickerVars, loopVars
<1>4. CASE Cleanup
  <2>1. UNCHANGED <<now, lastSeen, nextTick, stopped, loop>> /\ pending' = FALSE
    BY <1>4 DEF Cleanup, loopVars
  <2>2. \A k \in Keys : present'[k] => present[k] /\ lastSeen[k] >= now - TTL
    <3>1. \A k \in Keys : present'[k] => present[k] /\ ~Stale(k) BY <1>4 DEF Cleanup
    <3> QED BY <3>1 DEF Stale
  <2>3. pending BY <1>4 DEF Cleanup
  <2> QED BY <1>0, <2>1, <2>2, <2>3
<1>5. CASE Stop BY <1>5 DEF Stop, entryVars, tickerVars
<1>6. CASE StopSeen BY <1>6 DEF StopSeen, entryVars, tickerVars
<1>7. CASE Tick
  <2>1. now' = now + 1 /\ UNCHANGED <<present, lastSeen, stopped, loop>>
    BY <1>7 DEF Tick, entryVars, loopVars
  <2>2. PromptLoop => ~(loop = "select" /\ pending) BY <1>7 DEF Tick
  <2>3. CASE loop = "select" /\ now' = nextTick
    <3>1. pending' = TRUE /\ nextTick' = nextTick + Period
      BY <1>7, <2>3 DEF Tick, Ticker, TickerInterval
    <3> QED BY <1>0, <2>1, <2>2, <2>3, <3>1
  <2>4. CASE ~(loop = "select" /\ now' = nextTick)
    <3>1. UNCHANGED <<pending, nextTick>>
      BY <1>7, <2>4 DEF Tick, Ticker, tickerVars
    <3> QED BY <1>0, <2>1, <2>2, <2>4, <3>1
  <2> QED BY <2>3, <2>4
<1>8. CASE StartWindow
  BY <1>8 DEF StartWindow, entryVars, tickerVars, loopVars
<1>9. CASE UNCHANGED vars
  BY <1>9 DEF vars, entryVars, tickerVars, loopVars
<1> QED BY <1>1, <1>2, <1>3, <1>4, <1>5, <1>6, <1>7, <1>8, <1>9 DEF Next

(* runCleanupLoop, rate_limit.go:94-95: with a cleanup goroutine that is     *)
(* never late, no entry outlives 1.5 x TTL before Stop.                      *)
THEOREM Reclaimed == Spec => []StaleReclaimed
<1>1. Init => TickerInv
  BY PeriodPositive DEF Init, TickerInv
<1>2. TypeOK /\ PastInv /\ [Next]_vars => TypeOK' /\ PastInv' BY TypeInductive
<1>3. TypeOK /\ PastInv /\ TickerInv /\ [Next]_vars => TickerInv'
  BY TickerInductive
<1>4. TypeOK /\ TickerInv => StaleReclaimed
  <2> SUFFICES ASSUME TypeOK, TickerInv, PromptLoop, ~stopped,
                      NEW k \in Keys, present[k]
               PROVE  now - lastSeen[k] <= TTL + Period
    BY DEF StaleReclaimed
  <2>1. nextTick \in Nat BY DEF TypeOK
  <2>2. CASE pending BY <2>1, <2>2, TypePast, PeriodPositive, TTLTicks DEF TickerInv
  <2>3. CASE ~pending BY <2>1, <2>3, TypePast, PeriodPositive, TTLTicks DEF TickerInv
  <2> QED BY <2>2, <2>3
<1> QED BY TypeInit, <1>1, <1>2, <1>3, <1>4, PTL DEF Spec

=============================================================================
