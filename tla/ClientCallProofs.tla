-------------------------- MODULE ClientCallProofs --------------------------
(***************************************************************************)
(* What ClientCall and Backoff keep for every width of an int, every       *)
(* maxRetries and every set of retry codes.                                *)
(***************************************************************************)
EXTENDS ClientCall, FiniteSetTheorems, TLAPS

-----------------------------------------------------------------------------
(* Integers of Width bits. *)

(* Powers of two count subsets, which is all that the library knows of them. *)
LEMMA SubsetsCounted ==
    ASSUME NEW n \in Nat
    PROVE  /\ IsFiniteSet(SUBSET (1..n))
           /\ Cardinality(SUBSET (1..n)) = 2^n
<1>1. IsFiniteSet(1..n) /\ Cardinality(1..n) = n
    BY FS_Interval
<1> QED BY <1>1, FS_SUBSET

LEMMA PowerPositive ==
    ASSUME NEW n \in Nat
    PROVE  2^n \in Nat \ {0}
<1>1. Cardinality(SUBSET (1..n)) \in Nat
    BY SubsetsCounted, FS_CardinalityType
<1>2. SUBSET (1..n) # {}
    OBVIOUS
<1>3. Cardinality(SUBSET (1..n)) # 0
    BY <1>2, SubsetsCounted, FS_EmptySet
<1> QED BY <1>1, <1>3, SubsetsCounted

LEMMA PowerDoubles ==
    ASSUME NEW n \in Nat
    PROVE  2^(n + 1) = 2 * 2^n
<1> DEFINE Without == SUBSET (1..n)
           With    == (SUBSET (1..(n + 1))) \ Without
           Adding  == [T \in Without |-> T \union {n + 1}]
<1>1. Adding \in Bijection(Without, With)
  <2>1. Adding \in [Without -> With]
    OBVIOUS
  <2>2. \A S, T \in Without : Adding[S] = Adding[T] => S = T
    OBVIOUS
  <2>3. \A U \in With : \E T \in Without : Adding[T] = U
    <3> TAKE U \in With
    <3>1. n + 1 \in U /\ U \ {n + 1} \in Without
      OBVIOUS
    <3>2. Adding[U \ {n + 1}] = U
      BY <3>1
    <3> QED BY <3>1, <3>2
  <2> QED BY <2>1, <2>2, <2>3 DEF Bijection, Injection, Surjection, IsInjective
<1>2. IsFiniteSet(Without) /\ Cardinality(Without) = 2^n
    BY SubsetsCounted
<1>3. IsFiniteSet(With) /\ Cardinality(With) = 2^n
  <2> HIDE DEF Without, With, Adding
  <2>1. ExistsBijection(Without, With) BY <1>1 DEF ExistsBijection
  <2> QED BY <2>1, <1>2, FS_Bijection
<1>4. /\ Without \union With = SUBSET (1..(n + 1))
      /\ Without \intersect With = {}
    OBVIOUS
<1>5. Cardinality(SUBSET (1..(n + 1))) = 2^(n + 1)
    BY SubsetsCounted
<1>6. 2^n \in Nat
    BY PowerPositive
<1> HIDE DEF Without, With
<1>7. Cardinality(Without \union With) = 2^n + 2^n - 0
    BY <1>2, <1>3, <1>4, FS_Union, FS_EmptySet
<1>8. 2^(n + 1) = 2^n + 2^n - 0
    BY <1>4, <1>5, <1>7, Zenon
<1> QED BY <1>6, <1>8

LEMMA PowerGrows ==
    ASSUME NEW m \in Nat, NEW n \in Nat, m <= n
    PROVE  2^m <= 2^n
<1>1. SUBSET (1..m) \subseteq SUBSET (1..n)
    OBVIOUS
<1>2. IsFiniteSet(SUBSET (1..n))
    BY SubsetsCounted
<1>3. Cardinality(SUBSET (1..m)) <= Cardinality(SUBSET (1..n))
    BY <1>1, <1>2, FS_Subset
<1>4. Cardinality(SUBSET (1..m)) = 2^m /\ Cardinality(SUBSET (1..n)) = 2^n
    BY SubsetsCounted
<1> QED BY <1>3, <1>4, Zenon
(* The bounds of the integers, in terms of the largest power among them. *)
LEMMA IntBounds ==
    /\ 2^(Width - 2) \in Nat \ {0}
    /\ MaxInt = 2 * 2^(Width - 2) - 1
    /\ MinInt = -(2 * 2^(Width - 2))
    /\ 2^Width = 4 * 2^(Width - 2)
<1>1. Width - 2 \in Nat /\ Width - 1 \in Nat
    BY WidthNat
<1>2. 2^(Width - 2) \in Nat \ {0}
    BY <1>1, PowerPositive
<1>3. 2^((Width - 2) + 1) = 2 * 2^(Width - 2) /\ (Width - 2) + 1 = Width - 1
    BY <1>1, PowerDoubles, WidthNat
<1>4. 2^((Width - 1) + 1) = 2 * 2^(Width - 1) /\ (Width - 1) + 1 = Width
    BY <1>1, PowerDoubles, WidthNat
<1> QED BY <1>2, <1>3, <1>4 DEF MaxInt, MinInt

(* Wrap leaves an integer of the width, and leaves such an integer alone. *)
LEMMA WrapInRange ==
    ASSUME NEW x \in Int
    PROVE  /\ Wrap(x) \in Ints
           /\ x \in Ints => Wrap(x) = x
<1> DEFINE q == 2^(Width - 2)
<1>1. q \in Nat \ {0} /\ MaxInt = 2 * q - 1 /\ MinInt = -(2 * q) /\ 2^Width = 4 * q
    BY IntBounds
<1> HIDE DEF q
<1>2. Wrap(x) = ((x + 2 * q) % (4 * q)) - 2 * q
    BY <1>1 DEF Wrap
<1>3. (x + 2 * q) % (4 * q) \in 0..(4 * q - 1)
    BY <1>1
<1>4. ASSUME x \in -(2 * q)..(2 * q - 1)
      PROVE  (x + 2 * q) % (4 * q) = x + 2 * q
    BY <1>1, <1>4
<1> QED BY <1>1, <1>2, <1>3, <1>4 DEF Ints

LEMMA ZeroInInts == 0 \in Ints
BY IntBounds DEF Ints

(* The exponential part of a wait is positive and fits; it is the exact      *)
(* product wherever that fits.                                               *)
LEMMA ExpBackoffInRange ==
    ASSUME NEW attempt \in Nat, NEW base \in Ints
    PROVE  /\ ExpBackoff(attempt, base) \in 1..MaxInt
           /\ base > 0 /\ base * 2^attempt <= MaxInt =>
                 /\ ExpBackoff(attempt, base) = base * 2^attempt
                 /\ base <= base * 2^attempt
<1>1. MaxInt \in Nat \ {0} /\ MinInt \in Int /\ base \in Int
    BY IntBounds DEF Ints
<1>2. Shift(attempt) \in Nat
    BY WidthNat DEF Shift, maxBackoffShift
<1>3. 2^Shift(attempt) \in Nat \ {0} /\ 2^attempt \in Nat \ {0}
    BY <1>2, PowerPositive
<1>4. Wrap(2^Shift(attempt)) \in Int
    BY <1>1, <1>3, WrapInRange DEF Ints
<1>5. Wrap(base * Wrap(2^Shift(attempt))) \in Ints
    BY <1>1, <1>4, WrapInRange
<1>6. ExpBackoff(attempt, base) \in 1..MaxInt
    BY <1>1, <1>5 DEF ExpBackoff, Ints
<1>7. ASSUME base > 0, base * 2^attempt <= MaxInt
      PROVE  /\ ExpBackoff(attempt, base) = base * 2^attempt
             /\ base <= base * 2^attempt
  <2> DEFINE power == 2^attempt
  <2>1. power \in Nat \ {0} BY <1>3
  <2> HIDE DEF power
  <2>2. base * power \in Int /\ base <= base * power /\ power <= base * power
    BY <1>1, <1>7, <2>1
  <2>3. power <= MaxInt /\ base * power <= MaxInt
    BY <1>1, <1>7, <2>1, <2>2 DEF power
  <2>4. attempt <= maxBackoffShift
    <3>1. SUFFICES ASSUME attempt > maxBackoffShift PROVE FALSE
        BY WidthNat DEF maxBackoffShift
    <3>2. Width - 1 \in Nat /\ Width - 1 <= attempt
        BY <3>1, WidthNat DEF maxBackoffShift
    <3>3. 2^(Width - 1) <= power
        BY <3>2, PowerGrows DEF power
    <3>4. 2^(Width - 1) = MaxInt + 1
        BY <3>2, PowerPositive DEF MaxInt
    <3> QED BY <1>1, <2>1, <2>3, <3>3, <3>4
  <2>5. Shift(attempt) = attempt
    BY <2>4, WidthNat DEF Shift, maxBackoffShift
  <2>6. Wrap(power) = power
    BY <1>1, <2>1, <2>3, IntBounds, WrapInRange DEF Ints
  <2>7. Wrap(base * power) = base * power
    <3>1. base * power \in Ints
      BY <1>1, <1>7, <2>2, <2>3, IntBounds DEF Ints
    <3> QED BY <2>2, <3>1, WrapInRange
  <2>8. ExpBackoff(attempt, base) = IF base * power <= 0 THEN MaxInt ELSE base * power
    BY <2>5, <2>6, <2>7 DEF ExpBackoff, power
  <2>9. base * power > 0
    BY <1>1, <1>7, <2>2
  <2> QED BY <2>2, <2>8, <2>9 DEF power
<1> QED BY <1>6, <1>7

(* A product that wraps to zero or below counts as the largest duration. *)
LEMMA OverflowCaught ==
    ASSUME NEW attempt \in Nat, NEW base \in Ints,
           Wrap(base * 2^(IF attempt < Width - 2 THEN attempt ELSE Width - 2)) <= 0
    PROVE  ExpBackoff(attempt, base) = MaxInt
<1> DEFINE shift == IF attempt < Width - 2 THEN attempt ELSE Width - 2
<1>1. shift \in Nat /\ shift <= Width - 2 /\ Width - 2 \in Nat
    BY WidthNat
<1>2. Shift(attempt) = shift
    BY WidthNat DEF Shift, maxBackoffShift
<1> HIDE DEF shift
<1>3. 2^shift \in Nat \ {0} /\ 2^shift <= 2^(Width - 2)
    BY <1>1, PowerPositive, PowerGrows
<1>4. Wrap(2^shift) = 2^shift
    BY <1>3, IntBounds, WrapInRange DEF Ints
<1>5. Wrap(base * 2^shift) <= 0
    BY DEF shift
<1> QED BY <1>2, <1>4, <1>5 DEF ExpBackoff

(* backoffDuration for any attempt and base, whatever its sign. *)
LEMMA BackoffInRange ==
    ASSUME NEW attempt \in Nat, NEW base \in Ints
    PROVE  LET waits == BackoffDurations(attempt, base)
               exact == base * 2^attempt
               shifted == base * 2^(IF attempt < Width - 2 THEN attempt ELSE Width - 2)
           IN  /\ waits # {}
               /\ waits \subseteq 0..MaxInt
               /\ base <= 0 => waits = {0}
               /\ base > 0 /\ exact <= MaxInt => waits \subseteq (base \div 2)..exact
               /\ base > 0 /\ Wrap(shifted) <= 0 => waits \subseteq (MaxInt \div 2)..MaxInt
<1> DEFINE exp   == ExpBackoff(attempt, base)
           exact == base * 2^attempt
           shifted == base * 2^(IF attempt < Width - 2 THEN attempt ELSE Width - 2)
           waits == BackoffDurations(attempt, base)
           Claim == /\ waits # {}
                    /\ waits \subseteq 0..MaxInt
                    /\ base <= 0 => waits = {0}
                    /\ base > 0 /\ exact <= MaxInt => waits \subseteq (base \div 2)..exact
                    /\ base > 0 /\ Wrap(shifted) <= 0 =>
                          waits \subseteq (MaxInt \div 2)..MaxInt
<1> SUFFICES Claim
    OBVIOUS
<1>1. /\ exp \in 1..MaxInt
      /\ base > 0 /\ exact <= MaxInt => exp = exact /\ base <= exact
      /\ Wrap(shifted) <= 0 => exp = MaxInt
    BY ExpBackoffInRange, OverflowCaught
<1>2. base \in Int /\ MaxInt \in Nat
    BY IntBounds DEF Ints
<1>3. waits = IF base <= 0 THEN {0}
              ELSE IF exp \div 2 <= 0 THEN {exp}
              ELSE { (exp \div 2) + jitter : jitter \in 0..((exp \div 2) - 1) }
    BY Zenon DEF BackoffDurations
<1> HIDE DEF exp, exact, shifted, waits
<1>4. CASE base <= 0
    BY <1>2, <1>3, <1>4
<1>5. CASE base > 0 /\ exp \div 2 <= 0
    BY <1>1, <1>2, <1>3, <1>5
<1>6. CASE base > 0 /\ exp \div 2 > 0
  <2>1. waits = { (exp \div 2) + jitter : jitter \in 0..((exp \div 2) - 1) }
    BY <1>1, <1>2, <1>3, <1>6
  <2>2. \A w \in waits : w \in (exp \div 2)..exp
    BY <1>1, <1>2, <1>6, <2>1
  <2>3. (exp \div 2) + 0 \in waits
    BY <1>1, <1>6, <2>1
  <2> QED BY <1>1, <1>2, <1>6, <2>2, <2>3
<1>7. (base <= 0 \/ base > 0) /\ (exp \div 2 <= 0 \/ exp \div 2 > 0)
    BY <1>1, <1>2
<1> QED BY <1>4, <1>5, <1>6, <1>7

-----------------------------------------------------------------------------
(* The call. *)

LEMMA WireUpdates ==
    ASSUME NEW w \in Wires, NEW m \in Nat, NEW n \in Nat, NEW code \in ServerCodes
    PROVE  /\ [w EXCEPT !.attempts = m, !.answer = "none", !.late = n] \in Wires
           /\ [w EXCEPT !.executions = m, !.answer = code] \in Wires
           /\ [w EXCEPT !.executions = m, !.adrift = n] \in Wires
           /\ [w EXCEPT !.adrift = m] \in Wires
BY DEF Wires

LEMMA CallInit == Init => CallInv
BY ZeroInInts
   DEF Init, Wires, defaultRetryCodes, Codes, ServerCodes, ContextCodes, Tokens, Unary, Stream, Fresh,
       CallInv, TypeOK, FreshBefore, AttemptsBounded, Sent, RepeatsExplained, LateIsLast,
       OKIsAnswered, SuccessMeansExecuted

(* A Configure during the call leaves its snapshots alone. *)
LEMMA ConfigureKeepsInv ==
    ASSUME CallInv, WithDefaultTimeout \/ WithRetry \/ WithRetryCodes \/ WithTokenSource
    PROVE  CallInv'
<1>1. cfg' \in [timeout : BOOLEAN, retryMax : Ints, codes : SUBSET Codes, token : Tokens]
    BY RetryMaxesInt, RetryCodesStatus
       DEF WithDefaultTimeout, WithRetry, WithRetryCodes, WithTokenSource, Configure, CallInv, TypeOK
<1>2. UNCHANGED callVars
    BY DEF WithDefaultTimeout, WithRetry, WithRetryCodes, WithTokenSource, Configure
<1> QED BY <1>1, <1>2
    DEF callVars, CallInv, TypeOK, FreshBefore, AttemptsBounded, Sent, RepeatsExplained,
        RetriesAnswers, LateIsLast, OKIsAnswered, SuccessMeansExecuted

(* A call, or a stream, begins. *)
LEMMA BeginKeepsInv ==
    ASSUME CallInv, NEW first \in {"timeout", "stream"}, Begin(first)
    PROVE  CallInv'
<1>1. /\ pc' = first /\ wire' = Fresh /\ cfg' = cfg /\ lastErr' = "OK"
      /\ snap' \in [timeout : BOOLEAN, retryMax : Ints, codes : SUBSET Codes, token : Tokens]
    BY DEF Begin, configVars, CallInv, TypeOK
<1>2. context' \in [deadline : {"none", "caller", "default"}, ended : {"live"} \union ContextCodes]
    BY DEF Begin
<1>3. /\ Fresh \in Wires
      /\ Fresh.attempts = 0 /\ Fresh.late = 0 /\ Fresh.adrift = 0 /\ Fresh.executions = 0
    BY DEF Fresh, Wires
<1>4. TypeOK'
    BY <1>1, <1>2, <1>3 DEF CallInv, TypeOK, Codes, ServerCodes, Unary, Stream
<1> QED BY <1>1, <1>3, <1>4
    DEF CallInv, FreshBefore, AttemptsBounded, Sent, RepeatsExplained, LateIsLast, OKIsAnswered,
        SuccessMeansExecuted

LEMMA ContextKeepsInv ==
    ASSUME CallInv, ContextExpires \/ ContextCancelled
    PROVE  CallInv'
BY DEF ContextExpires, ContextCancelled, ContextEnds, configVars, ContextCodes, InCall, Unary,
       Stream, CallInv, TypeOK, FreshBefore, AttemptsBounded, Sent, RepeatsExplained,
       RetriesAnswers, LateIsLast, OKIsAnswered, SuccessMeansExecuted

LEMMA TimeoutKeepsInv ==
    ASSUME CallInv, Timeout
    PROVE  CallInv'
BY DEF Timeout, Goto, Deadline, configVars, Unary, Stream, CallInv, TypeOK, FreshBefore,
       AttemptsBounded, Sent, RepeatsExplained, RetriesAnswers, LateIsLast, OKIsAnswered,
       SuccessMeansExecuted

(* The loop bound overflows for the largest int alone. *)
LEMMA IterationsPositive ==
    ASSUME TypeOK, cfg.retryMax > 0, cfg.retryMax < MaxInt
    PROVE  Iterations > 0
<1>1. cfg.retryMax \in Int /\ cfg.retryMax + 1 \in Ints
    BY IntBounds DEF TypeOK, Ints
<1> QED BY <1>1, WrapInRange DEF Iterations

LEMMA RetryBeginKeepsInv ==
    ASSUME CallInv, RetryBegin \/ RetryNoIteration
    PROVE  CallInv'
<1>1. /\ wire = Fresh /\ wire' = wire /\ cfg' = cfg
      /\ context' = context /\ lastErr' = lastErr
    BY DEF RetryBegin, RetryNoIteration, RetrySnapshot, Goto, Return, configVars, CallInv,
           FreshBefore
<1>2. /\ snap' \in [timeout : BOOLEAN, retryMax : Ints, codes : SUBSET Codes, token : Tokens]
      /\ snap'.retryMax = cfg.retryMax
    BY DEF RetryBegin, RetryNoIteration, RetrySnapshot, CallInv, TypeOK
<1>3. ASSUME RetryNoIteration
      PROVE  pc' = "done" /\ ~(snap'.retryMax < MaxInt)
  <2>1. Iterations \in Int /\ cfg.retryMax \in Int /\ MaxInt \in Int
    BY IntBounds, WrapInRange DEF Iterations, CallInv, TypeOK, Ints
  <2>2. cfg.retryMax > 0 /\ Iterations <= 0 /\ pc' = "done"
    BY <1>3 DEF RetryNoIteration, Return
  <2>3. ~(cfg.retryMax < MaxInt)
    BY <2>1, <2>2, IterationsPositive DEF CallInv
  <2> QED BY <1>2, <2>2, <2>3
<1>4. pc' = "attempt" \/ (pc' = "done" /\ ~(snap'.retryMax < MaxInt))
    BY <1>3 DEF RetryBegin, Goto
<1> QED BY <1>1, <1>2, <1>4
    DEF Fresh, Unary, Stream, CallInv, TypeOK, FreshBefore, AttemptsBounded, Sent,
        RepeatsExplained, RetriesAnswers, LateIsLast, OKIsAnswered, SuccessMeansExecuted

LEMMA RetryLoopKeepsInv ==
    ASSUME CallInv, RetryReturn \/ RetryWait \/ TimerFires \/ SleepInterrupted
    PROVE  CallInv'
<1> USE DEF configVars, Codes, ServerCodes, ContextCodes, Unary, Stream, CallInv, TypeOK,
            FreshBefore, AttemptsBounded, Sent, RepeatsExplained, RetriesAnswers, LateErrors,
            LateIsLast, OKIsAnswered, SuccessMeansExecuted
<1>1. CASE RetryReturn
    BY <1>1 DEF RetryReturn, Return, FromError
<1>2. CASE RetryWait
  <2>1. /\ pc = "answered" /\ pc' = "sleep"
        /\ UNCHANGED <<cfg, snap, context, lastErr, wire>>
        /\ lastErr # "OK" /\ lastErr \in snap.codes
        /\ wire.attempts - 1 < snap.retryMax
    BY <1>2 DEF RetryWait, MayRetry, IsRetryable, Goto
  <2>2. /\ wire.attempts \in Nat /\ wire.late \in Nat /\ snap.retryMax \in Int
        /\ wire.executions \in Nat /\ wire.adrift \in Nat
    BY DEF Wires, Ints
  <2>3. AttemptsBounded'
    BY <2>1, <2>2
  <2>4. RepeatsExplained'
    BY <2>1, <2>2
  <2>5. LateIsLast'
    BY <2>1, <2>2
  <2> QED BY <2>1, <2>3, <2>4, <2>5
<1>3. CASE TimerFires
    BY <1>3 DEF TimerFires, Goto
<1>4. CASE SleepInterrupted
    BY <1>4 DEF SleepInterrupted, Return, FromError
<1> QED BY <1>1, <1>2, <1>3, <1>4

(* One more attempt begins. *)
LEMMA InvokeKeepsInv ==
    ASSUME CallInv, Invoke
    PROVE  CallInv'
<1>1. /\ pc = "attempt" /\ pc' = "token"
      /\ UNCHANGED <<cfg, context, lastErr>>
      /\ snap' = [snap EXCEPT !.token = cfg.token]
      /\ wire' = [wire EXCEPT !.attempts = @ + 1, !.answer = "none",
                             !.late = IF context.ended = "live" THEN @ ELSE @ + 1]
    BY DEF Invoke, Goto, configVars
<1>2. /\ wire.attempts \in Nat /\ wire.late \in Nat /\ snap.retryMax \in Int
      /\ wire.executions \in Nat /\ wire.adrift \in Nat
    BY DEF CallInv, TypeOK, Wires, Ints
<1>3. /\ wire' \in Wires
      /\ wire'.attempts = wire.attempts + 1
      /\ wire'.late = IF context.ended = "live" THEN wire.late ELSE wire.late + 1
      /\ wire'.answer = "none"
      /\ wire'.adrift = wire.adrift /\ wire'.executions = wire.executions
  <2> DEFINE m == wire.attempts + 1
             n == IF context.ended = "live" THEN wire.late ELSE wire.late + 1
  <2>1. m \in Nat /\ n \in Nat /\ wire \in Wires
    BY <1>2 DEF CallInv, TypeOK
  <2>2. wire' = [wire EXCEPT !.attempts = m, !.answer = "none", !.late = n]
    BY <1>1, <2>1 DEF Wires
  <2> HIDE DEF m, n
  <2>3. wire' \in Wires
    BY <2>1, <2>2, WireUpdates DEF ServerCodes
  <2>4. /\ wire'.attempts = m /\ wire'.late = n /\ wire'.answer = "none"
        /\ wire'.adrift = wire.adrift /\ wire'.executions = wire.executions
    BY <2>1, <2>2 DEF Wires
  <2> QED BY <2>3, <2>4 DEF m, n
<1>4. /\ snap' \in [timeout : BOOLEAN, retryMax : Ints, codes : SUBSET Codes, token : Tokens]
      /\ snap'.retryMax = snap.retryMax /\ snap'.codes = snap.codes
    BY <1>1 DEF CallInv, TypeOK
<1>5. TypeOK'
    BY <1>1, <1>3, <1>4 DEF CallInv, TypeOK, Unary
<1>6. AttemptsBounded'
    BY <1>1, <1>2, <1>3, <1>4 DEF CallInv, AttemptsBounded, Sent
<1>7. RepeatsExplained'
    BY <1>1, <1>2, <1>3, <1>4 DEF CallInv, RepeatsExplained, RetriesAnswers, Sent
<1>8. LateIsLast'
    BY <1>1, <1>2, <1>3, <1>4 DEF CallInv, LateIsLast
<1> QED BY <1>1, <1>5, <1>6, <1>7, <1>8
    DEF CallInv, FreshBefore, OKIsAnswered, SuccessMeansExecuted, Stream

(* The attempt is sent, or refused by Auth. *)
LEMMA SendKeepsInv ==
    ASSUME CallInv, AuthFails \/ Send
    PROVE  CallInv'
<1>1. /\ pc = "token"
      /\ UNCHANGED <<cfg, context, wire>>
      /\ snap' = [snap EXCEPT !.token = "nil"]
    BY DEF AuthFails, Send, TokenKnown, Goto, configVars
<1>2. /\ wire.attempts \in Nat /\ wire.late \in Nat /\ snap.retryMax \in Int
      /\ wire.executions \in Nat /\ wire.adrift \in Nat
    BY DEF CallInv, TypeOK, Wires, Ints
<1>3. /\ snap' \in [timeout : BOOLEAN, retryMax : Ints, codes : SUBSET Codes, token : Tokens]
      /\ snap'.retryMax = snap.retryMax /\ snap'.codes = snap.codes
    BY <1>1 DEF CallInv, TypeOK, Tokens
<1>4. \/ pc' = "inflight" /\ context.ended = "live" /\ lastErr' = lastErr
      \/ pc' = "answered" /\ lastErr' = "Unauthenticated"
      \/ pc' = "answered" /\ context.ended # "live" /\ lastErr' = context.ended
    BY DEF AuthFails, Send, Goto
<1>5. TypeOK'
    BY <1>1, <1>3, <1>4 DEF CallInv, TypeOK, Codes, ServerCodes, ContextCodes, Unary, Stream
<1>6. AttemptsBounded'
    BY <1>1, <1>2, <1>3, <1>4 DEF CallInv, AttemptsBounded, Sent
<1>7. RepeatsExplained'
    BY <1>1, <1>2, <1>3, <1>4 DEF CallInv, RepeatsExplained, RetriesAnswers, Sent
<1>8. LateIsLast'
  <2>1. pc' = "answered" => lastErr' \in LateErrors
    BY <1>4 DEF CallInv, TypeOK, LateErrors
  <2> QED BY <1>1, <1>2, <1>3, <1>4, <2>1 DEF CallInv, LateIsLast
<1>9. OKIsAnswered'
  <2>1. wire.answer = "none" \/ pc' # "inflight"
    BY <1>1, <1>4 DEF CallInv, OKIsAnswered
  <2> QED BY <1>1, <1>4, <2>1 DEF CallInv, TypeOK, OKIsAnswered, ContextCodes
<1> QED BY <1>1, <1>4, <1>5, <1>6, <1>7, <1>8, <1>9
    DEF CallInv, FreshBefore, SuccessMeansExecuted, Stream

(* The server's side of an attempt. *)
LEMMA ServerKeepsInv ==
    ASSUME CallInv, ServerExecutes \/ ServerExecutesAdrift
    PROVE  CallInv'
<1>1. /\ wire.attempts \in Nat /\ wire.late \in Nat /\ snap.retryMax \in Int
      /\ wire.executions \in Nat /\ wire.adrift \in Nat
    BY DEF CallInv, TypeOK, Wires, Ints
<1>2. UNCHANGED <<cfg, pc, snap, context, lastErr, result, logged>>
    BY DEF ServerExecutes, ServerExecutesAdrift, configVars
<1>3. /\ wire' \in Wires
      /\ wire'.attempts = wire.attempts /\ wire'.late = wire.late
      /\ wire'.executions = wire.executions + 1
      /\ \/ /\ pc = "inflight" /\ wire.answer = "none"
            /\ wire'.answer \in ServerCodes /\ wire'.adrift = wire.adrift
         \/ /\ wire'.answer = wire.answer
            /\ wire.adrift > 0 /\ wire'.adrift = wire.adrift - 1
  <2>1. wire \in Wires /\ wire.executions + 1 \in Nat
    BY <1>1 DEF CallInv, TypeOK
  <2>2. CASE ServerExecutes
    <3>1. PICK code \in ServerCodes : wire' = [wire EXCEPT !.executions = @ + 1, !.answer = code]
      BY <2>2 DEF ServerExecutes
    <3>2. pc = "inflight" /\ wire.answer = "none"
      BY <2>2 DEF ServerExecutes
    <3>3. wire' \in Wires
      BY <2>1, <3>1, WireUpdates DEF Wires
    <3> QED BY <2>1, <3>1, <3>2, <3>3 DEF Wires
  <2>3. CASE ServerExecutesAdrift
    <3>1. /\ wire' = [wire EXCEPT !.executions = @ + 1, !.adrift = @ - 1]
          /\ wire.adrift > 0 /\ wire.adrift - 1 \in Nat
      BY <1>1, <2>3 DEF ServerExecutesAdrift
    <3>2. wire' \in Wires
      BY <2>1, <3>1, WireUpdates DEF Wires, ServerCodes
    <3> QED BY <2>1, <3>1, <3>2 DEF Wires
  <2> QED BY <2>2, <2>3
<1>4. Sent' = Sent
    BY <1>1, <1>2, <1>3 DEF Sent, ServerCodes
<1>5. TypeOK'
    BY <1>2, <1>3 DEF CallInv, TypeOK
<1>6. AttemptsBounded' /\ RepeatsExplained' /\ LateIsLast'
    BY <1>2, <1>3, <1>4
       DEF CallInv, AttemptsBounded, RepeatsExplained, RetriesAnswers, LateIsLast
<1>7. OKIsAnswered' /\ SuccessMeansExecuted'
    BY <1>1, <1>2, <1>3 DEF CallInv, OKIsAnswered, SuccessMeansExecuted
<1>8. FreshBefore'
    BY <1>2, <1>3 DEF CallInv, FreshBefore, Fresh, Stream
<1> QED BY <1>5, <1>6, <1>7, <1>8 DEF CallInv

(* The end of an attempt: a request without an answer is adrift. *)
LEMMA AnswerKeepsInv ==
    ASSUME CallInv, AnswerArrives \/ TransportFails \/ ContextAnswered
    PROVE  CallInv'
<1>1. /\ wire.attempts \in Nat /\ wire.late \in Nat /\ snap.retryMax \in Int
      /\ wire.executions \in Nat /\ wire.adrift \in Nat
    BY DEF CallInv, TypeOK, Wires, Ints
<1>2. /\ pc = "inflight" /\ pc' = "answered"
      /\ UNCHANGED <<cfg, snap, context>>
      /\ wire' = [wire EXCEPT !.adrift = IF wire.answer = "none" THEN @ + 1 ELSE @]
    BY DEF AnswerArrives, TransportFails, ContextAnswered, Answered, Goto, configVars
<1>3. \/ wire.answer # "none" /\ lastErr' = wire.answer
      \/ lastErr' = "Unavailable"
      \/ context.ended # "live" /\ lastErr' = context.ended
    BY DEF AnswerArrives, TransportFails, ContextAnswered, Answered
<1>4. wire.answer \in ServerCodes \union {"none"} /\ context.ended \in {"live"} \union ContextCodes
    BY DEF CallInv, TypeOK, Wires
<1>5. /\ wire' \in Wires
      /\ wire'.attempts = wire.attempts /\ wire'.late = wire.late
      /\ wire'.answer = wire.answer /\ wire'.executions = wire.executions
      /\ wire'.adrift = IF wire.answer = "none" THEN wire.adrift + 1 ELSE wire.adrift
  <2> DEFINE m == IF wire.answer = "none" THEN wire.adrift + 1 ELSE wire.adrift
  <2>1. wire \in Wires /\ m \in Nat
    BY <1>1 DEF CallInv, TypeOK
  <2>2. wire' = [wire EXCEPT !.adrift = m]
    BY <1>2, <2>1 DEF Wires
  <2> HIDE DEF m
  <2>3. wire' \in Wires
    BY <2>1, <2>2, WireUpdates DEF ServerCodes
  <2> QED BY <2>1, <2>2, <2>3 DEF Wires, m
<1>6. Sent' = Sent
    BY <1>1, <1>2, <1>5 DEF Sent
<1>7. TypeOK'
    BY <1>2, <1>3, <1>4, <1>5 DEF CallInv, TypeOK, Codes, ServerCodes, ContextCodes, Unary, Stream
<1>8. AttemptsBounded'
    BY <1>1, <1>2, <1>5, <1>6 DEF CallInv, AttemptsBounded
<1>9. RepeatsExplained'
    BY <1>2, <1>3, <1>4, <1>6 DEF CallInv, RepeatsExplained, RetriesAnswers, ServerCodes
<1>10. LateIsLast'
    BY <1>1, <1>2, <1>5 DEF CallInv, LateIsLast
<1>11. OKIsAnswered'
    BY <1>2, <1>3, <1>4, <1>5 DEF CallInv, OKIsAnswered, ContextCodes
<1> QED BY <1>2, <1>7, <1>8, <1>9, <1>10, <1>11
    DEF CallInv, FreshBefore, SuccessMeansExecuted, Stream

LEMMA StreamKeepsInv ==
    ASSUME CallInv, StreamAuth \/ StreamAuthFails \/ Streamer \/ StreamOpens \/ StreamExpires
    PROVE  CallInv'
<1>1. /\ pc \in Stream /\ pc' \in {"streamToken", "opening", "open"}
      /\ UNCHANGED <<cfg, context, lastErr, wire>>
      /\ \E t \in Tokens : snap' = [snap EXCEPT !.token = t]
    BY DEF StreamAuth, StreamAuthFails, Streamer, StreamOpens, StreamExpires, StreamReturn,
           TokenKnown, Goto, configVars, Stream, Tokens, CallInv, TypeOK
<1>2. /\ snap' \in [timeout : BOOLEAN, retryMax : Ints, codes : SUBSET Codes, token : Tokens]
      /\ snap'.retryMax = snap.retryMax /\ snap'.codes = snap.codes
    BY <1>1 DEF CallInv, TypeOK
<1> QED BY <1>1, <1>2
    DEF Unary, Stream, CallInv, TypeOK, FreshBefore, AttemptsBounded, Sent, RepeatsExplained,
        RetriesAnswers, LateIsLast, OKIsAnswered, SuccessMeansExecuted

LEMMA NextKeepsCallInv == CallInv /\ [Next]_vars => CallInv'
<1> SUFFICES ASSUME CallInv, [Next]_vars PROVE CallInv'
    OBVIOUS
<1>1. CASE Call \/ OpenStream
    BY <1>1, BeginKeepsInv DEF Call, OpenStream
<1>2. CASE UNCHANGED vars
    BY <1>2 DEF vars, configVars, callVars, CallInv, TypeOK, FreshBefore, AttemptsBounded, Sent,
                RepeatsExplained, RetriesAnswers, LateIsLast, OKIsAnswered, SuccessMeansExecuted
<1> QED BY <1>1, <1>2, ConfigureKeepsInv, ContextKeepsInv, TimeoutKeepsInv, RetryBeginKeepsInv,
           RetryLoopKeepsInv, InvokeKeepsInv, SendKeepsInv, ServerKeepsInv, AnswerKeepsInv, StreamKeepsInv
    DEF Next

LEMMA CallInvHolds == FairSpec => []CallInv
BY CallInit, NextKeepsCallInv, PTL DEF FairSpec, Spec

(* Retry, retry.go:52-58: for every maxRetries but the largest int, success  *)
(* means that the server executed the call and answered OK.                  *)
THEOREM SuccessIsReal == FairSpec => []SuccessMeansExecuted
<1>1. CallInv => SuccessMeansExecuted
    BY DEF CallInv
<1> QED BY <1>1, CallInvHolds, PTL

(* Retry, retry.go:21-30 and 46: the server repeats a call only where the    *)
(* configuration that the call began with allows it, and no more often.      *)
THEOREM RepeatsAreAllowed == FairSpec => []RepeatsAllowed
<1>1. CallInv => RepeatsAllowed
  <2> SUFFICES ASSUME CallInv, wire.executions > 1
               PROVE  RetriesAnswers /\ wire.executions <= snap.retryMax + 1
      BY DEF RepeatsAllowed, RetriesAnswers
  <2>1. wire.executions \in Nat /\ wire.adrift \in Nat /\ wire.attempts \in Nat
        /\ snap.retryMax \in Int
    BY DEF CallInv, TypeOK, Wires, Ints
  <2> QED BY <2>1 DEF CallInv, AttemptsBounded, RepeatsExplained, Sent
<1> QED BY <1>1, CallInvHolds, PTL

(* Retry, retry.go:77-83: after the context has ended at most one attempt    *)
(* begins, unless what it fails with is to be retried.                       *)
THEOREM LateAttemptAtMostOnce == FairSpec => []OneLateAttempt
<1>1. CallInv => OneLateAttempt
    BY DEF CallInv, LateIsLast, LateErrors, OneLateAttempt
<1> QED BY <1>1, CallInvHolds, PTL

(* backoffDuration, retry.go:96-123: for every width, attempt and base, the  *)
(* wait is in the documented range wherever base x 2^attempt fits, at least  *)
(* half the largest duration where the product wraps to zero or below, and   *)
(* never negative; rand.Int64N is asked only for what it can give.  Where    *)
(* the product wraps to a positive number no lower bound is claimed.         *)
THEOREM WaitsInRange == FairSpec => []WaitInRange
<1>1. CallInv => WaitInRange
  <2> SUFFICES ASSUME CallInv, pc = "sleep" PROVE WaitInRange
      BY DEF WaitInRange
  <2>1. wire.attempts - 1 \in Nat
    BY DEF CallInv, TypeOK, Wires, AttemptsBounded
  <2> QED BY <2>1, BackoffInRange DEF WaitInRange
<1> QED BY <1>1, CallInvHolds, PTL

=============================================================================
