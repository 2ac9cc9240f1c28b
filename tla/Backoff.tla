------------------------------ MODULE Backoff ------------------------------
(***************************************************************************)
(* internal/client/interceptor/retry.go, backoffDuration: exponential      *)
(* growth with jitter in Go's two's complement integers.  int and          *)
(* time.Duration have the same width, 64 bits in the code, Width here; the *)
(* constant maxBackoffShift is two less than the width.                    *)
(***************************************************************************)
EXTENDS Integers

CONSTANT Width  \* bits of an int and of a time.Duration

ASSUME WidthNat == Width \in Nat /\ Width > 2

MaxInt == 2^(Width - 1) - 1
MinInt == -(2^(Width - 1))
Ints   == MinInt..MaxInt

(* The value that integer arithmetic leaves in a register. *)
Wrap(x) == ((x - MinInt) % 2^Width) + MinInt

maxBackoffShift == Width - 2

Shift(attempt) == IF attempt > maxBackoffShift THEN maxBackoffShift ELSE attempt

(* Seeded fault: the product is used without a look at its sign. *)
ExpBackoffUnchecked(attempt, base) == Wrap(base * Wrap(2^Shift(attempt)))

ExpBackoff(attempt, base) ==
    LET product == Wrap(base * Wrap(2^Shift(attempt)))
    IN  IF product <= 0 THEN MaxInt ELSE product

(* The durations that backoffDuration may return, one per value of          *)
(* rand.Int64N; none where rand.Int64N would panic.                         *)
BackoffDurations(attempt, base) ==
    LET exp  == ExpBackoff(attempt, base)
        half == exp \div 2
    IN  IF base <= 0 THEN {0}
        ELSE IF half <= 0 THEN {exp}
        ELSE { half + jitter : jitter \in 0..(half - 1) }

=============================================================================
