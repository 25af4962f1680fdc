----------------------------- MODULE RetryPolicy -----------------------------
(***************************************************************************)
(* How often a step is tried and how long executeStepWithRetry sleeps      *)
(* before it is tried again: retry/policy.go.  A policy is                 *)
(*                                                                         *)
(*   [maxAttempts, backoff, initialDelay, maxDelay, multiplier, jitter]    *)
(*                                                                         *)
(* with whole units of time for delays and whole multipliers.              *)
(***************************************************************************)
EXTENDS Integers

CONSTANTS
  NoPolicy,   \* a step without a policy of its own
  Longest     \* the largest time.Duration, 2^63 - 1 nanoseconds

Policy == [maxAttempts : Nat, backoff : {"", "none", "constant", "linear", "exponential"},
           initialDelay : Nat, maxDelay : Nat, multiplier : Nat, jitter : BOOLEAN]

DefaultMaxAttempts == 3

Or(value, unset, fallback) == IF value = unset THEN fallback ELSE value

(* Zero values are taken from the fallback; jitter is a policy's own.      *)
Merge(p, fallback) ==
  [maxAttempts  |-> Or(p.maxAttempts, 0, fallback.maxAttempts),
   backoff      |-> Or(p.backoff, "", fallback.backoff),
   initialDelay |-> Or(p.initialDelay, 0, fallback.initialDelay),
   maxDelay     |-> Or(p.maxDelay, 0, fallback.maxDelay),
   multiplier   |-> Or(p.multiplier, 0, fallback.multiplier),
   jitter       |-> p.jitter]

(* resolveRetryPolicy for a step's own policy and the engine's.            *)
Resolved(own, engines) == IF own = NoPolicy THEN engines ELSE Merge(own, engines)

MaxAttempts(p) == Or(p.maxAttempts, 0, DefaultMaxAttempts)

(* Mutant of ShouldRetry: one attempt more.                                *)
RetryOnceMore(p, attempt) == attempt <= MaxAttempts(p)

ShouldRetry(p, attempt) == attempt < MaxAttempts(p)

(* The delay before the cap, a float64, which does not overflow here.      *)
Raw(p, retry) ==
  CASE p.backoff = "constant" -> p.initialDelay
    [] p.backoff = "linear"   -> p.initialDelay * retry
    [] OTHER -> p.initialDelay * Or(p.multiplier, 0, 2) ^ (retry - 1)

(* A cap of 0 is none; a delay is never negative.                          *)
Capped(p, delay) ==
  IF p.maxDelay = 0 \/ delay \in 0 .. p.maxDelay THEN delay ELSE p.maxDelay

(* time.Duration of a float64: out of range the result is the machine's.   *)
Duration(delay) ==
  IF delay \in 0 .. Longest THEN {delay} ELSE {Longest, -Longest - 1}

(* Up to a quarter more or less; the sum wraps around.                     *)
Jittered(d) ==
  {IF d + j \in 0 .. Longest THEN d + j ELSE 0 : j \in -(d \div 4) .. d \div 4}

(* Mutants of Delay: the cap comes after the conversion; it is forgotten.  *)
DelayCappedLate(p, attempt) ==
  IF attempt <= 1 \/ p.backoff = "none" THEN {0}
  ELSE LET max == p.maxDelay
           durations == {IF max > 0 /\ d > max THEN max ELSE d :
                           d \in Duration(Raw(p, attempt - 1))}
       IN IF p.jitter THEN UNION {IF d > 0 THEN Jittered(d) ELSE {d} : d \in durations}
          ELSE durations

DelayUncapped(p, attempt) ==
  IF attempt <= 1 \/ p.backoff = "none" THEN {0}
  ELSE LET durations == Duration(Raw(p, attempt - 1))
       IN IF p.jitter THEN UNION {IF d > 0 THEN Jittered(d) ELSE {d} : d \in durations}
          ELSE durations

(* Policy.Delay: the delays there may be before an attempt.                *)
Delay(p, attempt) ==
  IF attempt <= 1 \/ p.backoff = "none" THEN {0}
  ELSE LET durations == Duration(Capped(p, Raw(p, attempt - 1)))
       IN IF p.jitter THEN UNION {IF d > 0 THEN Jittered(d) ELSE {d} : d \in durations}
          ELSE durations

(* What is slept: a delay that is not positive is none.                    *)
Sleeps(p, attempt) == {IF d > 0 THEN d ELSE 0 : d \in Delay(p, attempt)}
=============================================================================
