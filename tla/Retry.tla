-------------------------------- MODULE Retry --------------------------------
(***************************************************************************)
(* The delays of pkg/retry (linear.go, exponential.go, strategy.go): what   *)
(* Strategy.Delay(attempt) may return, as a set, since jitter is random.    *)
(* A time.Duration is a signed integer of Width bits.                       *)
(***************************************************************************)
EXTENDS Integers

CONSTANTS
  Width,      \* bits of a time.Duration: 64 in Go
  BaseDelay,  \* config.baseDelay
  MaxDelay    \* config.maxDelay

Half == 2 ^ (Width - 1)
Durations == -Half .. Half - 1

ASSUME RetryAssumption ==
  /\ Width \in Nat \ {0}
  /\ BaseDelay \in Durations
  /\ MaxDelay \in Durations

\* Signed multiplication wraps around.
Wrap(n) == ((n + Half) % (2 * Half)) - Half

capDelay(d) == IF d > MaxDelay THEN MaxDelay ELSE d

applyJitter(d) == IF d <= 0 THEN {0} ELSE 0 .. d

Linear(attempt) == capDelay(Wrap(BaseDelay * (attempt + 1)))

\* Mutant: the product is formed in a time.Duration.
ExponentialInt(attempt) == capDelay(Wrap(BaseDelay * 2 ^ attempt))

\* In floating point the product does not wrap around.
Exponential(attempt) ==
  IF BaseDelay <= 0 THEN 0
  ELSE IF BaseDelay * 2 ^ attempt < MaxDelay THEN BaseDelay * 2 ^ attempt
  ELSE MaxDelay

Delay(strategy, jitter, attempt) ==
  LET d == IF strategy = "linear" THEN Linear(attempt) ELSE Exponential(attempt)
  IN  IF jitter THEN applyJitter(d) ELSE {d}
==============================================================================
