------------------------------ MODULE Throttle ------------------------------
(***************************************************************************)
(* The token buckets before authentication and before mutations            *)
(* (security.py: RateLimit; api.py: authenticate).  The code counts in     *)
(* floating point; here one token is worth Price units and a step of time  *)
(* earns Rate of them, so that everything is exact.  The bucket is brought *)
(* up to date only when somebody asks.                                     *)
(***************************************************************************)
EXTENDS Naturals

CONSTANTS
  PerMinute,        \* authentication_per_minute, mutations_per_minute
  MinuteSeconds,    \* 60
  MaxBurst,         \* 10
  StepsPerSecond,   \* how finely the clock is read
  MaxEarned         \* bound: what a window, and what time between two requests, may earn

ASSUME ThrottleAssumption ==
  /\ {PerMinute, MinuteSeconds, MaxBurst, StepsPerSecond} \subseteq Nat \ {0}
  /\ MaxEarned \in Nat

VARIABLES
  tokens,    \* _tokens
  accrued,   \* what has been earned since _last
  earned,    \* history: since a window was opened, what was earned in it
  spent,     \* history: and what the requests admitted in it have cost
  refused,   \* history: the last to ask was refused
  pause      \* history: what is still to be earned until that Retry-After is over

throttleVars == <<tokens, accrued, earned, spent, refused, pause>>

Rate == PerMinute
Price == MinuteSeconds * StepsPerSecond
Capacity == (IF PerMinute < MaxBurst THEN PerMinute ELSE MaxBurst) * Price

Least(a, b) == IF a < b THEN a ELSE b

ThrottleInit ==
  /\ tokens = Capacity /\ accrued = 0
  /\ earned = 0 /\ spent = 0
  /\ refused = FALSE /\ pause = 0

ThrottleTick ==
  /\ earned + Rate <= MaxEarned /\ accrued + Rate <= MaxEarned
  /\ accrued' = accrued + Rate
  /\ earned' = earned + Rate
  /\ pause' = IF pause > Rate THEN pause - Rate ELSE 0
  /\ UNCHANGED <<tokens, spent, refused>>

\* Fault: time fills the bucket without limit.
FilledFault == tokens + accrued
Filled == Least(Capacity, tokens + accrued)

Admit ==
  /\ Filled >= Price
  /\ tokens' = Filled - Price
  /\ accrued' = 0
  /\ spent' = spent + Price
  /\ refused' = FALSE /\ pause' = 0
  /\ UNCHANGED earned

\* retry_after, in seconds.
RetryAfter(t) ==
  LET second == Rate * StepsPerSecond IN (Price - t + second - 1) \div second

Refuse ==
  /\ Filled < Price
  /\ tokens' = Filled
  /\ accrued' = 0
  /\ refused' = TRUE
  /\ pause' = RetryAfter(Filled) * Rate * StepsPerSecond
  /\ UNCHANGED <<earned, spent>>

\* A window may be opened at any time.
OpenWindow ==
  /\ earned' = 0 /\ spent' = 0
  /\ UNCHANGED <<tokens, accrued, refused, pause>>

ThrottleNext == ThrottleTick \/ Admit \/ Refuse \/ OpenWindow

ThrottleSpec == ThrottleInit /\ [][ThrottleNext]_throttleVars

(***************************************************************************)
(* Properties                                                              *)
(***************************************************************************)
\* Every variable keeps its type.
ThrottleTypeOK ==
  /\ tokens \in 0..Capacity
  /\ accrued \in Nat /\ earned \in Nat /\ spent \in Nat
  /\ refused \in BOOLEAN /\ pause \in Nat

\* In no stretch of time, wherever it begins, more is admitted than one burst and what the
\* stretch earns: idle time is not saved up beyond the capacity.
WindowBound == spent <= Capacity + earned

\* Who is refused and comes back after Retry-After, before anybody else, is admitted.
RetryHonest == refused /\ pause = 0 => Filled >= Price
=============================================================================
