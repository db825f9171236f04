------------------------------ MODULE Polling ------------------------------
(***************************************************************************)
(* The timing of supervision for one device with automatic reconnection:   *)
(* the polling loop with its ages and counts (service.py: _poll), the      *)
(* recovery loop (_recover), and the delays between attempts               *)
(* (connection.py: BackoffPolicy).  Who runs beside whom is in             *)
(* Administration; here one task follows the other and time passes in      *)
(* steps.  A reading waits for the adapter lock and for the radio.         *)
(***************************************************************************)
EXTENDS Naturals, Sequences

CONSTANTS
  PollInterval, DegradedAfter, ReconnectAfter, StableAfter,   \* polling.*
  Delays,      \* BackoffPolicy.delays
  Jitter,      \* how far a delay may be off, in steps
  MaxSlow      \* bound: the steps a reading may take

ASSUME PollingAssumption ==
  /\ {PollInterval, DegradedAfter, ReconnectAfter, StableAfter} \subseteq Nat \ {0}
  /\ Delays \in Seq(Nat \ {0}) /\ Delays # <<>>
  /\ Jitter \in Nat /\ MaxSlow \in Nat

VARIABLES
  phase,     \* what the device's task does
  left,      \* steps until a sleep ends; or those a reading may still take
  failures,  \* readings in a row that were not valid
  age,       \* time since last_valid
  calm,      \* time since stable_since
  observed,  \* observed_state
  attempt,   \* BackoffPolicy._attempt, as far as it selects a delay
  linked,    \* adapter.is_connected
  quiet,     \* history: time since this link came up or a reading of it was not valid
  silent     \* history: time since this link came up or a reading of it was valid

pollingVars == <<phase, left, failures, age, calm, observed, attempt, linked, quiet, silent>>

PollingInit ==
  /\ phase = "down" /\ left = 0
  /\ failures = 0 /\ age = 0 /\ calm = 0
  /\ quiet = 0 /\ silent = 0
  /\ observed = "disconnected"
  /\ attempt = 0
  /\ linked = FALSE

Polled == phase \in {"sleeping", "reading"}

\* Longer ages than these make no difference.
Horizon == ReconnectAfter + StableAfter + PollInterval + MaxSlow
Older(a) == IF Polled /\ a < Horizon THEN a + 1 ELSE a

TimePasses ==
  /\ phase \in {"sleeping", "reading", "waiting"}
  /\ left > 0
  /\ left' = left - 1
  /\ age' = Older(age) /\ calm' = Older(calm)
  /\ quiet' = Older(quiet) /\ silent' = Older(silent)
  /\ UNCHANGED <<phase, failures, observed, attempt, linked>>

Ages(f, a, c) == failures' = f /\ age' = a /\ calm' = c
Anew == Ages(0, 0, 0) /\ quiet' = 0 /\ silent' = 0

(***************************************************************************)
(* BackoffPolicy                                                           *)
(***************************************************************************)
Delay(a) == Delays[IF a < Len(Delays) THEN a + 1 ELSE Len(Delays)]
NextDelays(a) == {d \in 1..(Delay(a) + Jitter) : d + Jitter >= Delay(a)}
Attempted(a) == IF a < Len(Delays) THEN a + 1 ELSE a

\* _recover sleeps before its next attempt; what _poll has counted is gone.
Recovers(a) ==
  /\ phase' = "waiting"
  /\ left' \in NextDelays(a)
  /\ attempt' = Attempted(a)
  /\ observed' = "backoff"
  /\ Anew

(***************************************************************************)
(* Connections                                                             *)
(***************************************************************************)
\* A user's connect or reconnect, or start; the delay is bypassed.
Forced ==
  /\ phase \in {"down", "sleeping", "reading", "waiting"}
  /\ phase' = "connecting" /\ left' = 0
  /\ linked' = FALSE
  /\ Anew
  /\ UNCHANGED <<observed, attempt>>

DelayOver ==
  /\ phase = "waiting" /\ left = 0
  /\ phase' = "connecting"
  /\ UNCHANGED <<left, failures, age, calm, observed, attempt, linked, quiet, silent>>

\* _start_polling
Succeeds ==
  /\ phase = "connecting"
  /\ phase' = "sleeping" /\ left' = PollInterval
  /\ linked' = TRUE
  /\ observed' = "polling"
  /\ Anew
  /\ UNCHANGED attempt

Fails ==
  /\ phase = "connecting"
  /\ Recovers(attempt)
  /\ UNCHANGED linked

Disconnects ==
  /\ phase # "down"
  /\ phase' = "down" /\ left' = 0
  /\ linked' = FALSE
  /\ observed' = "disconnected"
  /\ Anew
  /\ UNCHANGED attempt

LinkDrops ==
  /\ Polled /\ linked
  /\ linked' = FALSE
  /\ UNCHANGED <<phase, left, failures, age, calm, observed, attempt, quiet, silent>>

(***************************************************************************)
(* _poll                                                                   *)
(***************************************************************************)
Wakes ==
  /\ phase = "sleeping" /\ left = 0
  /\ phase' = "reading" /\ left' = MaxSlow
  /\ UNCHANGED <<failures, age, calm, observed, attempt, linked, quiet, silent>>

\* Fault: every snapshot counts, old or without probes.
RenewedFault(valid) == 0
Renewed(valid) == IF valid THEN 0 ELSE age

\* Fault: a failed reading does not start the stable time anew.
SteadyFault(valid) == calm
Steady(valid) == IF valid THEN calm ELSE 0

\* A stable time that was long enough is rewarded when a valid reading ends it.
Rewarded(valid) == IF valid /\ Steady(valid) >= StableAfter THEN 0 ELSE attempt

Stays(valid) == linked /\ Renewed(valid) < ReconnectAfter

\* A snapshot is valid that is fresh, newer than the last, and has an available probe.
\* All that follows the reading happens before the loop sleeps again.
ReadStays(valid) ==
  /\ phase = "reading"
  /\ Stays(valid)
  /\ phase' = "sleeping" /\ left' = PollInterval
  /\ Ages(IF valid THEN 0 ELSE IF failures < DegradedAfter THEN failures + 1 ELSE failures,
          Renewed(valid), Steady(valid))
  /\ quiet' = IF valid THEN quiet ELSE 0
  /\ silent' = IF valid THEN 0 ELSE silent
  /\ observed' = IF valid THEN "polling" ELSE IF failures' >= DegradedAfter THEN "degraded" ELSE observed
  /\ attempt' = Rewarded(valid)
  /\ UNCHANGED linked

ReadGivesUp(valid) ==
  /\ phase = "reading"
  /\ ~Stays(valid)
  /\ Recovers(Rewarded(valid))
  /\ UNCHANGED linked

PollingNext ==
  \/ TimePasses
  \/ Forced \/ DelayOver \/ Succeeds \/ Fails \/ Disconnects \/ LinkDrops
  \/ Wakes
  \/ \E valid \in BOOLEAN : ReadStays(valid) \/ ReadGivesUp(valid)

PollingSpec == PollingInit /\ [][PollingNext]_pollingVars
(***************************************************************************)
(* Properties                                                              *)
(***************************************************************************)
\* Every variable keeps its type.
PollingTypeOK ==
  /\ phase \in {"down", "connecting", "sleeping", "reading", "waiting"}
  /\ left \in Nat
  /\ failures \in 0..DegradedAfter
  /\ age \in 0..Horizon /\ calm \in 0..Horizon
  /\ quiet \in 0..Horizon /\ silent \in 0..Horizon
  /\ observed \in {"disconnected", "polling", "degraded", "backoff"}
  /\ attempt \in 0..Len(Delays)
  /\ linked \in BOOLEAN

\* A link that yields no valid reading is given up in time, also when readings are slow and
\* when snapshots arrive that are old or without probes: never is a device polled whose last
\* valid reading is older than reconnect_after, one interval and one reading.
GivesUp ==
  Polled => silent < ReconnectAfter + PollInterval + MaxSlow

\* A flapping link backs off: the delays become shorter only after a link without a single
\* failed reading for stable_after, however many connections succeeded in between.
FlapsBackOff ==
  [][attempt' < attempt => quiet >= StableAfter]_pollingVars
=============================================================================
