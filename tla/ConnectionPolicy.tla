--------------------------- MODULE ConnectionPolicy ---------------------------
(***************************************************************************)
(* The two policies a caller consults around connection attempts:          *)
(* WsCircuitBreaker, asked before an attempt and told its result, and      *)
(* ExponentialBackoffReconnect, asked for the delay before the next one.   *)
(*                                                                         *)
(* Several attempts may be under way, so that results reach the breaker    *)
(* after its state has changed.  until is kept as the time left before it, *)
(* durations are whole units and the factor is a fraction.                 *)
(***************************************************************************)
EXTENDS Integers

CONSTANTS
    Attempts,          \* attempts that may be under way at once
    FailureThreshold, SuccessThreshold, CoolDown,   \* arguments of WsCircuitBreaker::new
    MaxU32,            \* u32::MAX, at which the counters saturate
    Durations,         \* values considered for base and max
    Factors            \* factors considered: <<numerator, denominator>>, not finite if the latter is 0

ASSUME PolicyAssumption ==
    /\ FailureThreshold \in 0 .. MaxU32 /\ SuccessThreshold \in 0 .. MaxU32
    /\ CoolDown \in Nat /\ MaxU32 \in Nat \ {0}
    /\ Durations \subseteq Nat /\ Factors \subseteq Nat \X Nat

VARIABLES
    state, until,              \* CircuitState; until is 0 unless "Open"
    failures, successes,
    inflight,                  \* attempts that were let through and have no result yet
    streak,                    \* history: failures since the last success or change of state
    wins,                      \* history: successes since the last change of state
    sinceTrip,                 \* history: time since the circuit opened, up to CoolDown
    base, max, factor, current,
    lastDelay                  \* history: the last delay since a reset, {} or {d}

breakerVars == <<state, until, failures, successes, inflight, streak, wins, sinceTrip>>
backoffVars == <<base, max, factor, current, lastDelay>>
vars == <<breakerVars, backoffVars>>

-----------------------------------------------------------------------------
(* ExponentialBackoffReconnect *)

(* A factor that is not finite or not above 1 becomes 1.5. *)
EffectiveFactor(f) == IF f[2] > 0 /\ f[1] > f[2] THEN f ELSE <<3, 2>>

(* The product, rounded to the nearest unit *)
Scaled(d) == (2 * d * factor[1] + factor[2]) \div (2 * factor[2])

GrownUncapped == Scaled(current)

Grown == IF Scaled(current) =< max THEN Scaled(current) ELSE max

BackoffInit ==
    /\ base \in Durations /\ max \in Durations
    /\ \E f \in Factors : factor = EffectiveFactor(f)
    /\ current = base /\ lastDelay = {}

NextDelay ==
    /\ lastDelay' = {current}
    /\ current' = Grown
    /\ UNCHANGED <<breakerVars, base, max, factor>>

ResetDelay ==
    /\ current' = base /\ lastDelay' = {}
    /\ UNCHANGED <<breakerVars, base, max, factor>>

-----------------------------------------------------------------------------
(* WsCircuitBreaker *)

AtLeastOne(n) == IF n = 0 THEN 1 ELSE n

BreakerInit ==
    /\ state = "Closed" /\ until = 0
    /\ failures = 0 /\ successes = 0
    /\ inflight = {} /\ streak = 0 /\ wins = 0 /\ sinceTrip = 0

(* saturating_add(1) *)
Bump(n) == IF n < MaxU32 THEN n + 1 ELSE n

Enter(s, left) == state' = s /\ until' = left /\ failures' = 0 /\ successes' = 0

OpenCircuit == Enter("Open", CoolDown)

CanProceedEarly == IF state = "Open" THEN Enter("HalfOpen", 0)
                   ELSE UNCHANGED <<state, until, failures, successes>>

CanProceedStaysOpen ==
    /\ state = "Open" => until = 0
    /\ UNCHANGED <<state, until, failures, successes>>

(* can_proceed, when it answers true; otherwise it changes nothing *)
CanProceed ==
    IF state = "Open"
    THEN until = 0 /\ Enter("HalfOpen", 0)
    ELSE UNCHANGED <<state, until, failures, successes>>

RecordSuccessKeepsFailures ==
    IF state = "HalfOpen" /\ Bump(successes) >= AtLeastOne(SuccessThreshold)
    THEN Enter("Closed", 0)
    ELSE /\ successes' = IF state = "HalfOpen" THEN Bump(successes) ELSE successes
         /\ UNCHANGED <<state, until, failures>>

RecordSuccess ==
    IF state = "HalfOpen" /\ Bump(successes) >= AtLeastOne(SuccessThreshold)
    THEN Enter("Closed", 0)
    ELSE /\ successes' = IF state = "HalfOpen" THEN Bump(successes) ELSE successes
         /\ failures' = IF state = "Closed" THEN 0 ELSE failures
         /\ UNCHANGED <<state, until>>

(* A failure reported to an open circuit is counted and does not extend it. *)
RecordFailure ==
    IF \/ state = "Closed" /\ Bump(failures) >= AtLeastOne(FailureThreshold)
       \/ state = "HalfOpen"
    THEN OpenCircuit
    ELSE failures' = Bump(failures) /\ UNCHANGED <<state, until, successes>>

-----------------------------------------------------------------------------
(* The caller of the breaker *)

Attempt(a) ==
    /\ a \notin inflight
    /\ CanProceed
    /\ inflight' = inflight \cup {a}
    /\ streak' = IF state' = state THEN streak ELSE 0
    /\ wins' = IF state' = state THEN wins ELSE 0
    /\ UNCHANGED <<sinceTrip, backoffVars>>

AttemptSucceeds(a) ==
    /\ a \in inflight
    /\ RecordSuccess
    /\ inflight' = inflight \ {a}
    /\ streak' = 0
    /\ wins' = IF state' = state /\ state = "HalfOpen" THEN wins + 1 ELSE 0
    /\ UNCHANGED <<sinceTrip, backoffVars>>

AttemptFails(a) ==
    /\ a \in inflight
    /\ RecordFailure
    /\ inflight' = inflight \ {a}
    /\ streak' = IF state' = state /\ state = "Closed" THEN streak + 1 ELSE 0
    /\ wins' = IF state' = state THEN wins ELSE 0
    /\ sinceTrip' = IF state' = state THEN sinceTrip ELSE 0
    /\ UNCHANGED backoffVars

TimePasses ==
    /\ state = "Open" /\ until > 0
    /\ until' = until - 1
    /\ sinceTrip' = IF sinceTrip < CoolDown THEN sinceTrip + 1 ELSE sinceTrip
    /\ UNCHANGED <<state, failures, successes, inflight, streak, wins, backoffVars>>

Init == BreakerInit /\ BackoffInit

Next ==
    \/ \E a \in Attempts : Attempt(a) \/ AttemptSucceeds(a) \/ AttemptFails(a)
    \/ NextDelay \/ ResetDelay \/ TimePasses

Spec == Init /\ [][Next]_vars

(* Time goes on, attempts come to an end, and the caller keeps asking. *)
Fairness ==
    /\ WF_vars(TimePasses)
    /\ \A a \in Attempts : WF_vars(Attempt(a)) /\ WF_vars(AttemptFails(a) \/ AttemptSucceeds(a))

FairSpec == Spec /\ Fairness

-----------------------------------------------------------------------------
BreakerTypeOK ==
    /\ state \in {"Closed", "Open", "HalfOpen"}
    /\ until \in 0 .. CoolDown /\ sinceTrip \in 0 .. CoolDown
    /\ failures \in 0 .. MaxU32 /\ successes \in 0 .. MaxU32
    /\ streak \in Nat /\ wins \in Nat
    /\ inflight \subseteq Attempts

BackoffTypeOK ==
    /\ base \in Durations /\ max \in Durations /\ current \in Nat
    /\ factor \in Nat \X (Nat \ {0}) /\ factor[1] > factor[2]
    /\ lastDelay \subseteq Nat

(* Every variable has its type, and the factor in use is above 1 whatever  *)
(* factor new was given.                                                   *)
PolicyTypeOK == BreakerTypeOK /\ BackoffTypeOK

(* The counters mean what their thresholds are compared with, also when    *)
(* they saturate and when results arrive late: a closed circuit has seen   *)
(* exactly failures failures in a row, fewer than the threshold; a half-   *)
(* open one exactly successes successes and no failure; an open one ends   *)
(* its cool-down CoolDown after it opened, whatever is reported meanwhile. *)
BreakerCounts ==
    /\ state = "Closed" => failures = streak /\ streak < AtLeastOne(FailureThreshold)
    /\ state = "HalfOpen" =>
          successes = wins /\ wins < AtLeastOne(SuccessThreshold) /\ streak = 0
    /\ state = "Open" => until + sinceTrip = CoolDown

(* The circuit changes state for a cause and along no other edge: it opens *)
(* on the threshold's failure in a row or on a failure while half open,    *)
(* half opens after the cool-down, and closes on the threshold's success.  *)
ChangesForCause ==
    [][\/ state' = state
       \/ /\ state = "Closed" /\ state' = "Open"
          /\ streak + 1 = AtLeastOne(FailureThreshold)
       \/ state = "HalfOpen" /\ state' = "Open" /\ sinceTrip' = 0
       \/ state = "Open" /\ state' = "HalfOpen" /\ sinceTrip = CoolDown
       \/ /\ state = "HalfOpen" /\ state' = "Closed"
          /\ wins + 1 = AtLeastOne(SuccessThreshold)]_vars

(* The circuit does not stay open for a caller that keeps asking. *)
OpenEnds == state = "Open" ~> state # "Open"

(* What OpenEnds rests on: nothing that is asked or reported meanwhile     *)
(* makes the rest of a cool-down longer.  An open circuit lets no attempt  *)
(* through; it half opens, with fresh counters, for the first question     *)
(* after the cool-down, however many late failures were counted.           *)
CoolDownOnlyRuns ==
    [][state = "Open" =>
         IF state' = "Open"
         THEN until' =< until /\ sinceTrip =< sinceTrip' /\ inflight' \subseteq inflight
         ELSE until = 0 /\ state' = "HalfOpen" /\ failures' = 0 /\ successes' = 0]_vars

(* Between two resets the delays start at base, never shrink and stop at   *)
(* max; a base above max is returned once and then replaced by max.        *)
DelaysGrow ==
    /\ lastDelay = {} => current = base
    /\ \A d \in lastDelay :
          IF d =< max THEN d =< current /\ current =< max ELSE d = base /\ current = max
=============================================================================
