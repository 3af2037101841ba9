------------------------- MODULE ConnectionPolicyProofs -------------------------
(***************************************************************************)
(* The circuit breaker's counters and transitions and the growth of the    *)
(* backoff, for every threshold, cool-down, base, max and factor.          *)
(***************************************************************************)
EXTENDS ConnectionPolicy, TLAPS

(* A factor above 1 makes no delay shorter, rounding included. *)
LEMMA ScaledGrows ==
    ASSUME NEW d \in Nat, BackoffTypeOK
    PROVE  Scaled(d) \in Nat /\ d =< Scaled(d)
<1> DEFINE n == factor[1]
           m == factor[2]
           p == 2 * d * n + m
           q == 2 * m
<1>1. n \in Nat /\ m \in Nat \ {0} /\ n > m
  BY DEF BackoffTypeOK
<1> HIDE DEF n, m
<1>2. d * m =< d * n /\ d * m \in Nat /\ d * n \in Nat
  BY <1>1
<1>3. p \in Nat /\ q \in Nat \ {0}
  BY <1>1, <1>2
<1>4. 2 * (d * m) + m =< p
  BY <1>1, <1>2
<1>5. d * q =< p
  <2>1. d * q = 2 * (d * m)
    BY <1>1
  <2>2. QED
    BY <2>1, <1>1, <1>2, <1>4
<1> HIDE DEF p, q
<1>6. p \div q \in Int /\ d =< p \div q
  BY <1>3, <1>5
<1>7. QED
  BY <1>6 DEF Scaled, p, q, n, m

-----------------------------------------------------------------------------
LEMMA InitInv == Init => BreakerTypeOK /\ BackoffTypeOK /\ BreakerCounts /\ DelaysGrow
<1> SUFFICES ASSUME Init PROVE BreakerTypeOK /\ BackoffTypeOK /\ BreakerCounts /\ DelaysGrow
  OBVIOUS
<1>1. BreakerTypeOK /\ BreakerCounts
  BY PolicyAssumption DEF Init, BreakerInit, BreakerTypeOK, BreakerCounts, AtLeastOne
<1>2. factor \in Nat \X (Nat \ {0}) /\ factor[1] > factor[2]
  BY PolicyAssumption DEF Init, BackoffInit, EffectiveFactor
<1>3. BackoffTypeOK /\ DelaysGrow
  BY <1>2, PolicyAssumption DEF Init, BackoffInit, BackoffTypeOK, DelaysGrow
<1>4. QED
  BY <1>1, <1>3

(* The backoff under a step of its own or of the breaker *)
LEMMA BackoffStep ==
    ASSUME BackoffTypeOK, DelaysGrow, [Next]_vars
    PROVE  BackoffTypeOK' /\ DelaysGrow'
<1> USE PolicyAssumption
<1>1. CASE NextDelay
  <2>1. Scaled(current) \in Nat /\ current =< Scaled(current)
    BY ScaledGrows DEF BackoffTypeOK
  <2>2. BackoffTypeOK'
    BY <1>1, <2>1 DEF NextDelay, Grown, BackoffTypeOK
  <2>3. current =< max => current =< current' /\ current' =< max
    BY <1>1, <2>1 DEF NextDelay, Grown, BackoffTypeOK
  <2>4. current > max => current = base /\ current' = max
    BY <1>1, <2>1 DEF NextDelay, Grown, BackoffTypeOK, DelaysGrow
  <2>5. QED
    BY <1>1, <2>2, <2>3, <2>4 DEF NextDelay, BackoffTypeOK, DelaysGrow
<1>2. CASE ResetDelay
  BY <1>2 DEF ResetDelay, BackoffTypeOK, DelaysGrow
<1>3. CASE UNCHANGED backoffVars
  BY <1>3 DEF backoffVars, BackoffTypeOK, DelaysGrow
<1>4. QED
  BY <1>1, <1>2, <1>3 DEF Next, vars, Attempt, AttemptSucceeds, AttemptFails, TimePasses

(* The breaker under a result, a question, the clock or a step of the backoff *)
LEMMA BreakerStep ==
    ASSUME BreakerTypeOK, BreakerCounts, [Next]_vars
    PROVE  BreakerTypeOK' /\ BreakerCounts'
<1> USE PolicyAssumption
<1>1. ASSUME NEW a \in Attempts, Attempt(a) PROVE BreakerTypeOK' /\ BreakerCounts'
  <2>1. CASE state = "Open"
    BY <1>1, <2>1 DEF Attempt, CanProceed, Enter, BreakerTypeOK, BreakerCounts, AtLeastOne
  <2>2. CASE state # "Open"
    BY <1>1, <2>2 DEF Attempt, CanProceed, BreakerTypeOK, BreakerCounts
  <2>3. QED BY <2>1, <2>2
<1>2. ASSUME NEW a \in Attempts, AttemptSucceeds(a) PROVE BreakerTypeOK' /\ BreakerCounts'
  <2>1. CASE state = "HalfOpen" /\ Bump(successes) >= AtLeastOne(SuccessThreshold)
    BY <1>2, <2>1 DEF AttemptSucceeds, RecordSuccess, Enter, BreakerTypeOK, BreakerCounts, AtLeastOne
  <2>2. CASE state = "HalfOpen" /\ Bump(successes) < AtLeastOne(SuccessThreshold)
    BY <1>2, <2>2 DEF AttemptSucceeds, RecordSuccess, Bump, BreakerTypeOK, BreakerCounts, AtLeastOne
  <2>3. CASE state = "Closed"
    BY <1>2, <2>3 DEF AttemptSucceeds, RecordSuccess, BreakerTypeOK, BreakerCounts, AtLeastOne
  <2>4. CASE state = "Open"
    BY <1>2, <2>4 DEF AttemptSucceeds, RecordSuccess, BreakerTypeOK, BreakerCounts
  <2>5. Bump(successes) \in Int /\ AtLeastOne(SuccessThreshold) \in Int
    BY DEF Bump, AtLeastOne, BreakerTypeOK
  <2>6. QED BY <2>1, <2>2, <2>3, <2>4, <2>5 DEF BreakerTypeOK
<1>3. ASSUME NEW a \in Attempts, AttemptFails(a) PROVE BreakerTypeOK' /\ BreakerCounts'
  <2>1. CASE \/ state = "Closed" /\ Bump(failures) >= AtLeastOne(FailureThreshold)
             \/ state = "HalfOpen"
    BY <1>3, <2>1 DEF AttemptFails, RecordFailure, OpenCircuit, Enter, BreakerTypeOK, BreakerCounts
  <2>2. CASE state = "Closed" /\ Bump(failures) < AtLeastOne(FailureThreshold)
    BY <1>3, <2>2 DEF AttemptFails, RecordFailure, Bump, BreakerTypeOK, BreakerCounts, AtLeastOne
  <2>3. CASE state = "Open"
    BY <1>3, <2>3 DEF AttemptFails, RecordFailure, Bump, BreakerTypeOK, BreakerCounts
  <2>4. Bump(failures) \in Int /\ AtLeastOne(FailureThreshold) \in Int
    BY DEF Bump, AtLeastOne, BreakerTypeOK
  <2>5. QED BY <2>1, <2>2, <2>3, <2>4 DEF BreakerTypeOK
<1>4. CASE TimePasses
  BY <1>4 DEF TimePasses, BreakerTypeOK, BreakerCounts
<1>5. CASE UNCHANGED breakerVars
  BY <1>5 DEF breakerVars, BreakerTypeOK, BreakerCounts
<1>6. QED
  BY <1>1, <1>2, <1>3, <1>4, <1>5 DEF Next, vars, NextDelay, ResetDelay

-----------------------------------------------------------------------------
(* The values a policy can take: its counters and delays stay in range, and *)
(* the factor in use is above 1 whatever factor was given.                  *)
THEOREM TypeCorrect == Spec => []PolicyTypeOK
<1>1. BreakerTypeOK /\ BackoffTypeOK /\ BreakerCounts /\ DelaysGrow /\ [Next]_vars
      => (BreakerTypeOK /\ BackoffTypeOK /\ BreakerCounts /\ DelaysGrow)'
  BY BreakerStep, BackoffStep
<1>2. QED
  BY <1>1, InitInv, PTL DEF Spec, PolicyTypeOK

(* The counters of WsCircuitBreaker agree with the results it was told, and *)
(* an open circuit ends its cool-down on time.                              *)
THEOREM CountsCorrect == Spec => []BreakerCounts
<1>1. BreakerTypeOK /\ BreakerCounts /\ [Next]_vars => (BreakerTypeOK /\ BreakerCounts)'
  BY BreakerStep
<1>2. QED
  BY <1>1, InitInv, PTL DEF Spec

(* ExponentialBackoffReconnect's delays start at base, never shrink and     *)
(* stop at max.                                                             *)
THEOREM BackoffCorrect == Spec => []DelaysGrow
<1>1. BackoffTypeOK /\ DelaysGrow /\ [Next]_vars => (BackoffTypeOK /\ DelaysGrow)'
  BY BackoffStep
<1>2. QED
  BY <1>1, InitInv, PTL DEF Spec

(* The breaker changes state only along its four edges, each for its cause. *)
THEOREM TransitionsCorrect == Spec => ChangesForCause
<1> DEFINE Cause ==
       \/ state' = state
       \/ /\ state = "Closed" /\ state' = "Open"
          /\ streak + 1 = AtLeastOne(FailureThreshold)
       \/ state = "HalfOpen" /\ state' = "Open" /\ sinceTrip' = 0
       \/ state = "Open" /\ state' = "HalfOpen" /\ sinceTrip = CoolDown
       \/ /\ state = "HalfOpen" /\ state' = "Closed"
          /\ wins + 1 = AtLeastOne(SuccessThreshold)
<1>1. BreakerTypeOK /\ BreakerCounts /\ [Next]_vars => [Cause]_vars
  <2> SUFFICES ASSUME BreakerTypeOK, BreakerCounts, Next, state' # state PROVE Cause
    OBVIOUS
  <2> USE PolicyAssumption
  <2>1. ASSUME NEW a \in Attempts, Attempt(a) PROVE Cause
    BY <2>1 DEF Attempt, CanProceed, Enter, BreakerTypeOK, BreakerCounts
  <2>2. ASSUME NEW a \in Attempts, AttemptSucceeds(a) PROVE Cause
    BY <2>2 DEF AttemptSucceeds, RecordSuccess, Enter, Bump, AtLeastOne, BreakerTypeOK, BreakerCounts
  <2>3. ASSUME NEW a \in Attempts, AttemptFails(a) PROVE Cause
    BY <2>3 DEF AttemptFails, RecordFailure, OpenCircuit, Enter, Bump, AtLeastOne,
                BreakerTypeOK, BreakerCounts
  <2>4. QED
    BY <2>1, <2>2, <2>3 DEF Next, NextDelay, ResetDelay, TimePasses, breakerVars
<1>2. BreakerTypeOK /\ BreakerCounts /\ [Next]_vars => (BreakerTypeOK /\ BreakerCounts)'
  BY BreakerStep
<1>3. QED
  BY <1>1, <1>2, InitInv, PTL DEF Spec, ChangesForCause

(* An open circuit only waits: its cool-down runs out whatever is reported, *)
(* and the first question after it makes a trial.                           *)
THEOREM CoolDownRunsOut == Spec => CoolDownOnlyRuns
<1> DEFINE Runs ==
       state = "Open" =>
         IF state' = "Open"
         THEN until' =< until /\ sinceTrip =< sinceTrip' /\ inflight' \subseteq inflight
         ELSE until = 0 /\ state' = "HalfOpen" /\ failures' = 0 /\ successes' = 0
<1>1. ASSUME BreakerTypeOK, [Next]_vars PROVE Runs
  <2> USE <1>1, PolicyAssumption DEF BreakerTypeOK
  <2>1. ASSUME NEW a \in Attempts, Attempt(a) PROVE Runs
    BY <2>1 DEF Attempt, CanProceed, Enter
  <2>2. ASSUME NEW a \in Attempts, AttemptSucceeds(a) PROVE Runs
    BY <2>2 DEF AttemptSucceeds, RecordSuccess
  <2>3. ASSUME NEW a \in Attempts, AttemptFails(a) PROVE Runs
    BY <2>3 DEF AttemptFails, RecordFailure
  <2>4. CASE TimePasses
    BY <2>4 DEF TimePasses
  <2>5. CASE UNCHANGED breakerVars
    BY <2>5 DEF breakerVars
  <2>6. QED
    BY <2>1, <2>2, <2>3, <2>4, <2>5 DEF Next, NextDelay, ResetDelay, vars
<1>2. BreakerTypeOK /\ BreakerCounts /\ [Next]_vars => (BreakerTypeOK /\ BreakerCounts)'
  BY BreakerStep
<1>3. QED
  BY <1>1, <1>2, InitInv, PTL DEF Spec, CoolDownOnlyRuns
=============================================================================
