------------------------ MODULE ApplicationPingProofs ------------------------
(* Proofs about ApplicationPing, for any finite set of keys, any limit and *)
(* any times.                                                              *)
EXTENDS ApplicationPing, FiniteSetTheorems, WellFoundedInduction, TLAPS

(* A nonempty set of naturals below a bound has a greatest element. *)
LEMMA GreatestExists ==
    ASSUME NEW B \in Nat, NEW S, S \subseteq 0 .. B, S # {}
    PROVE  \E m \in S : \A n \in S : n =< m
  <1> DEFINE T == {B - n : n \in S}
  <1>1. T \subseteq Nat /\ T # {}
    <2>1. \A n \in S : n \in 0 .. B
      OBVIOUS
    <2>2. \A n \in S : B - n \in Nat
      BY <2>1
    <2>3. QED
      BY <2>2, Zenon
  <1> DEFINE R == {ss \in Nat \X Nat : ss[1] < ss[2]}
  <1>2. IsWellFoundedOn(R, Nat)
    BY NatLessThanWellFounded DEF OpToRel
  <1> HIDE DEF T
  <1>3. PICK t \in T : \A u \in T : ~(<<u, t>> \in R)
    <2> HIDE DEF R
    <2> QED BY <1>1, <1>2, WFMin, Zenon
  <1> USE DEF T
  <1>4. PICK m \in S : t = B - m
    OBVIOUS
  <1>5. ASSUME NEW n \in S PROVE n =< m
    <2>1. B - n \in T
      OBVIOUS
    <2>2. ~(B - n < B - m)
      BY <1>1, <1>3, <1>4, <2>1, Zenon
    <2>3. n \in Nat /\ m \in Nat
      OBVIOUS
    <2>4. QED
      BY <2>2, <2>3
  <1>6. QED
    BY <1>5

(* The minimum that cleanup_stale and process_application compute is that  *)
(* of one ping of the map, and there is none only if the map is empty.     *)
LEMMA EarliestIsOfAPing ==
    ASSUME NEW map, NEW B \in Nat, \A k \in DOMAIN map : map[k] \in 0 .. B
    PROVE  \/ DOMAIN map = {} /\ Earliest(map) = {}
           \/ \E k \in DOMAIN map : /\ Earliest(map) = {map[k]}
                                    /\ \A j \in DOMAIN map : map[j] =< map[k]
  <1>1. CASE DOMAIN map = {}
    BY <1>1 DEF Earliest, Range
  <1>2. CASE DOMAIN map # {}
    <2>1. Range(map) \subseteq 0 .. B /\ Range(map) # {}
      BY <1>2 DEF Range
    <2>2. PICK m \in Range(map) : \A n \in Range(map) : n =< m
      BY <2>1, GreatestExists
    <2>3. PICK k \in DOMAIN map : m = map[k]
      BY DEF Range
    <2>4. \A j \in DOMAIN map : map[j] =< map[k]
      BY <2>2, <2>3 DEF Range
    <2>5. ASSUME NEW a \in Earliest(map) PROVE a = m
      <3>1. a \in Nat /\ m \in Nat /\ a =< m /\ m =< a
        BY <2>1, <2>2 DEF Earliest
      <3>2. QED
        BY <3>1
    <2>6. Earliest(map) = {map[k]}
      BY <2>2, <2>3, <2>5 DEF Earliest
    <2>7. QED
      BY <2>4, <2>6
  <1>3. QED
    BY <1>1, <1>2, Zenon

-----------------------------------------------------------------------------
(* What the cached instant says about the map: it is at least as old as    *)
(* every ping, and with unique keys it is the instant of one of them.      *)
Cached(o, map) ==
    \/ o = {} /\ DOMAIN map = {}
    \/ \E a \in Nat : /\ o = {a}
                      /\ \A k \in DOMAIN map : map[k] =< a
                      /\ policy = "Unique" => \E k \in DOMAIN map : map[k] = a

IsMap(map) == DOMAIN map \subseteq Keys /\ map \in [DOMAIN map -> Nat]

(* The age of the cached instant, in terms of the round of the loop. *)
RoundInv ==
    /\ sinceReset \in 0 .. Interval + MaxStall /\ sinceCheck \in 0 .. sinceReset
    /\ pc = "Waiting" => \A a \in oldest : a =< Timeout + MaxStall + sinceReset
    /\ pc # "Waiting" => \A a \in oldest : a =< Timeout + sinceCheck
    /\ pc = "Waiting" => sinceCheck = 0
    /\ pc # "Waiting" => Interval + sinceCheck =< sinceReset

PingInv ==
    /\ policy \in KeyPolicies /\ pc \in {"Waiting", "Pinging", "Writing"}
    /\ IsMap(pending) /\ Cached(oldest, pending)
    /\ RoundInv
    /\ PendingBounded

(* The map that is left of the pending pings is a map of the same kind. *)
LEMMA RestrictedMap ==
    ASSUME IsMap(pending), PendingBounded, NEW S \in SUBSET DOMAIN pending
    PROVE  /\ IsMap(Restrict(pending, S))
           /\ DOMAIN Restrict(pending, S) = S
           /\ \A k \in S : Restrict(pending, S)[k] = pending[k]
           /\ IsFiniteSet(S) /\ Cardinality(S) \in Nat /\ Cardinality(S) =< MaxPending
  <1>1. IsFiniteSet(DOMAIN pending) /\ Cardinality(DOMAIN pending) \in Nat
    BY PingAssumption, FS_Subset, FS_CardinalityType DEF IsMap
  <1>2. IsFiniteSet(S) /\ Cardinality(S) =< Cardinality(DOMAIN pending)
    BY <1>1, FS_Subset
  <1>3. Cardinality(S) \in Nat
    BY <1>2, FS_CardinalityType
  <1>4. IsMap(Restrict(pending, S)) /\ DOMAIN Restrict(pending, S) = S
    BY DEF Restrict, IsMap
  <1>5. \A k \in S : Restrict(pending, S)[k] = pending[k]
    BY DEF Restrict
  <1>6. QED
    BY <1>1, <1>2, <1>3, <1>4, <1>5, PingAssumption DEF PendingBounded

(* Recomputing the minimum of a map gives a cached instant that fits it. *)
LEMMA EarliestIsCached ==
    ASSUME NEW map, IsMap(map), NEW B \in Nat, \A k \in DOMAIN map : map[k] =< B
    PROVE  Cached(Earliest(map), map) /\ \A a \in Earliest(map) : a =< B
  <1>1. \A k \in DOMAIN map : map[k] \in 0 .. B /\ map[k] \in Nat
    BY DEF IsMap
  <1>2. \/ DOMAIN map = {} /\ Earliest(map) = {}
        \/ \E k \in DOMAIN map : /\ Earliest(map) = {map[k]}
                                 /\ \A j \in DOMAIN map : map[j] =< map[k]
    BY <1>1, EarliestIsOfAPing
  <1>3. QED
    BY <1>1, <1>2 DEF Cached

(* A new strategy, and one that was reset, has no pings and no cache. *)
LEMMA InitEstablishesPingInv == Init => PingInv
  <1> SUFFICES ASSUME Init PROVE PingInv
    OBVIOUS
  <1>1. DOMAIN pending = {} /\ IsMap(pending)
    BY DEF Init, NoPings, IsMap
  <1>2. Cardinality(DOMAIN pending) = 0
    BY <1>1, FS_EmptySet
  <1>3. QED
    BY <1>1, <1>2, PingAssumption DEF Init, PingInv, Cached, RoundInv, PendingBounded

(* reset() clears the map and the cache together. *)
LEMMA ResetKeepsPingInv ==
    ASSUME PingInv, Reset
    PROVE  PingInv'
  <1>1. DOMAIN pending' = {} /\ IsMap(pending')
    BY DEF Reset, NoPings, IsMap
  <1>2. Cardinality(DOMAIN pending') = 0
    BY <1>1, FS_EmptySet
  <1>3. QED
    BY <1>1, <1>2, PingAssumption DEF Reset, PingInv, IsMap, Cached, RoundInv, PendingBounded

(* create_ping: the cache is recomputed from what is retained, and a new   *)
(* ping is younger than all of it.                                         *)
LEMMA CreateKeepsPingInv ==
    ASSUME PingInv, PingSkipped \/ \E k \in Keys : CreatePing(k)
    PROVE  PingInv'
  <1> DEFINE S == {k \in DOMAIN pending : pending[k] =< Timeout}
  <1>1. /\ IsMap(Retained) /\ DOMAIN Retained = S
        /\ \A k \in S : Retained[k] = pending[k]
        /\ IsFiniteSet(S) /\ Cardinality(S) \in Nat /\ Cardinality(S) =< MaxPending
    BY RestrictedMap DEF PingInv, Retained
  <1>2. \A k \in DOMAIN Retained : Retained[k] =< Timeout
    BY <1>1
  <1>3. Cached(Earliest(Retained), Retained) /\ \A a \in Earliest(Retained) : a =< Timeout
    BY <1>1, <1>2, EarliestIsCached, PingAssumption
  <1>4. CASE PingSkipped
    <2>1. Cached(oldest, pending)'
      BY <1>3, <1>4 DEF PingSkipped, Cached
    <2>2. IsMap(pending') /\ PendingBounded'
      BY <1>1, <1>4 DEF PingSkipped, PendingBounded
    <2>3. QED
      BY <1>3, <1>4, <2>1, <2>2, PingAssumption DEF PingSkipped, PingInv, RoundInv, Cached, IsMap
  <1>5. ASSUME NEW k \in Keys, CreatePing(k) PROVE PingInv'
    <2>1. /\ DOMAIN pending' = S \cup {k}
          /\ pending' = [x \in S \cup {k} |-> IF x = k THEN 0 ELSE Retained[x]]
      BY <1>1, <1>5 DEF CreatePing, Inserted
    <2>2. IsMap(pending')
      BY <1>1, <2>1 DEF IsMap
    <2>3. Cardinality(S) < MaxPending
      BY <1>1, <1>5, PingAssumption DEF CreatePing, Full
    <2>4. PendingBounded'
      <3>1. Cardinality(S \cup {k}) \in {Cardinality(S), Cardinality(S) + 1}
        BY <1>1, FS_AddElement
      <3>2. Cardinality(S \cup {k}) =< MaxPending
        BY <1>1, <2>3, <3>1, PingAssumption
      <3>3. QED
        BY <2>1, <3>2 DEF PendingBounded
    <2>5. policy' = policy /\ (policy = "Unique" => k \notin S)
      BY <1>1, <1>5 DEF CreatePing, FreeKeys
    <2>6. CASE S = {}
      <3>1. oldest' = {0} /\ pending'[k] = 0 /\ DOMAIN pending' = {k}
        BY <1>1, <1>5, <2>1, <2>6 DEF CreatePing, OldestOnInsert
      <3>2. Cached(oldest, pending)'
        BY <3>1 DEF Cached
      <3>3. RoundInv'
        BY <1>5, <3>1, PingAssumption DEF CreatePing, PingInv, RoundInv
      <3>4. QED
        BY <1>5, <2>2, <2>4, <3>2, <3>3 DEF CreatePing, PingInv, IsMap
    <2>7. CASE S # {}
      <3>1. oldest' = Earliest(Retained)
        BY <1>1, <1>5, <2>7 DEF CreatePing, OldestOnInsert
      <3>2. PICK a \in Nat : /\ Earliest(Retained) = {a}
                             /\ \A j \in S : Retained[j] =< a
                             /\ policy = "Unique" => \E j \in S : Retained[j] = a
        BY <1>1, <1>3, <2>7 DEF Cached
      <3>3. \A j \in DOMAIN pending' : pending'[j] =< a
        BY <2>1, <3>2
      <3>4. policy' = "Unique" => \E j \in DOMAIN pending' : pending'[j] = a
        BY <2>1, <2>5, <3>2
      <3>5. Cached(oldest, pending)'
        BY <3>1, <3>2, <3>3, <3>4 DEF Cached
      <3>6. RoundInv'
        BY <1>3, <1>5, <3>1, PingAssumption DEF CreatePing, PingInv, RoundInv
      <3>7. QED
        BY <1>5, <2>2, <2>4, <3>5, <3>6 DEF CreatePing, PingInv, IsMap
    <2>8. QED
      BY <2>6, <2>7
  <1>6. QED
    BY <1>4, <1>5

(* A pong removes one ping, which may or may not be the cached one. *)
LEMMA PongKeepsPingInv ==
    ASSUME PingInv, NEW k \in Keys, PongReceived(k)
    PROVE  PingInv'
  <1> DEFINE S == DOMAIN pending \ {k}
  <1>1. /\ IsMap(pending') /\ DOMAIN pending' = S
        /\ \A j \in S : pending'[j] = pending[j]
        /\ Cardinality(S) =< MaxPending
    BY RestrictedMap DEF PingInv, PongReceived, Without
  <1>2. PICK a \in Nat : /\ oldest = {a}
                         /\ \A j \in DOMAIN pending : pending[j] =< a
                         /\ policy = "Unique" => \E j \in DOMAIN pending : pending[j] = a
    BY DEF PingInv, Cached, PongReceived
  <1>3. a =< Timeout + MaxStall + sinceReset /\ Timeout + MaxStall + sinceReset \in Nat
    BY <1>2, PingAssumption DEF PingInv, RoundInv, PongReceived
  <1>4. \A j \in DOMAIN pending' : pending'[j] =< a
    BY <1>1, <1>2
  <1>5. Cached(oldest, pending)' /\ \A b \in oldest' : b =< a
    <2>1. CASE oldest = {pending[k]}
      <3>1. oldest' = Earliest(pending')
        BY <2>1 DEF PongReceived, OldestOnRemove
      <3>2. Cached(Earliest(pending'), pending') /\ \A b \in Earliest(pending') : b =< a
        BY <1>1, <1>4, EarliestIsCached
      <3>3. QED
        BY <3>1, <3>2 DEF Cached, PongReceived
    <2>2. CASE oldest # {pending[k]}
      <3>1. oldest' = {a} /\ pending[k] # a
        BY <1>2, <2>2 DEF PongReceived, OldestOnRemove
      <3>2. policy' = "Unique" => \E j \in DOMAIN pending' : pending'[j] = a
        BY <1>1, <1>2, <3>1 DEF PongReceived
      <3>3. QED
        BY <1>4, <3>1, <3>2 DEF Cached
    <2>3. QED
      BY <2>1, <2>2
  <1>6. RoundInv'
    <2>1. \A b \in oldest' : b \in Nat
      BY <1>5 DEF Cached
    <2>2. \A b \in oldest' : b =< Timeout + MaxStall + sinceReset
      BY <1>3, <1>5, <2>1
    <2>3. QED
      BY <2>2 DEF PongReceived, PingInv, RoundInv
  <1>7. QED
    BY <1>1, <1>5, <1>6 DEF PongReceived, PingInv, IsMap, PendingBounded

(* Time passes for the map and the cached instant alike. *)
LEMMA TimeKeepsPingInv ==
    ASSUME PingInv, TimePasses
    PROVE  PingInv'
  <1>1. /\ DOMAIN pending' = DOMAIN pending
        /\ \A k \in DOMAIN pending : pending[k] \in Nat /\ pending'[k] = pending[k] + 1
    BY DEF PingInv, IsMap, TimePasses
  <1>2. IsMap(pending') /\ PendingBounded'
    BY <1>1 DEF PingInv, IsMap, TimePasses, PendingBounded
  <1>3. CASE oldest = {} /\ DOMAIN pending = {}
    BY <1>1, <1>2, <1>3, PingAssumption DEF PingInv, TimePasses, Cached, RoundInv, IsMap
  <1>4. ASSUME NEW a \in Nat, oldest = {a},
               \A k \in DOMAIN pending : pending[k] =< a,
               policy = "Unique" => \E k \in DOMAIN pending : pending[k] = a
        PROVE  PingInv'
    <2>1. oldest' = {a + 1} /\ policy' = policy
      BY <1>4 DEF TimePasses
    <2>2. Cached(oldest, pending)'
      BY <1>1, <1>4, <2>1 DEF Cached
    <2>3. RoundInv'
      BY <1>4, <2>1, PingAssumption DEF PingInv, RoundInv, TimePasses
    <2>4. QED
      BY <1>2, <2>2, <2>3 DEF PingInv, TimePasses, IsMap
  <1>5. QED
    BY <1>3, <1>4 DEF PingInv, Cached

(* is_stale was false: the cached instant, and with it every ping, is not overdue. *)
LEMMA CheckKeepsPingInv ==
    ASSUME PingInv, NotStale
    PROVE  PingInv'
  <1>1. \A a \in oldest : a \in Nat /\ ~(a > Timeout)
    BY DEF PingInv, Cached, NotStale, IsStale
  <1>2. \A a \in oldest' : a =< Timeout + sinceCheck'
    BY <1>1, PingAssumption DEF PingInv, RoundInv, NotStale
  <1>3. RoundInv'
    BY <1>2, PingAssumption DEF PingInv, RoundInv, NotStale
  <1>4. QED
    BY <1>3 DEF PingInv, NotStale, Cached, IsMap, PendingBounded

(* The write took no longer than the round may be held up. *)
LEMMA WrittenKeepsPingInv ==
    ASSUME PingInv, PingWritten
    PROVE  PingInv'
  <1>1. \A a \in oldest : a \in Nat /\ a =< Timeout + sinceCheck
    BY DEF PingInv, Cached, RoundInv, PingWritten
  <1>2. sinceCheck \in Nat /\ sinceCheck =< MaxStall
    BY PingAssumption DEF PingInv, RoundInv, PingWritten
  <1>3. RoundInv'
    BY <1>1, <1>2, PingAssumption DEF PingWritten, RoundInv
  <1>4. QED
    BY <1>3 DEF PingInv, PingWritten, Cached, IsMap, PendingBounded

LEMMA StepKeepsPingInv == PingInv /\ [Next]_vars => PingInv'
  <1> SUFFICES ASSUME PingInv, [Next]_vars PROVE PingInv'
    OBVIOUS
  <1>1. CASE StaleFound \/ SessionEnds
    BY <1>1, ResetKeepsPingInv DEF StaleFound, SessionEnds
  <1>2. CASE NotStale
    BY <1>2, CheckKeepsPingInv
  <1>3. CASE PingSkipped \/ \E k \in Keys : CreatePing(k)
    BY <1>3, CreateKeepsPingInv
  <1>4. CASE \E k \in Keys : PongReceived(k)
    BY <1>4, PongKeepsPingInv
  <1>5. CASE TimePasses
    BY <1>5, TimeKeepsPingInv
  <1>6. CASE PingWritten
    BY <1>6, WrittenKeepsPingInv
  <1>7. CASE UNCHANGED vars
    BY <1>7 DEF vars, PingInv, Cached, IsMap, RoundInv, PendingBounded
  <1>8. QED
    BY <1>1, <1>2, <1>3, <1>4, <1>5, <1>6, <1>7 DEF Next

(* The invariant that the theorems below follow from. *)
LEMMA PingInvHolds == Spec => []PingInv
  BY InitEstablishesPingInv, StepKeepsPingInv, PTL DEF Spec

-----------------------------------------------------------------------------
(* The variables keep their types, and no ping outlives its timeout by     *)
(* more than one round of the loop.                                        *)
THEOREM PingTypeCorrect == Spec => []PingTypeOK
  <1>1. PingInv => PingTypeOK
    <2> SUFFICES ASSUME PingInv PROVE PingTypeOK
      OBVIOUS
    <2>1. \A a \in oldest : a \in Nat /\ a =< Timeout + Interval + 2 * MaxStall
      BY PingAssumption DEF PingInv, Cached, RoundInv
    <2>2. \A a \in oldest : a \in Age
      BY <2>1, PingAssumption DEF Age
    <2>3. oldest = {} \/ \E a \in Age : oldest = {a}
      BY <2>2 DEF PingInv, Cached
    <2>4. ASSUME NEW k \in DOMAIN pending PROVE pending[k] \in Age
      <3>1. PICK a \in oldest : pending[k] =< a /\ a \in Nat
        BY DEF PingInv, Cached
      <3>2. pending[k] \in Nat /\ a =< Timeout + Interval + 2 * MaxStall
        BY <2>1, <3>1 DEF PingInv, IsMap
      <3>3. QED
        BY <3>1, <3>2, PingAssumption DEF Age
    <2>5. DOMAIN pending \subseteq Keys /\ pending \in [DOMAIN pending -> Age]
      BY <2>4 DEF PingInv, IsMap
    <2>6. QED
      BY <2>3, <2>5 DEF PingInv, PingTypeOK, RoundInv
  <1>2. QED
    BY <1>1, PingInvHolds, PTL

(* max_pending bounds the pings in flight. *)
THEOREM PendingIsBounded == Spec => []PendingBounded
  <1>1. PingInv => PendingBounded
    BY DEF PingInv
  <1>2. QED
    BY <1>1, PingInvHolds, PTL

(* A loop that goes on to the next ping had no overdue ping when it asked  *)
(* is_stale, whatever keys the caller uses.                                *)
THEOREM OverduePingEndsSession == Spec => []OverdueEndsSession
  <1>1. PingInv => OverdueEndsSession
    <2> SUFFICES ASSUME PingInv, pc # "Waiting", NEW k \in DOMAIN pending
                 PROVE  pending[k] =< Timeout + sinceCheck
      BY DEF OverdueEndsSession
    <2>1. PICK a \in oldest : pending[k] =< a /\ a \in Nat
      BY DEF PingInv, Cached
    <2>2. a =< Timeout + sinceCheck /\ pending[k] \in Nat /\ Timeout + sinceCheck \in Nat
      BY PingAssumption DEF PingInv, RoundInv, IsMap
    <2>3. QED
      BY <2>1, <2>2
  <1>2. QED
    BY <1>1, PingInvHolds, PTL

(* With unique keys is_stale is never true without an overdue ping. *)
THEOREM UniqueKeysAreSafe == Spec => []UniqueKeysNeverStaleByMistake
  <1>1. PingInv => UniqueKeysNeverStaleByMistake
    BY DEF PingInv, Cached, UniqueKeysNeverStaleByMistake, StaleMeansOverdue, IsStale
  <1>2. QED
    BY <1>1, PingInvHolds, PTL
==============================================================================
