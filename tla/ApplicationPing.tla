--------------------------- MODULE ApplicationPing ---------------------------
(***************************************************************************)
(* WsApplicationPingPong, the heartbeat whose pings and pongs are ordinary *)
(* frames matched by a key, as the ping_sleep and reader branches of the   *)
(* health-checked loop call it.                                            *)
(*                                                                         *)
(* Instants are kept as ages that grow when time passes, so the earliest   *)
(* instant is the greatest age.  The caller's create_message either never  *)
(* repeats a key that is pending ("Unique") or may ("Repeating": a fixed   *)
(* ping text, for instance).  The peer may answer any key at any time,     *)
(* more than once, or never.                                               *)
(***************************************************************************)
EXTENDS Integers, FiniteSets, FiniteSetsExt, Functions

CONSTANTS
    Keys,            \* keys that create_message may return
    KeyPolicies,     \* behaviours of create_message considered
    MaxPending,      \* max_pending
    Interval,        \* interval()
    Timeout,         \* timeout()
    MaxStall         \* bound: how long the loop may be held up in one round

ASSUME PingAssumption ==
    /\ IsFiniteSet(Keys)
    /\ KeyPolicies \subseteq {"Unique", "Repeating"}
    /\ MaxPending \in Nat /\ Interval \in Nat /\ Timeout \in Nat /\ MaxStall \in Nat

VARIABLES
    policy,
    pc,              \* "Waiting" in the select!, "Pinging" (is_stale was false), "Writing"
    pending,         \* pending_pings, from keys to the ages of the pings
    oldest,          \* oldest_pending, an Option: {} is None, {a} is Some
    sinceReset,      \* age of the last reset of ping_sleep
    sinceCheck       \* age of the last is_stale or cleanup_stale, unless "Waiting"

vars == <<policy, pc, pending, oldest, sinceReset, sinceCheck>>

NoPings == [k \in {} |-> 0]

Init ==
    /\ policy \in KeyPolicies
    /\ pc = "Waiting"
    /\ pending = NoPings /\ oldest = {}
    /\ sinceReset = 0 /\ sinceCheck = 0

-----------------------------------------------------------------------------
Inserted(map, k) == [x \in DOMAIN map \cup {k} |-> IF x = k THEN 0 ELSE map[x]]

Without(k) == Restrict(pending, DOMAIN pending \ {k})

(* values().copied().min(), the earliest instant of a map *)
Earliest(map) == {a \in Range(map) : \A b \in Range(map) : b =< a}

IsStale == \E a \in oldest : a > Timeout

(* cleanup_stale: retain *)
Retained == Restrict(pending, {k \in DOMAIN pending : pending[k] =< Timeout})

Full(map) == Cardinality(DOMAIN map) >= MaxPending

OldestOnInsertReplaced(map) == {0}

(* touch_oldest_on_insert, with a ping that is being sent *)
OldestOnInsert(map) == IF DOMAIN map = {} THEN {0} ELSE Earliest(map)

OldestOnRemoveKept(k) == oldest

OldestOnRemove(k) == IF oldest = {pending[k]} THEN Earliest(Without(k)) ELSE oldest

FreeKeys(map) == IF policy = "Unique" THEN Keys \ DOMAIN map ELSE Keys

-----------------------------------------------------------------------------
(* The session is over; the next one begins with reset(). *)
Reset ==
    /\ pc' = "Waiting"
    /\ pending' = NoPings /\ oldest' = {}
    /\ sinceReset' = 0 /\ sinceCheck' = 0
    /\ UNCHANGED policy

(* ping_sleep is over: PongTimeout, or on to the next ping. *)
StaleFound == pc = "Waiting" /\ sinceReset >= Interval /\ IsStale /\ Reset

NotStale ==
    /\ pc = "Waiting" /\ sinceReset >= Interval /\ ~IsStale
    /\ pc' = "Pinging"
    /\ UNCHANGED <<policy, pending, oldest, sinceReset, sinceCheck>>

(* create_ping; ping_sleep is reset once the frame, if any, is written. *)
PingSkipped ==
    /\ pc = "Pinging" /\ Full(Retained)
    /\ pending' = Retained /\ oldest' = Earliest(Retained)
    /\ pc' = "Waiting" /\ sinceReset' = 0 /\ sinceCheck' = 0
    /\ UNCHANGED policy

CreatePing(k) ==
    /\ pc = "Pinging" /\ ~Full(Retained)
    /\ k \in FreeKeys(Retained)
    /\ pending' = Inserted(Retained, k)
    /\ oldest' = OldestOnInsert(Retained)
    /\ pc' = "Writing" /\ sinceCheck' = 0
    /\ UNCHANGED <<policy, sinceReset>>

PingWritten ==
    /\ pc = "Writing"
    /\ pc' = "Waiting" /\ sinceReset' = 0 /\ sinceCheck' = 0
    /\ UNCHANGED <<policy, pending, oldest>>

(* process_application: a pong whose key is not pending is not a pong. *)
PongReceived(k) ==
    /\ pc = "Waiting" /\ k \in DOMAIN pending
    /\ pending' = Without(k)
    /\ oldest' = OldestOnRemove(k)
    /\ UNCHANGED <<policy, pc, sinceReset, sinceCheck>>

(* Any other end of the session, a ping that cannot be written included. *)
SessionEnds == Reset

(* The clock also runs between is_stale and create_ping and during the write. *)
TimePasses ==
    /\ sinceReset < Interval + MaxStall
    /\ pending' = [k \in DOMAIN pending |-> pending[k] + 1]
    /\ oldest' = {a + 1 : a \in oldest}
    /\ sinceReset' = sinceReset + 1
    /\ sinceCheck' = IF pc = "Waiting" THEN 0 ELSE sinceCheck + 1
    /\ UNCHANGED <<policy, pc>>

Next ==
    \/ StaleFound \/ NotStale \/ PingSkipped \/ PingWritten \/ SessionEnds \/ TimePasses
    \/ \E k \in Keys : CreatePing(k) \/ PongReceived(k)

Spec == Init /\ [][Next]_vars

-----------------------------------------------------------------------------
Age == 0 .. Timeout + Interval + 2 * MaxStall

(* Every variable has its type, and no ping is kept past its timeout for    *)
(* longer than one round of the loop: is_stale and cleanup_stale see to it. *)
PingTypeOK ==
    /\ policy \in KeyPolicies
    /\ pc \in {"Waiting", "Pinging", "Writing"}
    /\ DOMAIN pending \subseteq Keys /\ pending \in [DOMAIN pending -> Age]
    /\ oldest = {} \/ \E a \in Age : oldest = {a}
    /\ sinceReset \in 0 .. Interval + MaxStall /\ sinceCheck \in Nat

(* max_pending bounds the map, however pings, pongs and expiry interleave. *)
PendingBounded == Cardinality(DOMAIN pending) =< MaxPending

(* The cached oldest entry never hides an overdue ping: a loop that goes on *)
(* to the next ping had none that was overdue when it asked is_stale, and   *)
(* holds none that was overdue when it made the new one.                    *)
OverdueEndsSession ==
    pc # "Waiting" => \A k \in DOMAIN pending : pending[k] =< Timeout + sinceCheck

(* pluggable_pingpong.md: "is_stale() becomes true when the oldest pending *)
(* ping has exceeded timeout()".                                           *)
StaleMeansOverdue == IsStale => \E k \in DOMAIN pending : pending[k] > Timeout

(* With keys that are not repeated while pending, is_stale ends a session  *)
(* only for a ping that is still unanswered.                               *)
UniqueKeysNeverStaleByMistake == policy = "Unique" => StaleMeansOverdue
=============================================================================
