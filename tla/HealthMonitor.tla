---------------------------- MODULE HealthMonitor ----------------------------
(***************************************************************************)
(* WsHealthMonitor's account of one connection: messages and silence, the  *)
(* two rings of recent errors (CircularBuffer), and the latency histogram. *)
(* The counters over all connections (attempts, successes, reconnects) are *)
(* in HealthCheckedClient, where the loop that keeps them is modelled.     *)
(*                                                                         *)
(* Any method may be called at any time.  Instants are kept as ages.  An   *)
(* error record is one of a small set; its text is left out.               *)
(***************************************************************************)
EXTENDS Integers, Sequences, FiniteSets, FiniteSetsExt

CONSTANTS
    Errors,          \* error records
    MaxRecent,       \* MAX_RECENT_ERRORS
    MinRtt, MaxRtt,  \* MIN_RTT_US, MAX_RTT_US: the bounds of the histogram
    Width,           \* width of a histogram bucket (external)
    Latencies,       \* round-trip times considered
    FrameCounts,     \* arguments of record_inbound_frames considered
    MaxU64,          \* u64::MAX, at which the counters saturate
    MaxErrors, MaxSamples, MaxAge    \* bounds: errors, samples and time of one connection

ASSUME MonitorAssumption ==
    /\ MaxRecent \in Nat /\ 2 * MaxRecent =< MaxU64
    /\ MinRtt \in Nat \ {0} /\ MaxRtt \in Nat /\ MinRtt =< MaxRtt
    /\ Latencies \subseteq Nat /\ FrameCounts \subseteq Nat /\ Width \in Nat \ {0}
    /\ {MaxU64, MaxErrors, MaxSamples, MaxAge} \subseteq Nat

VARIABLES
    uptime, sinceMsg,                  \* ages of connection_started and last_message_received
    messages, errors,                  \* message_count, error_count
    serverErrors, internalErrors,
    histogram,                         \* latency_histogram: the values recorded
    clamped,                           \* rtt_clamped_samples
    serverLog, internalLog,            \* history: every error since the ring was last emptied
    rtts                               \* history: calls of record_rtt on this connection

vars == <<uptime, sinceMsg, messages, errors, serverErrors, internalErrors, histogram, clamped,
          serverLog, internalLog, rtts>>

-----------------------------------------------------------------------------
(* CircularBuffer *)

PushEvictsBack(ring, e) ==
    IF MaxRecent = 0 THEN ring
    ELSE Append(IF Len(ring) = MaxRecent THEN SubSeq(ring, 1, MaxRecent - 1) ELSE ring, e)

(* push: a full ring loses its front, and a ring of capacity 0 stores nothing. *)
Push(ring, e) ==
    IF MaxRecent = 0 THEN ring
    ELSE Append(IF Len(ring) = MaxRecent THEN Tail(ring) ELSE ring, e)

-----------------------------------------------------------------------------
(* The histogram (external).  A value outside its bounds is refused; the   *)
(* order of the values does not matter.                                    *)

Recorded(v) == IF v \in MinRtt .. MaxRtt THEN Append(histogram, v) ELSE histogram

CountUpTo(v) == Cardinality({i \in 1 .. Len(histogram) : histogram[i] =< v})

Samples == Len(histogram)

(* The highest value of the bucket that holds the sample of the percentile's rank *)
ValueAtPercentile(p) ==
    LET v == Min({u \in MinRtt .. MaxRtt : CountUpTo(u) > 0 /\ 100 * CountUpTo(u) >= p * Samples})
    IN  (v \div Width) * Width + Width - 1

-----------------------------------------------------------------------------
SaturatingAdd(n, k) == IF n + k =< MaxU64 THEN n + k ELSE MaxU64

ResetConnection ==
    /\ uptime' = 0 /\ sinceMsg' = 0 /\ messages' = 0 /\ errors' = 0
    /\ serverErrors' = <<>> /\ internalErrors' = <<>>
    /\ histogram' = <<>> /\ clamped' = 0
    /\ serverLog' = <<>> /\ internalLog' = <<>> /\ rtts' = 0

(* record_inbound_frames, and record_message with one frame *)
RecordInboundFrames(frames) ==
    /\ frames > 0
    /\ sinceMsg' = 0
    /\ messages' = SaturatingAdd(messages, frames)
    /\ UNCHANGED <<uptime, errors, serverErrors, internalErrors, histogram, clamped,
                   serverLog, internalLog, rtts>>

RecordError ==
    /\ errors' = SaturatingAdd(errors, 1)
    /\ UNCHANGED <<uptime, sinceMsg, messages, serverErrors, internalErrors, histogram, clamped,
                   serverLog, internalLog, rtts>>

RecordServerError(e) ==
    /\ Len(serverLog) < MaxErrors
    /\ errors' = SaturatingAdd(errors, 1)
    /\ serverErrors' = Push(serverErrors, e) /\ serverLog' = Append(serverLog, e)
    /\ UNCHANGED <<uptime, sinceMsg, messages, internalErrors, histogram, clamped, internalLog, rtts>>

RecordInternalError(e) ==
    /\ Len(internalLog) < MaxErrors
    /\ errors' = SaturatingAdd(errors, 1)
    /\ internalErrors' = Push(internalErrors, e) /\ internalLog' = Append(internalLog, e)
    /\ UNCHANGED <<uptime, sinceMsg, messages, serverErrors, histogram, clamped, serverLog, rtts>>

ClearErrorBuffers ==
    /\ serverErrors' = <<>> /\ internalErrors' = <<>>
    /\ serverLog' = <<>> /\ internalLog' = <<>>
    /\ UNCHANGED <<uptime, sinceMsg, messages, errors, histogram, clamped, rtts>>

ClampedBelow(rtt) == IF rtt < MinRtt THEN MinRtt ELSE rtt

Clamped(rtt) == IF rtt < MinRtt THEN MinRtt ELSE IF rtt > MaxRtt THEN MaxRtt ELSE rtt

RecordRtt(rtt) ==
    /\ rtts < MaxSamples
    /\ clamped' = IF Clamped(rtt) # rtt THEN SaturatingAdd(clamped, 1) ELSE clamped
    /\ histogram' = Recorded(Clamped(rtt))
    /\ rtts' = rtts + 1
    /\ UNCHANGED <<uptime, sinceMsg, messages, errors, serverErrors, internalErrors,
                   serverLog, internalLog>>

TimePasses ==
    /\ uptime < MaxAge
    /\ uptime' = uptime + 1 /\ sinceMsg' = sinceMsg + 1
    /\ UNCHANGED <<messages, errors, serverErrors, internalErrors, histogram, clamped,
                   serverLog, internalLog, rtts>>

Init ==
    /\ uptime = 0 /\ sinceMsg = 0 /\ messages = 0 /\ errors = 0
    /\ serverErrors = <<>> /\ internalErrors = <<>>
    /\ histogram = <<>> /\ clamped = 0
    /\ serverLog = <<>> /\ internalLog = <<>> /\ rtts = 0

Next ==
    \/ ResetConnection \/ RecordError \/ ClearErrorBuffers \/ TimePasses
    \/ \E frames \in FrameCounts : RecordInboundFrames(frames)
    \/ \E e \in Errors : RecordServerError(e) \/ RecordInternalError(e)
    \/ \E rtt \in Latencies : RecordRtt(rtt)

Spec == Init /\ [][Next]_vars

-----------------------------------------------------------------------------
(* get_stats *)
Percentile(p) == IF Samples = 0 THEN 0 ELSE Min({ValueAtPercentile(p), MaxRtt})

(* Every variable has its type. *)
MonitorTypeOK ==
    /\ uptime \in 0 .. MaxAge /\ sinceMsg \in 0 .. uptime
    /\ messages \in 0 .. MaxU64 /\ errors \in 0 .. MaxU64 /\ clamped \in 0 .. MaxU64
    /\ serverErrors \in Seq(Errors) /\ internalErrors \in Seq(Errors)
    /\ serverLog \in Seq(Errors) /\ internalLog \in Seq(Errors)
    /\ histogram \in Seq(MinRtt .. MaxRtt) /\ rtts \in 0 .. MaxSamples

(* The last n of a history *)
Latest(log) == SubSeq(log, Max({1, Len(log) - MaxRecent + 1}), Len(log))

(* Each ring holds the latest MAX_RECENT_ERRORS of its errors since it was *)
(* emptied, in order, and none of them is missing from the error count.    *)
RingsHoldLatest ==
    /\ serverErrors = Latest(serverLog) /\ internalErrors = Latest(internalLog)
    /\ Len(serverErrors) + Len(internalErrors) =< errors

(* record_rtt's "Always record": no round trip of the connection is lost   *)
(* to the histogram's bounds, and the percentiles reported are ordered,    *)
(* within the bounds, and 0 exactly when there is no sample.               *)
StatsConsistent ==
    /\ Samples = rtts /\ clamped =< rtts
    /\ IF rtts = 0 THEN Percentile(50) = 0 /\ Percentile(99) = 0
       ELSE MinRtt =< Percentile(50) /\ Percentile(50) =< Percentile(99) /\ Percentile(99) =< MaxRtt
=============================================================================
