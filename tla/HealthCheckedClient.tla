------------------------- MODULE HealthCheckedClient -------------------------
(***************************************************************************)
(* run_health_checked_managed_ws_loop: a loop of its own with a            *)
(* WsHealthMonitor and a WsPingPongStrategy.  The source repeats the       *)
(* managed loop and adds to it, and so does this module: each action is    *)
(* written from the health-checked loop.  Only what the two loops share    *)
(* in the source is taken from ManagedClient: the command channel, the     *)
(* handle, the variables, and the functions reconnect_delay,               *)
(* replay_subscriptions, apply_command and command_requires_auth.          *)
(*                                                                         *)
(* Instants are kept as ages that grow when time passes.  The strategies   *)
(* are ProtocolPingPong and ServerDrivenProtocolPingPong.  The monitor's   *)
(* error logs and latency histogram decide nothing and are left out.       *)
(***************************************************************************)
EXTENDS ManagedClient

CONSTANTS
    Strategies,      \* ping/pong strategies considered
    Interval,        \* interval() of the strategy
    Timeout,         \* timeout() of the strategy
    StaleThreshold,  \* WsHealthMonitor.stale_threshold
    MaxCount,        \* the value at which the monitor's counters saturate
    MaxStall         \* bound: time one connection may be held up

ASSUME HealthAssumption ==
    /\ Strategies \subseteq {"Protocol", "ServerDriven"}
    /\ Interval \in Nat /\ Timeout \in Nat /\ StaleThreshold \in Nat
    /\ MaxCount \in Nat /\ MaxStall \in Nat

VARIABLES
    strategy,
    sinceMsg,        \* age of last_message_received
    lastPing,        \* age of last_ping, an Option: {} is None, {a} is Some
    pongAfter,       \* last_pong is set and is not before last_ping
    pingDue,         \* time left of ping_sleep
    attempts, successes, reconnects,   \* counters of the monitor
    fromSession,     \* the wait before the next attempt follows a session
    unanswered,      \* history: age of the oldest ping since the last pong, {} or {a}
    stalled          \* history: time this connection's loop was held up outside its select!

clockVars == <<sinceMsg, lastPing, pongAfter, pingDue, unanswered, stalled>>
countVars == <<attempts, successes, reconnects, fromSession>>
healthVars == <<strategy, clockVars, countVars>>

HealthInit ==
    /\ Init
    /\ strategy \in Strategies
    /\ sinceMsg = 0 /\ lastPing = {} /\ pongAfter = FALSE /\ pingDue = 0
    /\ attempts = 0 /\ successes = 0 /\ reconnects = 0 /\ fromSession = FALSE
    /\ unanswered = {} /\ stalled = 0

-----------------------------------------------------------------------------
(* saturating_add(1) *)
Bump(n) == IF n < MaxCount THEN n + 1 ELSE n

Older(ages, d) == {a + d : a \in ages}

PingStaleOneLater == ~pongAfter /\ \E a \in lastPing : a > Timeout + 1

(* ProtocolPingPong::is_stale; the server-driven strategy sends no ping and *)
(* is never stale.                                                          *)
PingStale == ~pongAfter /\ \E a \in lastPing : a > Timeout

DataStaleOneLater == sinceMsg > StaleThreshold + 1

DataStale == sinceMsg > StaleThreshold

-----------------------------------------------------------------------------
(* The end of an attempt or of a session.  increment_reconnect counts only  *)
(* the sessions, after the wait, if there is one.                           *)
HealthEndsUnmarked(session) ==
    /\ status' = "Disconnected" /\ open' = FALSE /\ notified' = TRUE
    /\ fromSession' = session
    /\ \E action \in Classify, retry \in RetryAnswers, d \in Delays :
         LET delay == ReconnectDelay(action, retry, d) IN
           \/ delay = {} /\ pc' = "Returned" /\ UNCHANGED <<isReconnect, reconnects>>
           \/ delay = {0} /\ pc' = "Top" /\ UNCHANGED <<isReconnect, reconnects>>
           \/ delay \notin {{}, {0}} /\ pc' = "Waiting" /\ UNCHANGED <<isReconnect, reconnects>>
    /\ UNCHANGED <<log, mode, delivered, ownerVars, strategy, attempts, successes>>

HealthEnds(session) ==
    /\ status' = "Disconnected" /\ open' = FALSE /\ notified' = TRUE
    /\ fromSession' = session
    /\ \E action \in Classify, retry \in RetryAnswers, d \in Delays :
         LET delay == ReconnectDelay(action, retry, d) IN
           \/ delay = {} /\ pc' = "Returned" /\ UNCHANGED <<isReconnect, reconnects>>
           \/ /\ delay = {0} /\ pc' = "Top" /\ isReconnect' = TRUE
              /\ reconnects' = IF session THEN Bump(reconnects) ELSE reconnects
           \/ delay \notin {{}, {0}} /\ pc' = "Waiting" /\ UNCHANGED <<isReconnect, reconnects>>
    /\ UNCHANGED <<log, mode, delivered, ownerVars, strategy, attempts, successes>>

(* Opening a connection. *)

HealthBeginConnect ==
    /\ pc \in {"Spawned", "Top"}
    /\ pc' = "Connecting" /\ status' = "Connecting"
    /\ attempts' = Bump(attempts)
    /\ UNCHANGED <<authed, pending, isReconnect, log, recvd, handlerVars, connVars, delivered,
                   ownerVars, strategy, clockVars, successes, reconnects, fromSession>>

(* connect, the authentication or the replay fails. *)
HealthOpenFails ==
    /\ pc \in {"Connecting", "AuthSend", "Replay"}
    /\ HealthEnds(FALSE)
    /\ UNCHANGED <<authed, pending, recvd, desired, connVars, clockVars>>

(* A Public session is authenticated and replays before its event loop; an *)
(* AuthGated one enters it at once, where ping_sleep is armed.             *)
HealthStarts ==
    \/ mode = "Public" /\ authed' = TRUE /\ pc' = "Replay" /\ UNCHANGED pingDue
    \/ mode # "Public" /\ authed' = FALSE /\ pc' = "Select" /\ pingDue' = Interval

HealthConnectSucceeds ==
    /\ pc = "Connecting"
    /\ successes' = Bump(successes)
    /\ sinceMsg' = 0                                              \* reset_connection
    /\ lastPing' = {} /\ pongAfter' = FALSE /\ unanswered' = {}   \* ping_pong().reset()
    /\ stalled' = 0
    /\ status' = "Connected" /\ open' = TRUE
    /\ live' = {} /\ written' = {} /\ granted' = FALSE /\ replays' = 0
    /\ \/ pc' = "AuthSend" /\ UNCHANGED <<authed, pingDue>>      \* generate_auth gave a payload
       \/ HealthStarts
    /\ UNCHANGED <<pending, isReconnect, log, recvd, mode, desired, notified, delivered, ownerVars,
                   strategy, attempts, reconnects, fromSession>>

HealthAuthSent ==
    /\ pc = "AuthSend"
    /\ written' = written \cup {"auth"}
    /\ HealthStarts
    /\ UNCHANGED <<pending, isReconnect, log, recvd, status, handlerVars, live, granted, replays,
                   delivered, ownerVars, strategy, sinceMsg, lastPing, pongAfter, unanswered,
                   stalled, countVars>>

HealthReplaySent ==
    /\ pc = "Replay" /\ pc' = "Select"
    /\ Replay
    /\ pingDue' = Interval
    /\ UNCHANGED <<authed, pending, isReconnect, log, recvd, status, handlerVars, granted,
                   delivered, ownerVars, strategy, sinceMsg, lastPing, pongAfter, unanswered,
                   stalled, countVars>>

-----------------------------------------------------------------------------
(* The event loop: a command. *)

HealthReceives == pc = "Select" /\ Receivable /\ recvd' = recvd + 1

HealthCommandStops ==
    /\ \/ HealthReceives /\ NextCommand.kind = "Shutdown"
       \/ pc = "Select" /\ ~Receivable /\ SendersGone /\ UNCHANGED recvd
    /\ pc' = "Returned" /\ status' = "Disconnected"
    /\ UNCHANGED <<authed, pending, isReconnect, log, handlerVars, connVars, delivered, ownerVars,
                   healthVars>>

HealthCommandReconnects ==
    /\ HealthReceives /\ NextCommand.kind = "ForceReconnect"
    /\ HealthEnds(TRUE)
    /\ UNCHANGED <<authed, pending, desired, connVars, clockVars>>

HealthCommandDeferred ==
    /\ HealthReceives /\ ~authed /\ CommandRequiresAuth(NextCommand)
    /\ pending' = Append(pending, recvd')
    /\ UNCHANGED <<pc, authed, isReconnect, log, status, handlerVars, connVars, delivered,
                   ownerVars, healthVars>>

(* Neither a stop nor a reconnect, and not deferred: what is left. *)
HealthApplies ==
    /\ HealthReceives /\ NextCommand.kind \notin {"Shutdown", "ForceReconnect"}
    /\ authed \/ ~CommandRequiresAuth(NextCommand)

HealthCommandApplied ==
    /\ HealthApplies
    /\ ApplyCommand(recvd')
    /\ UNCHANGED <<loopVars, log, status, mode, open, notified, granted, replays, ownerVars,
                   healthVars>>

HealthCommandFails ==
    /\ HealthApplies
    /\ ApplyFails(recvd')
    /\ HealthEnds(TRUE)
    /\ UNCHANGED <<authed, pending, connVars, clockVars>>

-----------------------------------------------------------------------------
(* The event loop: a frame.  Every one counts as activity, also one that is *)
(* ignored or not parsed.                                                   *)

HealthFrame == pc = "Select" /\ sinceMsg' = 0

HealthAuthenticated ==
    /\ HealthFrame /\ replays < MaxReplays
    /\ authed' = TRUE /\ granted' = TRUE
    /\ Replay
    /\ pc' = "Flush"
    /\ UNCHANGED <<pending, isReconnect, log, recvd, status, handlerVars, delivered, ownerVars,
                   strategy, lastPing, pongAfter, pingDue, unanswered, stalled, countVars>>

HealthReplayAfterAuthFails ==
    /\ HealthFrame
    /\ authed' = TRUE /\ granted' = TRUE
    /\ HealthEnds(TRUE)
    /\ UNCHANGED <<pending, recvd, desired, live, written, replays, lastPing, pongAfter, pingDue,
                   unanswered, stalled>>

(* apply_pending_auth_commands pops each command before it applies it. *)
HealthPendingApplied ==
    /\ pc = "Flush" /\ pending # <<>>
    /\ pending' = Tail(pending)
    /\ ApplyCommand(Head(pending))
    /\ UNCHANGED <<pc, authed, isReconnect, log, recvd, status, mode, open, notified, granted,
                   replays, ownerVars, healthVars>>

HealthPendingFails ==
    /\ pc = "Flush" /\ pending # <<>>
    /\ pending' = Tail(pending)
    /\ ApplyFails(Head(pending))
    /\ HealthEnds(TRUE)
    /\ UNCHANGED <<authed, recvd, connVars, clockVars>>

HealthFlushDone ==
    /\ pc = "Flush" /\ pending = <<>>
    /\ pc' = "Select"
    /\ UNCHANGED <<authed, pending, isReconnect, log, recvd, status, handlerVars, connVars,
                   delivered, ownerVars, healthVars>>

HealthFrameHandled ==
    /\ HealthFrame
    /\ UNCHANGED <<vars, strategy, lastPing, pongAfter, pingDue, unanswered, stalled, countVars>>

PongReceived ==
    /\ HealthFrame /\ strategy = "Protocol"
    /\ pongAfter' = TRUE /\ unanswered' = {}
    /\ UNCHANGED <<vars, strategy, lastPing, pingDue, stalled, countVars>>

HealthFrameStops ==
    /\ HealthFrame
    /\ pc' = "Returned" /\ status' = "Disconnected"
    /\ UNCHANGED <<authed, pending, isReconnect, log, recvd, handlerVars, connVars, delivered,
                   ownerVars, strategy, lastPing, pongAfter, pingDue, unanswered, stalled,
                   countVars>>

(* A frame that ends the session or whose reply cannot be written, a read  *)
(* failure, or the end of the stream.                                      *)
HealthSessionBreaks ==
    /\ \/ HealthFrame
       \/ pc = "Select" /\ UNCHANGED sinceMsg
    /\ HealthEnds(TRUE)
    /\ UNCHANGED <<authed, pending, recvd, desired, connVars, lastPing, pongAfter, pingDue,
                   unanswered, stalled>>

-----------------------------------------------------------------------------
(* The event loop: ping_sleep is over.  PongTimeout, StaleData, or a ping. *)

PingFindsStale ==
    /\ pc = "Select" /\ pingDue = 0
    /\ PingStale \/ DataStale
    /\ HealthEnds(TRUE)
    /\ UNCHANGED <<authed, pending, recvd, desired, connVars, clockVars>>

(* create_ping, a write that takes d, and the reset of ping_sleep. *)
PingSent(d) ==
    /\ pc = "Select" /\ pingDue = 0
    /\ ~PingStale /\ ~DataStale
    /\ pingDue' = Interval
    /\ IF strategy = "Protocol"
       THEN /\ stalled + d =< MaxStall
            /\ lastPing' = {d} /\ pongAfter' = FALSE
            /\ unanswered' = IF unanswered = {} THEN {d} ELSE Older(unanswered, d)
            /\ stalled' = stalled + d /\ sinceMsg' = sinceMsg + d
       ELSE d = 0 /\ UNCHANGED <<lastPing, pongAfter, unanswered, stalled, sinceMsg>>
    /\ UNCHANGED <<vars, strategy, countVars>>

PingFails ==
    /\ pc = "Select" /\ pingDue = 0
    /\ ~PingStale /\ ~DataStale /\ strategy = "Protocol"
    /\ lastPing' = {0} /\ pongAfter' = FALSE
    /\ unanswered' = IF unanswered = {} THEN {0} ELSE unanswered
    /\ HealthEnds(TRUE)
    /\ UNCHANGED <<authed, pending, recvd, desired, connVars, sinceMsg, pingDue, stalled>>

-----------------------------------------------------------------------------
(* After the wait, or a command that cuts it short: only a wait that        *)
(* follows a session counts a reconnect.                                    *)
HealthWaitOver ==
    /\ pc = "Waiting" /\ pc' = "Top"
    /\ \/ UNCHANGED recvd
       \/ Receivable /\ NextCommand.kind # "Shutdown" /\ recvd' = recvd + 1
    /\ isReconnect' = TRUE
    /\ reconnects' = IF fromSession THEN Bump(reconnects) ELSE reconnects
    /\ UNCHANGED <<authed, pending, log, status, handlerVars, connVars, delivered, ownerVars,
                   strategy, clockVars, attempts, successes, fromSession>>

HealthWaitStops ==
    /\ pc = "Waiting" /\ pc' = "Returned"
    /\ \/ Receivable /\ NextCommand.kind = "Shutdown" /\ recvd' = recvd + 1
       \/ ~Receivable /\ SendersGone /\ UNCHANGED recvd
    /\ UNCHANGED <<authed, pending, isReconnect, log, status, handlerVars, connVars, delivered,
                   ownerVars, healthVars>>

(* The handle is the one of the managed loop, and so is an abort. *)
HealthOwner == (OwnerStep \/ LoopAborts) /\ UNCHANGED healthVars

(* Time passes on an open connection.  It is a hold-up when the loop is in  *)
(* a write, or late for a timer that is due.                                *)
HeldUp == pc # "Select" \/ pingDue = 0

TimePasses ==
    /\ pc \in {"AuthSend", "Replay", "Select", "Flush"}
    /\ HeldUp => stalled < MaxStall
    /\ stalled' = IF HeldUp THEN stalled + 1 ELSE stalled
    /\ pingDue' = IF pingDue > 0 THEN pingDue - 1 ELSE 0
    /\ sinceMsg' = sinceMsg + 1
    /\ lastPing' = Older(lastPing, 1)
    /\ unanswered' = Older(unanswered, 1)
    /\ UNCHANGED <<vars, strategy, pongAfter, countVars>>

OpeningStep ==
    \/ HealthBeginConnect \/ HealthOpenFails \/ HealthConnectSucceeds
    \/ HealthAuthSent \/ HealthReplaySent

CommandStep ==
    \/ HealthCommandStops \/ HealthCommandReconnects \/ HealthCommandDeferred
    \/ HealthCommandApplied \/ HealthCommandFails

FrameStep ==
    \/ HealthAuthenticated \/ HealthReplayAfterAuthFails \/ HealthPendingApplied
    \/ HealthPendingFails \/ HealthFlushDone \/ HealthFrameHandled \/ PongReceived
    \/ HealthFrameStops \/ HealthSessionBreaks

PingStep == PingFindsStale \/ PingFails \/ \E d \in 0 .. MaxStall : PingSent(d)

HealthNext ==
    \/ OpeningStep \/ CommandStep \/ FrameStep \/ PingStep
    \/ HealthWaitOver \/ HealthWaitStops
    \/ HealthOwner \/ TimePasses
    \/ Finished /\ UNCHANGED healthVars

HealthSpec == HealthInit /\ [][HealthNext]_<<vars, healthVars>>

-----------------------------------------------------------------------------
(* The type of the loop's own state, and of the monitor and the strategy. *)
HealthTypeOK ==
    /\ TypeOK
    /\ strategy \in Strategies
    /\ sinceMsg \in Nat /\ stalled \in 0 .. MaxStall /\ pingDue \in 0 .. Interval
    /\ lastPing \subseteq Nat /\ unanswered \subseteq Nat
    /\ {pongAfter, fromSession} \subseteq BOOLEAN
    /\ {attempts, successes, reconnects} \subseteq 0 .. MaxCount

(* A silent connection does not stay open: what the loop waits in has been *)
(* silent for at most stale_threshold and one ping interval, plus the time *)
(* the loop itself was held up, whatever commands it served meanwhile.     *)
SilenceBounded == pc = "Select" => sinceMsg =< StaleThreshold + Interval + stalled

(* With a timeout shorter than the interval, a peer that keeps sending but *)
(* does not answer pings is given one interval: the next ping finds the    *)
(* last one unanswered.  (With a longer timeout each ping restarts the     *)
(* wait for its predecessor, and only silence is detected.)                *)
UnansweredBounded ==
    Timeout < Interval /\ pc = "Select" => \A a \in unanswered : a =< Interval + stalled

(* reconnects counts sessions that ended and were followed by an attempt:  *)
(* never more than connections opened before this one, nor than attempts.  *)
CountersConsistent ==
    /\ reconnects =< successes /\ successes =< attempts
    /\ open => reconnects < successes \/ successes = MaxCount

(* The two loops, written apart, have not drifted: the health-checked one  *)
(* takes no step that the managed one could not take, so a handler, a peer *)
(* and an owner see nothing from it that the managed loop would not do.    *)
ImplementsManagedLoop == Spec
=============================================================================
