---------------------------- MODULE ManagedClient ----------------------------
(***************************************************************************)
(* The managed client loop run_managed_ws_loop: connect, authenticate,     *)
(* replay the subscriptions, serve commands and frames, and reconnect;     *)
(* with the command channel, the status cell, and the                      *)
(* ManagedWsLoopHandle that owns the task.                                 *)
(*                                                                         *)
(* The loop is one task; whoever holds the handle or a clone of the        *)
(* command sender runs beside it.  A step of the loop is what it does      *)
(* between two awaits.  The peer, the transport, the endpoint handler and  *)
(* the reconnect strategy are the environment: a step may take any outcome *)
(* they can give.                                                          *)
(***************************************************************************)
EXTENDS Integers, Sequences, Functions

CONSTANTS
    Subs,            \* subscriptions a subscription manager may hold
    Modes,           \* WsSessionModes of the endpoints considered
    Classify,        \* WsDisconnectActions classify_disconnect may answer
    RetryAnswers,    \* what should_retry may answer
    Delays,          \* what next_delay may answer
    MaxCommands,     \* bound: commands issued by the application
    MaxReplays       \* bound: times the peer authenticates one connection

ASSUME ClientAssumption ==
    /\ Modes \subseteq {"Public", "AuthGated"}
    /\ Classify \subseteq {"Abort", "ImmediateReconnect", "BackoffReconnect"}
    /\ RetryAnswers \subseteq BOOLEAN
    /\ Delays \subseteq Nat
    /\ MaxCommands \in Nat /\ MaxReplays \in Nat

VARIABLES
    \* the loop
    pc,              \* where run_managed_ws_loop is
    authed,          \* session_authenticated
    pending,         \* pending_auth_commands: positions in the channel's log
    isReconnect,     \* is_reconnect
    \* the command channel and the status cell
    log,             \* every command sent so far
    recvd,           \* how many of them the loop has received
    status,
    \* the endpoint handler
    mode,            \* session_mode
    desired,         \* subscriptions its manager would replay
    open,            \* history: an open was reported, its end was not
    notified,        \* history: a disconnect has been reported
    \* this connection, as its peer sees it
    live,            \* subscriptions in force
    written,         \* kinds of frames written so far
    granted,         \* the peer has confirmed the authentication
    replays,         \* replays so far
    delivered,       \* history: commands written, over all connections
    \* the owner of the loop
    handle, clones, taskAbort

loopVars == <<pc, authed, pending, isReconnect>>
handlerVars == <<mode, desired, open, notified>>
connVars == <<live, written, granted, replays>>
ownerVars == <<handle, clones, taskAbort>>
vars == <<loopVars, log, recvd, status, handlerVars, connVars, delivered, ownerVars>>

(* ManagedWsCommand; an update carries the set its manager will then hold. *)
Command ==
    [kind : {"Send", "ForceReconnect", "Shutdown"}, to : {{}}]
      \cup [kind : {"Update"}, to : SUBSET Subs]

Cmd(k) == [kind |-> k, to |-> {}]

Ended == pc \in {"Returned", "Aborted"}

Init ==
    /\ pc = "Spawned" /\ authed = FALSE /\ pending = <<>> /\ isReconnect = FALSE
    /\ log = <<>> /\ recvd = 0 /\ status = "Disconnected"
    /\ mode \in Modes /\ desired \in SUBSET Subs /\ open = FALSE /\ notified = FALSE
    /\ live = {} /\ written = {} /\ granted = FALSE /\ replays = 0 /\ delivered = <<>>
    /\ handle \in {"held", "sender"} /\ clones = TRUE /\ taskAbort = FALSE

-----------------------------------------------------------------------------
(* reconnect_delay, an Option: {} is None, {d} is Some(d). *)
ReconnectDelay(action, retry, d) ==
    CASE action = "Abort" -> {}
      [] action = "ImmediateReconnect" -> {0}
      [] action = "BackoffReconnect" -> IF retry THEN {d} ELSE {}

(* The end of an attempt or of a session: the status is stored, the handler *)
(* classifies the cause and is told of it, and the loop returns or waits.   *)
Disconnect ==
    /\ status' = "Disconnected"
    /\ open' = FALSE /\ notified' = TRUE
    /\ \E action \in Classify, retry \in RetryAnswers, d \in Delays :
         LET delay == ReconnectDelay(action, retry, d) IN
           /\ pc' = IF delay = {} THEN "Returned"
                    ELSE IF delay = {0} THEN "Top" ELSE "Waiting"
           /\ isReconnect' = IF delay = {0} THEN TRUE ELSE isReconnect

ReplayUnlessReconnect ==
    /\ live' = IF isReconnect THEN live ELSE live \cup desired
    /\ written' = written \cup {"subscription"}
    /\ replays' = replays + 1

(* replay_subscriptions, when every write succeeds.  A write that fails ends *)
(* the connection, so what it left at the peer is not recorded.              *)
Replay ==
    /\ live' = live \cup desired
    /\ written' = written \cup {"subscription"}
    /\ replays' = replays + 1

(* apply_command for the n-th command.  An update changes the manager's set *)
(* and writes the difference; the manager may refuse it, and a write may    *)
(* fail after the manager has taken it.                                     *)
ApplyCommand(n) ==
    /\ delivered' = Append(delivered, n)
    /\ written' = written \cup {"command"}
    /\ IF log[n].kind = "Update"
       THEN /\ live' = (live \ (desired \ log[n].to)) \cup (log[n].to \ desired)
            /\ desired' = log[n].to
       ELSE UNCHANGED <<live, desired>>

ApplyFails(n) ==
    desired' \in IF log[n].kind = "Update" THEN {desired, log[n].to} ELSE {desired}

-----------------------------------------------------------------------------
(* From the top of the loop to an open session. *)

BeginConnectAnew ==
    /\ pc \in {"Spawned", "Top"}
    /\ pc' = "Connecting"
    /\ status' = "Connecting"
    /\ pending' = <<>>
    /\ UNCHANGED <<authed, isReconnect, log, recvd, handlerVars, connVars, delivered, ownerVars>>

BeginConnect ==
    /\ pc \in {"Spawned", "Top"}
    /\ pc' = "Connecting"
    /\ status' = "Connecting"
    /\ UNCHANGED <<authed, pending, isReconnect, log, recvd, handlerVars, connVars,
                   delivered, ownerVars>>

ConnectFails ==
    /\ pc = "Connecting"
    /\ Disconnect
    /\ UNCHANGED <<authed, pending, log, recvd, mode, desired, connVars, delivered, ownerVars>>

(* The session starts authenticated only at a Public endpoint, and replays *)
(* there at once.                                                          *)
StartSessionStale ==
    /\ authed' = (authed \/ mode = "Public")
    /\ pc' = IF mode = "Public" THEN "Replay" ELSE "Select"

StartSession ==
    /\ authed' = (mode = "Public")
    /\ pc' = IF mode = "Public" THEN "Replay" ELSE "Select"

ConnectSucceeds ==
    /\ pc = "Connecting"
    /\ status' = "Connected"
    /\ open' = TRUE
    /\ live' = {} /\ written' = {} /\ granted' = FALSE /\ replays' = 0
    /\ \/ pc' = "AuthSend" /\ UNCHANGED authed        \* generate_auth gave a payload
       \/ StartSession
    /\ UNCHANGED <<pending, isReconnect, log, recvd, mode, desired, notified, delivered, ownerVars>>

AuthSent ==
    /\ pc = "AuthSend"
    /\ written' = written \cup {"auth"}
    /\ StartSession
    /\ UNCHANGED <<pending, isReconnect, log, recvd, status, handlerVars, live, granted, replays,
                   delivered, ownerVars>>

ReplaySent ==
    /\ pc = "Replay"
    /\ pc' = "Select"
    /\ Replay
    /\ UNCHANGED <<authed, pending, isReconnect, log, recvd, status, handlerVars, granted,
                   delivered, ownerVars>>

(* The authentication or a replayed subscription cannot be written. *)
OpenFails ==
    /\ pc \in {"AuthSend", "Replay"}
    /\ Disconnect
    /\ UNCHANGED <<authed, pending, log, recvd, mode, desired, connVars, delivered, ownerVars>>

-----------------------------------------------------------------------------
(* The select! of an open session. *)

NextCommand == log[recvd + 1]
Receivable == recvd < Len(log)
SendersGone == handle = "gone" /\ ~clones

(* Both Shutdown arms store the status and return; nobody is notified. *)
StopUnrecorded ==
    /\ pc' = "Returned"
    /\ UNCHANGED status

Stop ==
    /\ pc' = "Returned"
    /\ status' = "Disconnected"

CommandStops ==
    /\ pc = "Select"
    /\ \/ Receivable /\ NextCommand.kind = "Shutdown" /\ recvd' = recvd + 1
       \/ ~Receivable /\ SendersGone /\ UNCHANGED recvd
    /\ Stop
    /\ UNCHANGED <<authed, pending, isReconnect, log, handlerVars, connVars, delivered, ownerVars>>

CommandForcesReconnect ==
    /\ pc = "Select" /\ Receivable /\ NextCommand.kind = "ForceReconnect"
    /\ recvd' = recvd + 1
    /\ Disconnect
    /\ UNCHANGED <<authed, pending, log, mode, desired, connVars, delivered, ownerVars>>

CommandRequiresAuth(c) == c.kind \in {"Send", "Update"}

Defers == ~authed /\ CommandRequiresAuth(NextCommand)

CommandDeferred ==
    /\ pc = "Select" /\ Receivable /\ Defers
    /\ recvd' = recvd + 1
    /\ pending' = Append(pending, recvd')
    /\ UNCHANGED <<pc, authed, isReconnect, log, status, handlerVars, connVars,
                   delivered, ownerVars>>

CommandApplied ==
    /\ pc = "Select" /\ Receivable /\ NextCommand.kind \in {"Send", "Update"} /\ ~Defers
    /\ recvd' = recvd + 1
    /\ ApplyCommand(recvd')
    /\ UNCHANGED <<loopVars, log, status, mode, open, notified, granted, replays, ownerVars>>

CommandFails ==
    /\ pc = "Select" /\ Receivable /\ NextCommand.kind \in {"Send", "Update"} /\ ~Defers
    /\ recvd' = recvd + 1
    /\ ApplyFails(recvd')
    /\ Disconnect
    /\ UNCHANGED <<authed, pending, log, mode, connVars, delivered, ownerVars>>

(* The peer confirms the authentication: replay, then apply what was       *)
(* deferred, oldest first.  It may confirm more than once.                 *)
SessionAuthenticated ==
    /\ pc = "Select" /\ replays < MaxReplays
    /\ authed' = TRUE /\ granted' = TRUE
    /\ Replay
    /\ pc' = "Flush"
    /\ UNCHANGED <<pending, isReconnect, log, recvd, status, handlerVars, delivered, ownerVars>>

ReplayAfterAuthFails ==
    /\ pc = "Select"
    /\ authed' = TRUE /\ granted' = TRUE
    /\ Disconnect
    /\ UNCHANGED <<pending, log, recvd, mode, desired, live, written, replays, delivered, ownerVars>>

PendingAppliedUnpopped ==
    /\ pc = "Flush" /\ pending # <<>>
    /\ ApplyCommand(Head(pending))
    /\ UNCHANGED <<loopVars, log, recvd, status, mode, open, notified, granted, replays, ownerVars>>

PendingApplied ==
    /\ pc = "Flush" /\ pending # <<>>
    /\ pending' = Tail(pending)
    /\ ApplyCommand(Head(pending))
    /\ UNCHANGED <<pc, authed, isReconnect, log, recvd, status, mode, open, notified, granted,
                   replays, ownerVars>>

(* pop_front comes first: the command whose write fails is gone. *)
PendingFails ==
    /\ pc = "Flush" /\ pending # <<>>
    /\ pending' = Tail(pending)
    /\ ApplyFails(Head(pending))
    /\ Disconnect
    /\ UNCHANGED <<authed, log, recvd, mode, connVars, delivered, ownerVars>>

FlushDone ==
    /\ pc = "Flush" /\ pending = <<>>
    /\ pc' = "Select"
    /\ UNCHANGED <<authed, pending, isReconnect, log, recvd, status, handlerVars, connVars,
                   delivered, ownerVars>>

(* A frame, or a failure of the peer, the transport or the handler, ends   *)
(* the session.  Frames that do not are handled without a step.            *)
SessionBreaks ==
    /\ pc = "Select"
    /\ Disconnect
    /\ UNCHANGED <<authed, pending, log, recvd, mode, desired, connVars, delivered, ownerVars>>

(* A frame that parses to WsMessageAction::Shutdown. *)
FrameStops ==
    /\ pc = "Select"
    /\ Stop
    /\ UNCHANGED <<authed, pending, isReconnect, log, recvd, handlerVars, connVars,
                   delivered, ownerVars>>

-----------------------------------------------------------------------------
(* wait_reconnect_delay_or_shutdown, with a delay. *)

DelayElapsesUnmarked ==
    /\ pc = "Waiting"
    /\ pc' = "Top"
    /\ UNCHANGED <<authed, pending, isReconnect, log, recvd, status, handlerVars, connVars,
                   delivered, ownerVars>>

DelayElapses ==
    /\ pc = "Waiting"
    /\ pc' = "Top" /\ isReconnect' = TRUE
    /\ UNCHANGED <<authed, pending, log, recvd, status, handlerVars, connVars, delivered, ownerVars>>

(* Any other command also ends the wait, and is not kept. *)
WaitInterrupted ==
    /\ pc = "Waiting" /\ Receivable /\ NextCommand.kind # "Shutdown"
    /\ recvd' = recvd + 1
    /\ pc' = "Top" /\ isReconnect' = TRUE
    /\ UNCHANGED <<authed, pending, log, status, handlerVars, connVars, delivered, ownerVars>>

WaitStopsUnheeded ==
    /\ pc = "Waiting" /\ Receivable /\ NextCommand.kind = "Shutdown"
    /\ recvd' = recvd + 1
    /\ pc' = "Top" /\ isReconnect' = TRUE
    /\ UNCHANGED <<authed, pending, log, status, handlerVars, connVars, delivered, ownerVars>>

WaitStops ==
    /\ pc = "Waiting"
    /\ \/ Receivable /\ NextCommand.kind = "Shutdown" /\ recvd' = recvd + 1
       \/ ~Receivable /\ SendersGone /\ UNCHANGED recvd
    /\ pc' = "Returned"
    /\ UNCHANGED <<authed, pending, isReconnect, log, status, handlerVars, connVars,
                   delivered, ownerVars>>

(* An abort takes effect where the loop's poll returns Pending, which each  *)
(* of these awaits may do (and a connect or a wait that is over at once     *)
(* does not).  Nothing more is stored.                                      *)
LoopAborts ==
    /\ taskAbort
    /\ pc \in {"Spawned", "Connecting", "AuthSend", "Replay", "Select", "Flush", "Waiting"}
    /\ pc' = "Aborted"
    /\ UNCHANGED <<authed, pending, isReconnect, log, recvd, status, handlerVars, connVars,
                   delivered, ownerVars>>

-----------------------------------------------------------------------------
(* The holders of the command sender. *)

(* Sending fails once the loop has ended and its receiver is dropped. *)
Enqueue(c) == log' = IF Ended THEN log ELSE Append(log, c)

Issue(c) ==
    /\ handle \in {"held", "sender"} \/ clones
    /\ ~Ended /\ Len(log) < MaxCommands
    /\ Enqueue(c)
    /\ UNCHANGED <<loopVars, recvd, status, handlerVars, connVars, delivered, ownerVars>>

DropClones ==
    /\ clones
    /\ clones' = FALSE
    /\ UNCHANGED <<loopVars, log, recvd, status, handlerVars, connVars, delivered, handle, taskAbort>>

(* A caller that runs the loop itself has no handle, only a sender to drop. *)
DropSender ==
    /\ handle = "sender"
    /\ handle' = "gone"
    /\ UNCHANGED <<loopVars, log, recvd, status, handlerVars, connVars, delivered, clones, taskAbort>>

RequestShutdown ==
    /\ handle = "held"
    /\ Enqueue(Cmd("Shutdown"))
    /\ handle' = IF Ended THEN "gone" ELSE "waiting"
    /\ UNCHANGED <<loopVars, recvd, status, handlerVars, connVars, delivered, clones, taskAbort>>

(* The loop has ended, or the timeout passes: the JoinHandle is dropped and *)
(* the loop runs on.  Drop, which then runs, sends Shutdown once more.      *)
ShutdownReturns ==
    /\ handle = "waiting"
    /\ Enqueue(Cmd("Shutdown"))
    /\ handle' = "gone"
    /\ UNCHANGED <<loopVars, recvd, status, handlerVars, connVars, delivered, clones, taskAbort>>

DropSignals ==
    /\ handle = "held"
    /\ Enqueue(Cmd("Shutdown"))
    /\ handle' = "dropping"
    /\ UNCHANGED <<loopVars, recvd, status, handlerVars, connVars, delivered, clones, taskAbort>>

DropDetaches ==
    /\ handle = "dropping"
    /\ handle' = "gone"
    /\ UNCHANGED <<loopVars, log, recvd, status, handlerVars, connVars, delivered, clones, taskAbort>>

DropAborts ==
    /\ handle = "dropping"
    /\ taskAbort' = TRUE
    /\ handle' = "gone"
    /\ UNCHANGED <<loopVars, log, recvd, status, handlerVars, connVars, delivered, clones>>

-----------------------------------------------------------------------------
(* At one of the select!s that also look at the commands. *)
Selecting == pc \in {"Select", "Waiting"}

AttemptStep ==
    BeginConnect \/ ConnectFails \/ ConnectSucceeds \/ AuthSent \/ ReplaySent \/ OpenFails

ReceiveStep ==
    \/ CommandStops \/ CommandForcesReconnect \/ CommandDeferred \/ CommandApplied \/ CommandFails
    \/ WaitInterrupted \/ WaitStops

FlushStep == PendingApplied \/ PendingFails \/ FlushDone

LoopStep ==
    \/ AttemptStep \/ ReceiveStep \/ FlushStep
    \/ SessionAuthenticated \/ ReplayAfterAuthFails \/ SessionBreaks \/ FrameStops
    \/ DelayElapses \/ LoopAborts

OwnerStep ==
    \/ \E c \in Command : Issue(c)
    \/ DropClones \/ DropSender \/ RequestShutdown \/ ShutdownReturns \/ DropSignals \/ DropAborts

(* Everything has stopped: the only states in which nothing more happens. *)
Finished == Ended /\ handle = "gone" /\ ~clones /\ UNCHANGED vars

Next == LoopStep \/ OwnerStep \/ Finished

Spec == Init /\ [][Next]_vars

(* What the runtime gives: the loop is polled again, so it goes from the    *)
(* top into connect; select! picks its branches at random, so a command     *)
(* that keeps waiting is received in the end; a loop that stays at one      *)
(* await is pending there, and one that comes back to a select! over and    *)
(* over is made to yield there by the runtime's budget, so both are aborted *)
(* if they are to be; and Drop runs to its end.  connect and the writes     *)
(* have no timeout: nothing says that they return, nor that they are ever   *)
(* pending.  (The write of a command that was just received is part of      *)
(* ReceiveStep: that one is taken to return.)                               *)
Fairness ==
    /\ WF_vars(BeginConnect) /\ SF_vars(ReceiveStep)
    /\ WF_vars(LoopAborts) /\ SF_vars(Selecting /\ LoopAborts)
    /\ WF_vars(DropAborts)

FairSpec == Spec /\ Fairness

-----------------------------------------------------------------------------
(* Every variable has its type; received commands were sent. *)
TypeOK ==
    /\ pc \in {"Spawned", "Top", "Connecting", "AuthSend", "Replay", "Select", "Flush",
               "Waiting", "Returned", "Aborted"}
    /\ log \in Seq(Command) /\ recvd \in 0 .. Len(log)
    /\ pending \in Seq(1 .. recvd) /\ delivered \in Seq(1 .. recvd)
    /\ status \in {"Connecting", "Connected", "Disconnected"}
    /\ mode \in Modes
    /\ desired \subseteq Subs /\ live \subseteq Subs
    /\ written \subseteq {"auth", "subscription", "command"}
    /\ replays \in Nat
    /\ handle \in {"held", "sender", "waiting", "dropping", "gone"}
    /\ {authed, isReconnect, open, notified, granted, clones, taskAbort} \subseteq BOOLEAN

(* At an AuthGated endpoint no subscription and no command is written on a *)
(* connection before the peer has confirmed its authentication on that     *)
(* very connection.                                                        *)
AuthGate == mode = "AuthGated" /\ ~granted => written \subseteq {"auth"}

(* Whenever an authenticated session waits for its next event, the         *)
(* subscriptions in force at the peer are the ones the manager holds,      *)
(* whatever updates were deferred, refused or lost with earlier            *)
(* connections.                                                            *)
SubscriptionsConverge == pc = "Select" /\ authed => live = desired

(* Commands reach the wire in the order they were sent, each at most once, *)
(* across deferral and reconnects.                                         *)
InOrder == \A i, j \in DOMAIN delivered : i < j => delivered[i] < delivered[j]

(* Status snapshots: Connected is only reported while the loop has a       *)
(* connection (or was aborted with one), and every return of the loop      *)
(* leaves Disconnected.                                                    *)
StatusTruthful ==
    /\ status = "Connected" => pc \in {"AuthSend", "Replay", "Select", "Flush", "Aborted"}
    /\ pc = "Returned" => status = "Disconnected"

(* What the owner is told: no attempt starts before the end of the last    *)
(* connection was reported, and a connection is announced as a reconnect   *)
(* exactly if a disconnect was reported before.                            *)
LifecycleReports ==
    /\ pc \in {"Top", "Connecting", "Waiting"} => ~open
    /\ open => (isReconnect <=> notified)

(* Commands received, neither written nor still deferred. *)
Lost ==
    {n \in 1 .. recvd : /\ log[n].kind \in {"Send", "Update"}
                        /\ n \notin Range(pending) \cup Range(delivered)}

(* A command is lost only to the wait before a reconnect or to a connection *)
(* that breaks, and each of them costs at most the one command in hand:     *)
(* deferred commands survive reconnects.                                    *)
LossIsAccounted ==
    [][Lost' # Lost =>
         /\ pc = "Waiting" \/ status' = "Disconnected"
         /\ \E n \in {recvd'} \cup (IF pending = <<>> THEN {} ELSE {Head(pending)}) :
              Lost' = Lost \cup {n}]_vars

StopRequested ==
    \/ \E n \in recvd + 1 .. Len(log) : log[n].kind = "Shutdown"
    \/ SendersGone

(* A loop that keeps coming back to its select!s heeds a Shutdown that was  *)
(* sent, or the loss of the last sender, and ends: also when the caller's   *)
(* timeout passed and the loop was detached, and whatever it does between   *)
(* them.  Not one that hangs in a connect or a write, or reconnects without *)
(* a wait to a peer it never reaches.  StopIsKept below makes this the same *)
(* as StopRequested ~> Ended.                                               *)
StopEndsLoop == []<>(Selecting \/ Ended) => []<>(StopRequested => Ended)

(* A request to stop is never taken back or skipped.  A Shutdown keeps its  *)
(* place in the queue while what is before it is received, and is received  *)
(* only to end the loop; lost senders do not come back; an abort, once      *)
(* Drop is on its way to it, stays due; and no ended loop runs again.       *)
StopIsKept ==
    [][/\ \A n \in recvd + 1 .. Len(log) :
            log[n].kind = "Shutdown" =>
              \/ Ended'
              \/ n \in recvd' + 1 .. Len(log') /\ log'[n] = log[n]
       /\ recvd =< recvd'
       /\ SendersGone => SendersGone'
       /\ handle = "dropping" \/ taskAbort => (handle = "dropping" \/ taskAbort)'
       /\ Ended => Ended']_vars

(* The loop starts attempt after attempt and never gets to a select!: a      *)
(* connect that fails at once and a zero delay, for ever.                    *)
Spins == []<>(pc = "Top") /\ <>[]~Selecting

(* Dropping the handle ends every loop that does not spin: also one that     *)
(* never looks at its commands again, in a connect or a write that never     *)
(* returns, is still aborted.                                                *)
DropEndsLoop == ~Spins => ((handle = "dropping") ~> Ended)

-----------------------------------------------------------------------------
(* Statements of the documentation that the code does not keep. *)

(* types.rs: on_connection_disconnected is "Called whenever an established *)
(* connection disconnects".                                                *)
DisconnectAlwaysReported == pc = "Returned" => ~open
=============================================================================
