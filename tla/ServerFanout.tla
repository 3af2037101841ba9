----------------------------- MODULE ServerFanout -----------------------------
(***************************************************************************)
(* The command fanout of a managed server: dispatch and wait_for_status of *)
(* its handle, the broadcast channel, and what a connection's event loop   *)
(* does with commands, writes and its close.  The server task is the       *)
(* ServerLifecycle that ManagedServer implements.                          *)
(*                                                                         *)
(* A command is its position in the channel: the first one sent is 0.      *)
(***************************************************************************)
EXTENDS ServerLifecycle, Integers, Sequences

CONSTANTS
    Conns,           \* sockets of clients that may connect
    Callers,         \* threads that dispatch through a shared handle
    Retained,        \* WsServerConfig.retained_commands_per_client
    Capacity,        \* of the channel, which rounds Retained up to a power of two
    Awaited,         \* statuses that callers wait for
    MaxCommands      \* bound: no dispatch begins after this many

ASSUME FanoutAssumption ==
    /\ Retained \in Nat \ {0} /\ MaxCommands \in Nat
    /\ Capacity \in Nat /\ Retained =< Capacity /\ Capacity < 2 * Retained
    /\ \E i \in 0 .. Retained : Capacity = 2 ^ i
    /\ Awaited \subseteq Status

VARIABLES
    \* the broadcast channel
    tail,            \* commands sent so far
    next,            \* position each connection's receiver reads next
    \* connection tasks
    phase,           \* where each socket's task is
    cause,           \* WsServerCloseCause
    wire,            \* "clean", or whose close frame the stream was given
    \* handle
    dispatching,     \* where each caller of dispatch is
    saidStopped,     \* its last dispatch returned Stopped
    waiter,          \* where the caller of wait_for_status is
    expected,        \* the status it waits for
    saidSettled,     \* its last wait_for_status returned Settled
    changed,         \* the watch receiver of that call has an unseen version
    \* history
    admittedAt,      \* position of the channel when the socket was admitted
    seen             \* commands given to each handler

channelVars == <<tail, next, admittedAt>>
connVars == <<phase, cause, wire, seen>>
callVars == <<dispatching, saidStopped>>
waitVars == <<waiter, expected, saidSettled, changed>>
vars == <<lifecycleVars, channelVars, connVars, callVars, waitVars>>

Init ==
    /\ LifecycleInit
    /\ tail = 0 /\ next = [c \in Conns |-> 0] /\ admittedAt = [c \in Conns |-> 0]
    /\ phase = [c \in Conns |-> "idle"] /\ cause = [c \in Conns |-> "None"]
    /\ wire = [c \in Conns |-> "clean"]
    /\ seen = [c \in Conns |-> << >>]
    /\ dispatching = [d \in Callers |-> "idle"] /\ saidStopped = [d \in Callers |-> FALSE]
    /\ waiter = "idle" /\ expected = "Starting" /\ saidSettled = FALSE /\ changed = FALSE

-----------------------------------------------------------------------------
(* The server task, and giving up the handle: the borrow of a call in       *)
(* progress keeps its holder from consuming or dropping it.                 *)
Unborrowed == waiter = "idle" /\ \A d \in Callers : dispatching[d] = "idle"

ServerStep ==
    /\ LifecycleNext
    /\ owned' # owned => Unborrowed
    /\ changed' = (waiter # "idle" /\ (changed \/ status' # status))
    /\ UNCHANGED <<channelVars, connVars, callVars, waiter, expected, saidSettled>>

-----------------------------------------------------------------------------
(* dispatch: the cause, the status, perhaps the cause again, then the send. *)
Receiving == {"handshake", "handling", "writing", "open", "closing"}
Receivers == {c \in Conns : phase[c] \in Receiving}

Dispatch(d, from, to, stopped) ==
    /\ dispatching[d] = from
    /\ dispatching' = [dispatching EXCEPT ![d] = to]
    /\ saidStopped' = [saidStopped EXCEPT ![d] = stopped]
    /\ UNCHANGED <<lifecycleVars, next, admittedAt, connVars, waitVars>>

DispatchReadsCause(d) ==
    /\ owned /\ tail < MaxCommands /\ UNCHANGED tail
    /\ \/ terminal # NoCause /\ Dispatch(d, "idle", "idle", FALSE)      \* Terminated
       \/ terminal = NoCause /\ Dispatch(d, "idle", "status", FALSE)

AfterStatus ==
    IF Running THEN "send" ELSE IF status = "Terminal" THEN "recheck" ELSE "idle"

DispatchReadsStatus(d) ==
    /\ UNCHANGED tail
    /\ Dispatch(d, "status", AfterStatus, AfterStatus = "idle")

(* Terminated if there is a cause. *)
DispatchRereadsCause(d) ==
    /\ UNCHANGED tail
    /\ Dispatch(d, "recheck", "idle", terminal = NoCause)

(* Without a receiver the command is not kept, which is not an error. *)
DispatchSends(d) ==
    /\ tail' = IF Receivers = {} THEN tail ELSE tail + 1
    /\ Dispatch(d, "send", "idle", FALSE)

-----------------------------------------------------------------------------
(* wait_for_status *)
Wait(from, to) ==
    /\ waiter = from /\ waiter' = to
    /\ UNCHANGED <<lifecycleVars, channelVars, connVars, callVars>>

WaitCalled ==
    /\ owned /\ Wait("idle", "reading")
    /\ expected' \in Awaited /\ saidSettled' = FALSE /\ changed' = FALSE

SettledWhenNotRunning == ~Running \/ status = "Retrying"

Settled == IsFinal(status)

WaitReads ==
    /\ changed' = FALSE
    /\ UNCHANGED expected
    /\ \/ status = expected /\ Wait("reading", "idle") /\ UNCHANGED saidSettled
       \/ status # expected /\ Settled /\ Wait("reading", "idle") /\ saidSettled' = TRUE
       \/ status # expected /\ ~Settled /\ Wait("reading", "sleeping") /\ UNCHANGED saidSettled

WaitWakes == changed /\ Wait("sleeping", "reading") /\ UNCHANGED <<expected, saidSettled, changed>>

WaitTimesOut ==
    Wait("sleeping", "idle") /\ changed' = FALSE /\ UNCHANGED <<expected, saidSettled>>

-----------------------------------------------------------------------------
(* A connection task. *)
ConnStep(c, from, to) ==
    /\ phase[c] = from
    /\ phase' = [phase EXCEPT ![c] = to]
    /\ UNCHANGED <<lifecycleVars, tail, callVars, waitVars>>

KeepChannel == UNCHANGED <<next, admittedAt, seen>>

(* The stream (external): the first close frame handed to it, the handler's, *)
(* the server's or its own, is the only one; whatever follows it is refused. *)
(* Whether it gets to the peer is not modelled: a broken stream stays broken. *)
Refuses(c) == wire[c] # "clean"

Write(c, frame) == wire' = [wire EXCEPT ![c] = IF Refuses(c) THEN @ ELSE frame]

(* The event loop returns why. *)
LoopEnds(c, from, why) ==
    /\ ConnStep(c, from, "closing")
    /\ cause' = [cause EXCEPT ![c] = why]
    /\ UNCHANGED <<admittedAt, seen>>

(* admit_connection subscribes before the handshake. *)
AdmitConnection(c) ==
    /\ status = "Listening" /\ terminal = NoCause
    /\ ConnStep(c, "idle", "handshake")
    /\ next' = [next EXCEPT ![c] = tail]
    /\ admittedAt' = [admittedAt EXCEPT ![c] = tail]
    /\ UNCHANGED <<cause, wire, seen>>

HandshakeSubscribes(c) ==
    /\ ConnStep(c, "handshake", "handling")
    /\ next' = [next EXCEPT ![c] = tail]
    /\ UNCHANGED <<admittedAt, seen, cause, wire>>

(* The handler is created and called with Connected. *)
Handshake(c) ==
    /\ ConnStep(c, "handshake", "handling")
    /\ KeepChannel /\ UNCHANGED <<cause, wire>>

HandshakeFails(c) ==
    /\ ConnStep(c, "handshake", "ended")
    /\ KeepChannel /\ UNCHANGED <<cause, wire>>

(* apply_action: nothing to do, frames to write, or a close. *)
HandlerReturns(c) ==
    /\ ConnStep(c, "handling", "open") \/ ConnStep(c, "handling", "writing")
    /\ KeepChannel /\ UNCHANGED <<cause, wire>>

HandlerCloses(c) ==
    /\ LoopEnds(c, "handling", "HandlerRequested")
    /\ Write(c, "handler")
    /\ UNCHANGED next

HandlerFails(c) == LoopEnds(c, "handling", "HandlerError") /\ UNCHANGED <<next, wire>>

(* One frame of a reply, of a batch, or a pong; more may follow.  A handler *)
(* may Send a close frame too: the loop goes on, and its next write, if it  *)
(* comes to one, is refused.                                                *)
WriteFrame(c) ==
    /\ ~Refuses(c)
    /\ ConnStep(c, "writing", "writing") \/ ConnStep(c, "writing", "open")
    /\ \E frame \in {"clean", "handler"} : Write(c, frame)
    /\ KeepChannel /\ UNCHANGED cause

WriteFails(c) ==
    /\ LoopEnds(c, "writing", "TransportError")
    /\ \E frame \in {"clean", "handler"} : Write(c, frame)
    /\ UNCHANGED next

(* The biased select! looks at the shutdown flag before anything else. *)
ConnSeesShutdown(c) ==
    ~owned /\ LoopEnds(c, "open", "ServerShutdown") /\ UNCHANGED <<next, wire>>

PeerCloses(c) ==
    /\ owned
    /\ LoopEnds(c, "open", "ClientClosed") \/ LoopEnds(c, "open", "TransportError")
    /\ UNCHANGED <<next, wire>>

(* A ping is answered by the loop itself; a frame or a tick is for the handler. *)
OtherEvent(c) ==
    /\ owned
    /\ ConnStep(c, "open", "writing") \/ ConnStep(c, "open", "handling")
    /\ KeepChannel /\ UNCHANGED <<cause, wire>>

LaggingOneLater(c) == next[c] + Capacity + 1 < tail

(* The channel has overwritten the command this receiver would read next. *)
Lagging(c) == next[c] + Capacity < tail

ReceiveCommand(c) ==
    /\ owned /\ next[c] < tail /\ ~Lagging(c)
    /\ ConnStep(c, "open", "handling")
    /\ seen' = [seen EXCEPT ![c] = Append(@, next[c])]
    /\ next' = [next EXCEPT ![c] = @ + 1]
    /\ UNCHANGED <<admittedAt, cause, wire>>

ReceiveLagged(c) ==
    /\ owned /\ Lagging(c)
    /\ LoopEnds(c, "open", "Lagged")
    /\ next' = [next EXCEPT ![c] = tail - Capacity]
    /\ UNCHANGED wire

(* finish_connection: the handler is told, whose reply is ignored; then the *)
(* close frame, and the stream's close, which writes one of its own if      *)
(* there was none.                                                          *)
OwnCloseFrameNotLagged(c) == cause[c] \in {"HandlerError", "ServerShutdown"}

OwnCloseFrame(c) == cause[c] \in {"Lagged", "HandlerError", "ServerShutdown"}

FinishConnection(c) ==
    /\ ConnStep(c, "closing", "ended")
    /\ Write(c, IF OwnCloseFrame(c) THEN "server" ELSE "transport")
    /\ KeepChannel /\ UNCHANGED cause

(* A panic in the handler, or an abort by a server that ends. *)
ConnDropped(c) ==
    /\ \E p \in Receiving :
          /\ p \in {"handling", "closing"} \/ ~owned \/ terminal # NoCause
          /\ ConnStep(c, p, "dropped")
    /\ KeepChannel /\ UNCHANGED <<cause, wire>>

ConnectionStep(c) ==
    \/ AdmitConnection(c) \/ Handshake(c) \/ HandshakeFails(c)
    \/ HandlerReturns(c) \/ HandlerCloses(c) \/ HandlerFails(c)
    \/ WriteFrame(c) \/ WriteFails(c)
    \/ ConnSeesShutdown(c) \/ PeerCloses(c) \/ OtherEvent(c)
    \/ ReceiveCommand(c) \/ ReceiveLagged(c)
    \/ FinishConnection(c) \/ ConnDropped(c)

HandleStep ==
    \/ WaitCalled \/ WaitReads \/ WaitWakes \/ WaitTimesOut
    \/ \E d \in Callers : \/ DispatchReadsCause(d) \/ DispatchReadsStatus(d)
                          \/ DispatchRereadsCause(d) \/ DispatchSends(d)

(* The handle is gone and everything has stopped. *)
Finished == ~owned /\ IsFinal(status) /\ Receivers = {} /\ UNCHANGED vars

Next == ServerStep \/ HandleStep \/ (\E c \in Conns : ConnectionStep(c)) \/ Finished

Spec == Init /\ [][Next]_vars

-----------------------------------------------------------------------------
Causes == {"None", "ClientClosed", "HandlerRequested", "HandlerError", "Lagged",
           "ServerShutdown", "TransportError"}

(* Every variable has its type; no receiver is ahead of the channel. *)
FanoutTypeOK ==
    /\ status \in Status /\ terminal \in Cause \cup {NoCause} /\ owned \in BOOLEAN
    /\ tail \in Nat /\ next \in [Conns -> 0 .. tail] /\ admittedAt \in [Conns -> 0 .. tail]
    /\ phase \in [Conns -> Receiving \cup {"idle", "ended", "dropped"}]
    /\ cause \in [Conns -> Causes]
    /\ wire \in [Conns -> {"clean", "handler", "server", "transport"}]
    /\ seen \in [Conns -> Seq(Nat)]
    /\ dispatching \in [Callers -> {"idle", "status", "recheck", "send"}]
    /\ saidStopped \in [Callers -> BOOLEAN]
    /\ waiter \in {"idle", "reading", "sleeping"} /\ expected \in Status
    /\ saidSettled \in BOOLEAN /\ changed \in BOOLEAN

(* A handler is given every command sent since its socket was admitted, in *)
(* order and without a gap, the ones of the handshake included; whoever    *)
(* has missed one is closed as Lagged and given no more.                   *)
GapFree ==
    \A c \in Conns :
        /\ \A i \in 1 .. Len(seen[c]) : seen[c][i] = admittedAt[c] + i - 1
        /\ \/ next[c] = admittedAt[c] + Len(seen[c])
           \/ cause[c] = "Lagged" /\ next[c] > admittedAt[c] + Len(seen[c])

(* A command that is handed over is one of the last that the channel       *)
(* retains: "stale frames are never queued on a slow client's behalf".     *)
ServedFresh ==
    [][\A c \in Conns : seen'[c] # seen[c] => tail - next[c] =< Capacity]_vars

(* Where a connection stands as a subscriber: in until its event loop ends. *)
Place(c) ==
    IF phase[c] = "idle" THEN "outside"
    ELSE IF cause[c] = "Lagged" THEN "lagged"
    ELSE IF phase[c] \in {"handshake", "handling", "writing", "open"} THEN "in" ELSE "out"

Broadcast == INSTANCE CommandBroadcast
    WITH Subscriber <- Conns, Keep <- Capacity, sent <- tail, since <- admittedAt,
         got <- seen, place <- [c \in Conns |-> Place(c)]

(* The fanout implements the broadcast it documents: each step of the      *)
(* handle, the server and the connection tasks sends, joins, delivers,     *)
(* cuts off or leaves, or is none of a subscriber's business.              *)
ImplementsBroadcast == Broadcast!BroadcastSpec

(* What a client is told when its connection ends.  One that is cut off as *)
(* Lagged, by a handler's error or by a shutdown reads the server's close  *)
(* frame, which gives the reason, and never a bare close that looks like a *)
(* normal end; the exception is a handler that has sent a close frame of   *)
(* its own, which comes first and is the only one.  A bare close is the    *)
(* answer to a peer that closed or failed.                                 *)
CloseTellsCause ==
    \A c \in Conns :
        /\ phase[c] = "ended" /\ cause[c] \in {"Lagged", "HandlerError", "ServerShutdown"}
              => wire[c] \in {"server", "handler"}
        /\ phase[c] = "ended" /\ cause[c] = "HandlerRequested" => wire[c] = "handler"
        /\ wire[c] = "server" => cause[c] \in {"Lagged", "HandlerError", "ServerShutdown"}
        /\ wire[c] = "transport" => cause[c] \in {"ClientClosed", "TransportError"}

(* dispatch needs the handle, which a shutdown consumes, and finds a cause *)
(* behind every Terminal: it never returns Stopped.                        *)
DispatchNeverStopped == \A d \in Callers : ~saidStopped[d]

(* wait_for_status is never misled.  Once it has said "settled in final    *)
(* status {last:?} and can never reach {expected:?}" the server is never   *)
(* seen there; and it sleeps only in a status that gives no answer yet,    *)
(* unless a change it has not looked at is about to wake it.               *)
WaiterInformed ==
    /\ saidSettled => IsFinal(status) /\ status # expected
    /\ waiter = "sleeping" /\ ~changed => ~IsFinal(status) /\ status # expected
===============================================================================
