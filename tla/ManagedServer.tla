---------------------------- MODULE ManagedServer ----------------------------
(***************************************************************************)
(* The managed WebSocket server: the server task (run_server and its       *)
(* accept loop), the connection tasks of its JoinSet, the connection       *)
(* budget, and the handle that owns the task.                              *)
(*                                                                         *)
(* The server task, every connection task and the holder of the handle     *)
(* run on different threads.  A step of a task is what it does between two *)
(* accesses to state that another one can see (the status and shutdown     *)
(* watches, the terminal cause, the connection budget, the JoinSet).       *)
(***************************************************************************)
EXTENDS Integers, FiniteSets, FiniteSetsExt

CONSTANTS
    Conns,           \* sockets of clients that may connect
    MaxConnections,  \* WsServerConfig.max_connections
    MaxAttempts,     \* WsServerRetryPolicy.max_attempts: {} is None, {n} is Some(n)
    InitialBackoff,  \* WsServerRetryPolicy.initial_backoff
    MaxBackoff,      \* WsServerRetryPolicy.max_backoff
    FaultAfter,      \* ServerFaults.terminal_accept_failure_after: {} or {n}
    Workers          \* worker threads of the runtime

ASSUME ConfigAssumption ==        \* WsServerConfig::validate and WsServerRetryPolicy::validate
    /\ MaxConnections \in Nat \ {0}
    /\ MaxAttempts \subseteq Nat \ {0}
    /\ InitialBackoff \in Nat \ {0}
    /\ MaxBackoff \in Nat /\ InitialBackoff =< MaxBackoff
    /\ FaultAfter \subseteq Nat
    /\ Workers \in Nat \ {0}

VARIABLES
    \* the server task
    pc,              \* where run_server is
    failures,        \* consecutive_failures
    backoff,         \* the delay of the next wait
    origin,          \* FailureOrigin of the current run of failures
    accepted,        \* sockets the current accept loop has accepted
    \* ServerShared
    status, terminal, shutdown, active,
    \* connection tasks
    phase,           \* where each socket's task is
    abortReq,        \* connection tasks that have been told to abort
    \* ManagedWsServerHandle
    handle,          \* where the holder of the handle is
    taskAbort        \* the server task has been told to abort

serverVars == <<pc, failures, backoff, origin, accepted>>
connVars == <<active, phase, abortReq>>
handleVars == <<handle, taskAbort, shutdown>>
vars == <<serverVars, status, terminal, connVars, handleVars>>

Lifecycle == INSTANCE ServerLifecycle WITH owned <- handle = "held"

NoCause == Lifecycle!NoCause

SlotPhases == {"handshake", "busy", "open", "closing"}

(* The tasks that hold a ConnectionSlot, and the ones the JoinSet still owns. *)
InPhase(P) == {c \in Conns : phase[c] \in P}
SlotHolders == InPhase(SlotPhases)
JoinSet == InPhase(SlotPhases \cup {"released", "finished"})

Init ==
    /\ pc = "Spawned"
    /\ failures = 0 /\ backoff = InitialBackoff /\ origin = "Bind"
    /\ accepted = 0
    /\ status = "Starting" /\ terminal = NoCause /\ shutdown = FALSE /\ active = 0
    /\ phase = [c \in Conns |-> "idle"]
    /\ abortReq = {}
    /\ handle = "held" /\ taskAbort = FALSE

-----------------------------------------------------------------------------
(* ServerShared::set_status never overwrites a terminal end state. *)
SetStatus(s) ==
    status' = IF terminal # NoCause /\ s # "Terminal" THEN status ELSE s

(* The first write of set_terminal; PublishTerminal is the second. *)
StoreTerminal(cause) ==
    /\ terminal' = IF terminal = NoCause THEN cause ELSE terminal
    /\ pc' = "PublishTerminal"

NextBackoff(current) == Min({2 * current, MaxBackoff})

IsExhaustedOneLater(attempts) == \E max \in MaxAttempts : attempts > max

IsExhausted(attempts) == \E max \in MaxAttempts : attempts >= max

(* ConnectionSlot::try_acquire claims one unit of the budget when it can. *)
SlotFreeOneTooMany == active =< MaxConnections

SlotFree == active < MaxConnections

NothingToReapUnread == TRUE

NothingToReap == InPhase({"finished"}) = {}

FaultTripped == \E threshold \in FaultAfter : accepted >= threshold

-----------------------------------------------------------------------------
(* The lifecycle loop of run_server. *)

CheckShutdownSkipped ==
    /\ pc \in {"Spawned", "Top"}
    /\ pc' = "Bind"
    /\ UNCHANGED <<failures, backoff, origin, accepted,
                   status, terminal, connVars, handleVars>>

CheckShutdown ==
    /\ pc \in {"Spawned", "Top"}
    /\ pc' = IF shutdown THEN "Stopping" ELSE "Bind"
    /\ UNCHANGED <<failures, backoff, origin, accepted,
                   status, terminal, connVars, handleVars>>

BindOk ==
    /\ pc = "Bind"
    /\ pc' = "Bound"
    /\ failures' = 0
    /\ backoff' = InitialBackoff
    /\ origin' = "Accept"
    /\ SetStatus("Listening")
    /\ UNCHANGED <<accepted, terminal, connVars, handleVars>>

BindFails ==
    /\ pc = "Bind"
    /\ pc' = "Failure"
    /\ UNCHANGED <<failures, backoff, origin, accepted, status, terminal, connVars, handleVars>>

EnterAcceptLoop ==
    /\ pc = "Bound"
    /\ pc' \in {"Accept", "Failure"}      \* local_addr fails: the listener is lost
    /\ accepted' = 0
    /\ UNCHANGED <<failures, backoff, origin, status, terminal, connVars, handleVars>>

CountFailure ==
    /\ pc = "Failure"
    /\ failures' = failures + 1
    /\ \/ /\ IsExhausted(failures')
          /\ StoreTerminal(IF origin = "Bind" THEN "BindRetryExhausted"
                                              ELSE "AcceptRetryExhausted")
          /\ UNCHANGED status
       \/ /\ ~IsExhausted(failures')
          /\ SetStatus("Retrying")
          /\ pc' = "Backoff"
          /\ UNCHANGED terminal
    /\ UNCHANGED <<backoff, origin, accepted, connVars, handleVars>>

(* The two branches of the wait between attempts; select! takes either. *)
BackoffElapses ==
    /\ pc = "Backoff"
    /\ pc' = "Top"
    /\ backoff' = NextBackoff(backoff)
    /\ UNCHANGED <<failures, origin, accepted, status, terminal, connVars, handleVars>>

BackoffStops ==
    /\ pc = "Backoff"
    /\ pc' = "Stopping"
    /\ UNCHANGED <<failures, backoff, origin, accepted,
                   status, terminal, connVars, handleVars>>

BackoffSeesShutdown ==
    /\ pc = "Backoff" /\ shutdown
    /\ pc' = "Stopping"
    /\ UNCHANGED <<failures, backoff, origin, accepted,
                   status, terminal, connVars, handleVars>>

-----------------------------------------------------------------------------
(* run_accept_loop.  "Accept" is the top of its loop; its biased select!   *)
(* reads the shutdown flag, then the JoinSet, then (at "Polled") the       *)
(* listener, and sleeps at "Parked" when none of them is ready.            *)

FaultTrips ==
    /\ pc = "Accept" /\ FaultTripped
    /\ StoreTerminal("InternalLoopFailure")
    /\ UNCHANGED <<failures, backoff, origin, accepted,
                   status, connVars, handleVars>>

AcceptSeesShutdown ==
    /\ pc = "Accept" /\ ~FaultTripped /\ shutdown
    /\ pc' = "Stopping"
    /\ UNCHANGED <<failures, backoff, origin, accepted,
                   status, terminal, connVars, handleVars>>

AcceptReaps(c) ==
    /\ pc = "Accept" /\ ~FaultTripped /\ ~shutdown
    /\ phase[c] = "finished"
    /\ phase' = [phase EXCEPT ![c] = "reaped"]
    /\ UNCHANGED <<serverVars, status, terminal, active, abortReq, handleVars>>

PollListener ==
    /\ pc = "Accept" /\ ~FaultTripped /\ ~shutdown
    /\ NothingToReap
    /\ pc' = "Polled"
    /\ UNCHANGED <<failures, backoff, origin, accepted,
                   status, terminal, connVars, handleVars>>

(* No socket is waiting, or accept failed with a transient error. *)
NothingAccepted ==
    /\ pc = "Polled"
    /\ pc' \in {"Parked", "Accept"}
    /\ UNCHANGED <<failures, backoff, origin, accepted,
                   status, terminal, connVars, handleVars>>

Wake ==
    /\ pc = "Parked"
    /\ pc' = "Accept"
    /\ UNCHANGED <<failures, backoff, origin, accepted,
                   status, terminal, connVars, handleVars>>

ListenerLost ==
    /\ pc = "Polled"
    /\ pc' = "Failure"
    /\ UNCHANGED <<failures, backoff, origin, accepted,
                   status, terminal, connVars, handleVars>>

(* admit_connection: take a slot and spawn the task, or drop the socket. *)
AdmitConnection(c) ==
    /\ pc = "Polled" /\ phase[c] = "idle"
    /\ pc' = "Accept"
    /\ accepted' = accepted + 1
    /\ IF SlotFree
       THEN /\ phase' = [phase EXCEPT ![c] = "handshake"]
            /\ active' = active + 1
       ELSE /\ phase' = [phase EXCEPT ![c] = "rejected"]
            /\ UNCHANGED active
    /\ UNCHANGED <<failures, backoff, origin,
                   status, terminal, abortReq, handleVars>>

-----------------------------------------------------------------------------
(* The ends of run_server: the rest of set_terminal, abort_clients and     *)
(* drain_clients.                                                          *)

PublishTerminal ==
    /\ pc = "PublishTerminal"
    /\ pc' = "AbortClients"
    /\ status' = "Terminal"
    /\ UNCHANGED <<failures, backoff, origin, accepted, terminal, connVars, handleVars>>

AbortAllForgotten == UNCHANGED abortReq

AbortAll == abortReq' = abortReq \cup JoinSet

AbortClients ==
    /\ pc = "AbortClients"
    /\ pc' = "JoinTerminal"
    /\ AbortAll
    /\ UNCHANGED <<failures, backoff, origin, accepted,
                   status, terminal, active, phase, handleVars>>

BeginDrain ==
    /\ pc = "Stopping"
    /\ pc' = "Draining"
    /\ SetStatus("ShuttingDown")
    /\ UNCHANGED <<failures, backoff, origin, accepted, terminal, connVars, handleVars>>

DrainTimesOut ==
    /\ pc = "Draining" /\ JoinSet # {}
    /\ pc' = "JoinDrain"
    /\ AbortAll
    /\ UNCHANGED <<failures, backoff, origin, accepted,
                   status, terminal, active, phase, handleVars>>

JoinNext(c) ==
    /\ pc \in {"JoinTerminal", "Draining", "JoinDrain"}
    /\ phase[c] = "finished"
    /\ phase' = [phase EXCEPT ![c] = "reaped"]
    /\ UNCHANGED <<serverVars, status, terminal, active, abortReq, handleVars>>

DrainedOnceAborted == JoinSet = {} \/ pc = "JoinDrain"

Drained == JoinSet = {}

(* join_next has returned None: run_server publishes Stopped, or simply returns. *)
ServerReturns ==
    /\ Drained
    /\ \/ pc \in {"Draining", "JoinDrain"} /\ SetStatus("Stopped")
       \/ pc = "JoinTerminal" /\ UNCHANGED status
    /\ pc' = "Done"
    /\ UNCHANGED <<failures, backoff, origin, accepted, terminal, connVars, handleVars>>

(* An abort takes effect where the task sleeps.  Dropping the future drops *)
(* the listener and the JoinSet, and with it aborts every connection.      *)
Asleep ==
    \/ pc \in {"Spawned", "Parked", "Backoff"}
    \/ pc \in {"JoinTerminal", "Draining", "JoinDrain"} /\ JoinSet # {}

ServerAborts ==
    /\ taskAbort /\ Asleep
    /\ pc' = "Aborted"
    /\ AbortAll
    /\ UNCHANGED <<failures, backoff, origin, accepted,
                   status, terminal, active, phase, handleVars>>

-----------------------------------------------------------------------------
(* One connection task, run_connection.  "busy" is a handler call or a     *)
(* write, "open" the select! of the event loop, "closing" the rest of      *)
(* finish_connection once the handler has been called with Closed.         *)

ConnStep(c, from, to) ==
    /\ phase[c] = from
    /\ phase' = [phase EXCEPT ![c] = to]
    /\ UNCHANGED <<serverVars, status, terminal, active, abortReq, handleVars>>

(* Returning, panicking or being aborted drops the ConnectionSlot; the     *)
(* task can be joined only a moment later, when its worker marks it done.  *)
Release(c) ==
    /\ Cardinality(InPhase({"released"})) < Workers
    /\ phase' = [phase EXCEPT ![c] = "released"]
    /\ active' = active - 1
    /\ UNCHANGED <<serverVars, status, terminal, abortReq, handleVars>>

Handshake(c) == ConnStep(c, "handshake", "busy")

HandshakeFails(c) == phase[c] = "handshake" /\ Release(c)

HandlerReturns(c) == ConnStep(c, "busy", "open")

(* A close action, a handler error or a failed write ends the event loop. *)
HandlerCloses(c) == ConnStep(c, "busy", "closing")

HandlerPanics(c) ==
    /\ phase[c] \in {"busy", "closing"}
    /\ Release(c)

(* A frame, a command or a tick: looked at only once shutdown was not seen. *)
NextEvent(c) == ~shutdown /\ ConnStep(c, "open", "busy")

(* The peer closed, the transport failed or the client lagged. *)
PeerCloses(c) == ~shutdown /\ ConnStep(c, "open", "closing")

ConnSeesShutdown(c) == shutdown /\ ConnStep(c, "open", "closing")

FinishConnection(c) == phase[c] = "closing" /\ Release(c)

ConnAborts(c) ==
    c \in abortReq /\ phase[c] \in SlotPhases /\ Release(c)

TaskCompletes(c) == ConnStep(c, "released", "finished")

-----------------------------------------------------------------------------
(* The holder of the ManagedWsServerHandle. *)

(* shutdown_with_timeout consumes the handle, so it is called at most once. *)
RequestShutdown ==
    /\ handle = "held"
    /\ handle' = "waiting"
    /\ shutdown' = TRUE
    /\ UNCHANGED <<serverVars, status, terminal, connVars, taskAbort>>

ShutdownReturns ==
    /\ handle = "waiting" /\ pc = "Done"
    /\ handle' = "gone"
    /\ UNCHANGED <<serverVars, status, terminal, connVars, taskAbort, shutdown>>

ShutdownTimesOut ==
    /\ handle = "waiting" /\ pc # "Done"
    /\ handle' = "gone"
    /\ taskAbort' = TRUE
    /\ UNCHANGED <<serverVars, status, terminal, connVars, shutdown>>

(* Drop signals first and aborts afterwards. *)
DropSignals ==
    /\ handle = "held"
    /\ handle' = "dropping"
    /\ shutdown' = TRUE
    /\ UNCHANGED <<serverVars, status, terminal, connVars, taskAbort>>

DropAborts ==
    /\ handle = "dropping"
    /\ handle' = "gone"
    /\ taskAbort' = TRUE
    /\ UNCHANGED <<serverVars, status, terminal, connVars, shutdown>>

-----------------------------------------------------------------------------
ServerStep ==
    \/ CheckShutdown \/ BindOk \/ BindFails \/ EnterAcceptLoop \/ CountFailure
    \/ BackoffElapses \/ BackoffSeesShutdown
    \/ FaultTrips \/ AcceptSeesShutdown \/ PollListener \/ NothingAccepted
    \/ Wake \/ ListenerLost
    \/ PublishTerminal \/ AbortClients \/ BeginDrain \/ DrainTimesOut \/ ServerReturns
    \/ ServerAborts
    \/ \E c \in Conns : AcceptReaps(c) \/ AdmitConnection(c) \/ JoinNext(c)

ConnectionStep(c) ==
    \/ Handshake(c) \/ HandshakeFails(c)
    \/ HandlerReturns(c) \/ HandlerCloses(c) \/ HandlerPanics(c)
    \/ NextEvent(c) \/ PeerCloses(c) \/ ConnSeesShutdown(c)
    \/ FinishConnection(c) \/ ConnAborts(c) \/ TaskCompletes(c)

HandleStep ==
    RequestShutdown \/ ShutdownReturns \/ ShutdownTimesOut \/ DropSignals \/ DropAborts

(* Everything has stopped: the only states in which nothing more happens. *)
Finished ==
    /\ handle = "gone" /\ pc \in {"Done", "Aborted"}
    /\ InPhase(SlotPhases \cup {"released"}) = {}
    /\ UNCHANGED vars

Next == ServerStep \/ HandleStep \/ (\E c \in Conns : ConnectionStep(c)) \/ Finished

Spec == Init /\ [][Next]_vars

(* The runtime keeps polling a task that can run, and its timers fire: the *)
(* server task makes progress, an aborted task is dropped and a finished   *)
(* one is marked done.  Nothing is assumed of peers or of handlers, which  *)
(* may never return.                                                       *)
Fairness ==
    /\ WF_vars(ServerStep)
    /\ WF_vars(DropAborts)
    /\ \A c \in Conns : WF_vars(ConnAborts(c)) /\ WF_vars(TaskCompletes(c))

FairSpec == Spec /\ Fairness

-----------------------------------------------------------------------------
PC == {"Spawned", "Top", "Bind", "Bound", "Failure", "Backoff", "Accept", "Polled",
       "Parked", "PublishTerminal", "AbortClients", "JoinTerminal", "Stopping",
       "Draining", "JoinDrain", "Done", "Aborted"}

Phase == SlotPhases \cup {"idle", "rejected", "released", "finished", "reaped"}

(* Every variable has its type; the backoff stays between the configured   *)
(* initial and maximum delays.                                             *)
TypeOK ==
    /\ pc \in PC
    /\ failures \in Nat /\ accepted \in Nat /\ active \in Nat
    /\ backoff \in InitialBackoff .. MaxBackoff
    /\ origin \in {"Bind", "Accept"}
    /\ status \in Lifecycle!Status
    /\ terminal \in Lifecycle!Cause \cup {NoCause}
    /\ shutdown \in BOOLEAN /\ taskAbort \in BOOLEAN
    /\ phase \in [Conns -> Phase]
    /\ abortReq \subseteq Conns
    /\ handle \in {"held", "waiting", "dropping", "gone"}

(* The budget counter equals the number of connection tasks that hold a    *)
(* slot, however each of them ended, and never exceeds max_connections     *)
(* (ConnectionSlot: "self-correcting regardless of how a connection ends").*)
SlotAccounting ==
    /\ active = Cardinality(SlotHolders)
    /\ active =< MaxConnections

(* Reaping before accepting keeps the JoinSet bounded: finished tasks are  *)
(* never piled up by new connections.                                      *)
JoinSetBounded == Cardinality(JoinSet) =< MaxConnections + Workers + 1

(* Whoever sees Terminal can read its cause, and a task that ran to its    *)
(* end published exactly one end state, Terminal if and only if there is   *)
(* a cause.                                                                *)
ExactlyOneEnd ==
    /\ status = "Terminal" => terminal # NoCause
    /\ pc = "Done" => /\ Lifecycle!IsFinal(status)
                      /\ (status = "Terminal") <=> (terminal # NoCause)

(* No connection task outlives the server task: when run_server returns,   *)
(* every connection has been joined and every slot is free, whether its    *)
(* clients drained, were aborted, or had connected after the shutdown.     *)
NoOrphans == pc = "Done" => JoinSet = {} /\ active = 0

(* The retry budget: the server waits only with attempts left, and gives   *)
(* up after exactly max_attempts consecutive failures.                     *)
RetryBudget ==
    /\ pc = "Backoff" => \A max \in MaxAttempts : failures < max
    /\ terminal \in {"BindRetryExhausted", "AcceptRetryExhausted"} => failures \in MaxAttempts

(* A final status is never left. *)
FinalStatusStays == [][Lifecycle!IsFinal(status) => status' = status]_vars

(* The server implements the lifecycle its handle documents. *)
ImplementsLifecycle == Lifecycle!LifecycleSpec

(* A requested shutdown ends the server task, even if handlers never       *)
(* return: the drain and the caller's budget are both bounded.             *)
ShutdownEndsTask == shutdown ~> pc \in {"Done", "Aborted"}

(* Once the handle is gone, every connection slot is eventually released:  *)
(* "No transport outlives its handle".                                     *)
HandleGoneFreesSlots == (handle = "gone") ~> (SlotHolders = {} /\ active = 0)

(* Steps that the server task, a connection and the holder of the handle   *)
(* still have before them, at most, once a shutdown was requested.         *)
TaskStepsLeft ==
    CASE pc = "Bind" -> 9
      [] pc \in {"Polled", "Bound"} -> 8
      [] pc = "Parked" -> 7
      [] pc \in {"Accept", "Failure"} -> 6
      [] pc = "Backoff" -> 5
      [] pc \in {"Spawned", "Top"} -> 4
      [] pc \in {"Stopping", "PublishTerminal"} -> 3
      [] pc \in {"Draining", "AbortClients"} -> 2
      [] pc \in {"JoinDrain", "JoinTerminal"} -> 1
      [] pc \in {"Done", "Aborted"} -> 0

ConnStepsLeft(c) ==
    CASE phase[c] = "idle" -> 7
      [] phase[c] = "handshake" -> 6
      [] phase[c] = "busy" -> 5
      [] phase[c] = "open" -> 4
      [] phase[c] = "closing" -> 3
      [] phase[c] = "released" -> 2
      [] phase[c] = "finished" -> 1
      [] phase[c] \in {"rejected", "reaped"} -> 0

HandleStepsLeft ==
    CASE handle = "held" -> 2 [] handle \in {"waiting", "dropping"} -> 1 [] handle = "gone" -> 0

(* Nothing goes in circles after a shutdown was requested: no retry, no    *)
(* further turn of the accept loop, no further event of a connection; with *)
(* each step someone comes closer to the end and nobody moves away from it.*)
ShutdownOnlyAdvances ==
    [][shutdown =>
         /\ shutdown'
         /\ TaskStepsLeft' =< TaskStepsLeft /\ HandleStepsLeft' =< HandleStepsLeft
         /\ \A c \in Conns : ConnStepsLeft(c)' =< ConnStepsLeft(c)
         /\ \/ TaskStepsLeft' < TaskStepsLeft \/ HandleStepsLeft' < HandleStepsLeft
            \/ \E c \in Conns : ConnStepsLeft(c)' < ConnStepsLeft(c)]_vars

(* Whoever still holds a slot when the server task was aborted, or waits   *)
(* for its last joins, has been told to abort: nobody is left to a handler *)
(* that never returns.                                                     *)
AbortReachesAll ==
    pc \in {"JoinTerminal", "JoinDrain", "Aborted"} => SlotHolders \subseteq abortReq

-----------------------------------------------------------------------------
(* Statements of the documentation that the code does not keep. *)

(* types.rs: a normal shutdown "can never be reported as a terminal        *)
(* failure".                                                               *)
ShutdownIsNeverTerminal == [][shutdown => terminal' = terminal]_vars
=============================================================================
