--------------------------- MODULE ClientLoopProofs ---------------------------
(* Proofs about the two client loops.  First ManagedClient, for any set of *)
(* subscriptions, any handler and reconnect strategy, and any number of    *)
(* commands and reconnects.  Then HealthCheckedClient: it implements       *)
(* ManagedClient, whose theorems therefore hold of it, and has bounds of   *)
(* its own, for any intervals, timeouts and thresholds.                    *)
EXTENDS HealthCheckedClient, SequenceTheorems, TLAPS

InSession == {"AuthSend", "Replay", "Select", "Flush"}

(* Where a disconnect leads, and what it reports. *)
LEMMA DisconnectFacts ==
    ASSUME Disconnect
    PROVE  /\ status' = "Disconnected" /\ pc' \in {"Returned", "Top", "Waiting"}
           /\ ~open' /\ notified'
           /\ pc' = "Top" => isReconnect'
  BY ClientAssumption, Zenon DEF Disconnect, ReconnectDelay

(* An owner's step touches nothing of the loop. *)
LEMMA OwnerKeepsLoop ==
    ASSUME OwnerStep
    PROVE  UNCHANGED <<loopVars, recvd, status, handlerVars, connVars, delivered>>
  BY DEF OwnerStep, Issue, DropClones, DropSender, RequestShutdown, ShutdownReturns,
     DropSignals, DropAborts, loopVars, handlerVars, connVars

-----------------------------------------------------------------------------
(* The authentication gate.  The loop's own flag is only ever TRUE at an    *)
(* AuthGated endpoint after this connection's peer has confirmed, and the   *)
(* replay before the session belongs to Public endpoints.                   *)
GateInv ==
    /\ AuthGate
    /\ mode \in Modes
    /\ pc = "Flush" => granted
    /\ pc = "Select" /\ mode = "AuthGated" /\ authed => granted
    /\ pc = "Replay" => mode = "Public"
    /\ mode = "Public" /\ pc \in {"Replay", "Select", "Flush"} => authed
    /\ pc = "Flush" => authed

LEMMA GateStep == GateInv /\ [Next]_vars => GateInv'
  <1> SUFFICES ASSUME GateInv, [Next]_vars
               PROVE  GateInv'
    OBVIOUS
  <1> USE ClientAssumption
      DEF GateInv, AuthGate, loopVars, handlerVars, connVars, ownerVars
  <1>1. CASE BeginConnect \/ LoopAborts \/ DelayElapses \/ WaitInterrupted \/ WaitStops
    BY <1>1 DEF BeginConnect, LoopAborts, DelayElapses, WaitInterrupted, WaitStops
  <1>2. CASE ConnectFails \/ OpenFails \/ SessionBreaks \/ CommandForcesReconnect \/ CommandFails
             \/ PendingFails \/ ReplayAfterAuthFails
    BY <1>2, DisconnectFacts DEF ConnectFails, OpenFails, SessionBreaks, CommandForcesReconnect,
        CommandFails, PendingFails, ReplayAfterAuthFails
  <1>3. CASE ConnectSucceeds
    BY <1>3, Zenon DEF ConnectSucceeds, StartSession
  <1>4. CASE AuthSent
    BY <1>4, Zenon DEF AuthSent, StartSession
  <1>5. CASE ReplaySent
    BY <1>5 DEF ReplaySent, Replay
  <1>6. CASE CommandStops \/ FrameStops
    BY <1>6 DEF CommandStops, FrameStops, Stop
  <1>7. CASE CommandDeferred
    BY <1>7 DEF CommandDeferred
  <1>8. CASE CommandApplied
    BY <1>8 DEF CommandApplied, ApplyCommand, Defers, CommandRequiresAuth
  <1>9. CASE SessionAuthenticated
    BY <1>9 DEF SessionAuthenticated, Replay
  <1>10. CASE PendingApplied
    BY <1>10 DEF PendingApplied, ApplyCommand
  <1>11. CASE FlushDone
    BY <1>11 DEF FlushDone
  <1>12. CASE OwnerStep
    BY <1>12, OwnerKeepsLoop
  <1>13. CASE UNCHANGED vars \/ Finished
    BY <1>13 DEF vars, Finished
  <1>14. QED
    BY <1>1, <1>2, <1>3, <1>4, <1>5, <1>6, <1>7, <1>8, <1>9, <1>10, <1>11, <1>12, <1>13, Zenon
       DEF Next, LoopStep, AttemptStep, ReceiveStep, FlushStep

LEMMA GateInvariant == Spec => []GateInv
  <1>1. Init => GateInv
    BY DEF Init, GateInv, AuthGate
  <1>2. QED
    BY <1>1, GateStep, PTL DEF Spec

(* No subscription and no command is written before authentication. *)
THEOREM AuthGateHolds == Spec => []AuthGate
  <1>1. GateInv => AuthGate
    BY DEF GateInv
  <1>2. QED
    BY <1>1, GateInvariant, PTL

-----------------------------------------------------------------------------
(* Subscriptions.  A connection starts with none in force and keeps none   *)
(* until its session is authenticated; from the replay on, the peer and    *)
(* the manager agree.                                                      *)
ConvergeInv ==
    /\ SubscriptionsConverge
    /\ pc = "Flush" => live = desired
    /\ pc \in {"AuthSend", "Replay"} => live = {}
    /\ pc = "Select" /\ ~authed => live = {}

LEMMA ConvergeStep == GateInv /\ ConvergeInv /\ [Next]_vars => ConvergeInv'
  <1> SUFFICES ASSUME GateInv, ConvergeInv, [Next]_vars
               PROVE  ConvergeInv'
    OBVIOUS
  <1> USE DEF ConvergeInv, SubscriptionsConverge, loopVars, handlerVars, connVars, ownerVars
  <1>1. CASE BeginConnect \/ LoopAborts \/ DelayElapses \/ WaitInterrupted \/ WaitStops
    BY <1>1 DEF BeginConnect, LoopAborts, DelayElapses, WaitInterrupted, WaitStops
  <1>2. CASE ConnectFails \/ OpenFails \/ SessionBreaks \/ CommandForcesReconnect \/ CommandFails
             \/ PendingFails \/ ReplayAfterAuthFails
    BY <1>2, DisconnectFacts DEF ConnectFails, OpenFails, SessionBreaks, CommandForcesReconnect,
        CommandFails, PendingFails, ReplayAfterAuthFails
  <1>3. CASE ConnectSucceeds
    BY <1>3, Zenon DEF ConnectSucceeds, StartSession
  <1>4. CASE AuthSent
    BY <1>4, Zenon DEF AuthSent, StartSession
  <1>5. CASE ReplaySent
    <2>1. live = {} /\ authed
      BY <1>5 DEF ReplaySent, GateInv
    <2>2. live' = desired' /\ authed' = authed /\ pc' = "Select"
      BY <1>5, <2>1 DEF ReplaySent, Replay
    <2>3. QED
      BY <2>1, <2>2
  <1>6. CASE CommandStops \/ FrameStops
    BY <1>6 DEF CommandStops, FrameStops, Stop
  <1>7. CASE CommandDeferred
    BY <1>7 DEF CommandDeferred
  <1>8. CASE CommandApplied
    <2>1. live = desired /\ authed
      BY <1>8 DEF CommandApplied, Defers, CommandRequiresAuth
    <2>2. live' = desired'
      BY <1>8, <2>1, Zenon DEF CommandApplied, ApplyCommand
    <2>3. QED
      BY <1>8, <2>1, <2>2 DEF CommandApplied
  <1>9. CASE SessionAuthenticated
    <2>1. live' = live \cup desired /\ desired' = desired /\ pc' = "Flush"
      BY <1>9 DEF SessionAuthenticated, Replay
    <2>2. live = {} \/ live = desired
      BY <1>9 DEF SessionAuthenticated
    <2>3. live' = desired'
      BY <2>1, <2>2
    <2>4. QED
      BY <2>1, <2>3
  <1>10. CASE PendingApplied
    <2>1. live = desired /\ pc' = "Flush"
      BY <1>10 DEF PendingApplied
    <2>2. live' = desired'
      BY <1>10, <2>1, Zenon DEF PendingApplied, ApplyCommand
    <2>3. QED
      BY <2>1, <2>2
  <1>11. CASE FlushDone
    BY <1>11 DEF FlushDone, GateInv
  <1>12. CASE OwnerStep
    BY <1>12, OwnerKeepsLoop
  <1>13. CASE UNCHANGED vars \/ Finished
    BY <1>13 DEF vars, Finished
  <1>14. QED
    BY <1>1, <1>2, <1>3, <1>4, <1>5, <1>6, <1>7, <1>8, <1>9, <1>10, <1>11, <1>12, <1>13
       DEF Next, LoopStep, AttemptStep, ReceiveStep, FlushStep

(* Peer and subscription manager agree in every authenticated session. *)
THEOREM SubscriptionsAgree == Spec => []SubscriptionsConverge
  <1>1. Init => ConvergeInv
    BY DEF Init, ConvergeInv, SubscriptionsConverge
  <1>2. ConvergeInv => SubscriptionsConverge
    BY DEF ConvergeInv
  <1>3. QED
    BY <1>1, <1>2, ConvergeStep, GateInvariant, PTL DEF Spec

-----------------------------------------------------------------------------
(* Status cell and reports to the owner, tied to the place of the loop. *)
ReportInv ==
    /\ StatusTruthful /\ LifecycleReports
    /\ pc \in InSession => open
    /\ pc \in {"Spawned", "Waiting"} \cup {"Top", "Connecting"} => ~open
    /\ pc \in {"Spawned", "Top", "Connecting"} => (isReconnect <=> notified)
    /\ pc = "Waiting" => notified
    /\ pc \in {"Top", "Waiting", "Spawned"} => status = "Disconnected"

LEMMA ReportStep == ReportInv /\ [Next]_vars => ReportInv'
  <1> SUFFICES ASSUME ReportInv, [Next]_vars
               PROVE  ReportInv'
    OBVIOUS
  <1> USE DEF ReportInv, StatusTruthful, LifecycleReports, InSession,
              loopVars, handlerVars, connVars, ownerVars
  <1>1. CASE BeginConnect \/ LoopAborts \/ DelayElapses \/ WaitInterrupted \/ WaitStops
    BY <1>1 DEF BeginConnect, LoopAborts, DelayElapses, WaitInterrupted, WaitStops
  <1>2. CASE ConnectFails \/ OpenFails \/ SessionBreaks \/ CommandForcesReconnect \/ CommandFails
             \/ PendingFails \/ ReplayAfterAuthFails
    BY <1>2, DisconnectFacts DEF ConnectFails, OpenFails, SessionBreaks, CommandForcesReconnect,
        CommandFails, PendingFails, ReplayAfterAuthFails
  <1>3. CASE ConnectSucceeds
    BY <1>3 DEF ConnectSucceeds, StartSession
  <1>4. CASE AuthSent \/ ReplaySent
    BY <1>4 DEF AuthSent, ReplaySent, StartSession
  <1>5. CASE CommandStops \/ FrameStops
    BY <1>5 DEF CommandStops, FrameStops, Stop
  <1>6. CASE CommandDeferred \/ CommandApplied
    BY <1>6 DEF CommandDeferred, CommandApplied
  <1>7. CASE SessionAuthenticated \/ PendingApplied \/ FlushDone
    BY <1>7 DEF SessionAuthenticated, PendingApplied, FlushDone
  <1>8. CASE OwnerStep
    BY <1>8, OwnerKeepsLoop
  <1>9. CASE UNCHANGED vars \/ Finished
    BY <1>9 DEF vars, Finished
  <1>10. QED
    BY <1>1, <1>2, <1>3, <1>4, <1>5, <1>6, <1>7, <1>8, <1>9, Zenon
       DEF Next, LoopStep, AttemptStep, ReceiveStep, FlushStep

LEMMA ReportInvariant == Spec => []ReportInv
  <1>1. Init => ReportInv
    BY DEF Init, ReportInv, StatusTruthful, LifecycleReports, InSession
  <1>2. QED
    BY <1>1, ReportStep, PTL DEF Spec

(* The status cell never claims a connection the loop does not have. *)
THEOREM StatusIsTruthful == Spec => []StatusTruthful
  <1>1. ReportInv => StatusTruthful
    BY DEF ReportInv
  <1>2. QED
    BY <1>1, ReportInvariant, PTL

(* Opens and ends of connections are reported to the owner in step. *)
THEOREM ReportsAreInStep == Spec => []LifecycleReports
  <1>1. ReportInv => LifecycleReports
    BY DEF ReportInv
  <1>2. QED
    BY <1>1, ReportInvariant, PTL

-----------------------------------------------------------------------------
(* Order.  What was written comes before what is deferred, and both in the *)
(* order of sending; a session that is authenticated, or waiting for its   *)
(* next event at a Public endpoint, has nothing deferred.                  *)
Increasing(s) == \A i, j \in 1 .. Len(s) : i < j => s[i] < s[j]

OrderInv ==
    /\ recvd \in Nat
    /\ pending \in Seq(1 .. recvd) /\ delivered \in Seq(1 .. recvd)
    /\ Increasing(pending) /\ Increasing(delivered)
    /\ \A i \in 1 .. Len(delivered), j \in 1 .. Len(pending) : delivered[i] < pending[j]
    /\ pc = "Select" /\ authed => pending = <<>>
    /\ mode = "Public" => pending = <<>>

(* Receiving one more command keeps the recorded positions valid. *)
LEMMA MoreReceived ==
    ASSUME NEW n \in Nat, NEW s \in Seq(1 .. n)
    PROVE  s \in Seq(1 .. n + 1)
  <1>1. 1 .. n \subseteq 1 .. n + 1
    OBVIOUS
  <1>2. QED
    BY <1>1, SeqMonotonic

LEMMA AppendLarger ==
    ASSUME NEW n \in Nat, NEW s \in Seq(1 .. n), Increasing(s),
           NEW x \in 1 .. n, \A i \in 1 .. Len(s) : s[i] < x
    PROVE  Append(s, x) \in Seq(1 .. n) /\ Increasing(Append(s, x))
  <1>1. /\ Append(s, x) \in Seq(1 .. n) /\ Len(Append(s, x)) = Len(s) + 1
        /\ Len(s) \in Nat /\ Append(s, x)[Len(s) + 1] = x
        /\ \A i \in 1 .. Len(s) : Append(s, x)[i] = s[i]
    OBVIOUS
  <1>2. ASSUME NEW i \in 1 .. Len(s) + 1, NEW j \in 1 .. Len(s) + 1, i < j
        PROVE  Append(s, x)[i] < Append(s, x)[j]
    <2>1. i \in 1 .. Len(s)
      BY <1>1, <1>2
    <2>2. CASE j = Len(s) + 1
      BY <1>1, <2>1, <2>2
    <2>3. CASE j \in 1 .. Len(s)
      BY <1>1, <1>2, <2>1, <2>3 DEF Increasing
    <2>4. QED
      BY <1>1, <2>2, <2>3
  <1>3. QED
    BY <1>1, <1>2, Zenon DEF Increasing

LEMMA OrderStep == GateInv /\ OrderInv /\ [Next]_vars => OrderInv'
  <1> SUFFICES ASSUME GateInv, OrderInv, [Next]_vars
               PROVE  OrderInv'
    OBVIOUS
  <1> USE DEF OrderInv, loopVars, handlerVars, connVars, ownerVars
  <1>0. /\ recvd + 1 \in Nat /\ recvd + 1 \in 1 .. recvd + 1
        /\ pending \in Seq(1 .. recvd + 1) /\ delivered \in Seq(1 .. recvd + 1)
    BY MoreReceived
  <1>1. CASE UNCHANGED <<pending, delivered, mode>> /\ recvd' \in {recvd, recvd + 1}
             /\ (pc' = "Select" /\ authed' => (pc = "Select" /\ authed) \/ pending = <<>>)
    BY <1>0, <1>1
  <1>2. CASE CommandDeferred
    <2>1. /\ recvd' = recvd + 1 /\ pending' = Append(pending, recvd + 1)
          /\ UNCHANGED <<delivered, mode, pc, authed>>
      BY <1>2 DEF CommandDeferred
    <2>2. \A i \in 1 .. Len(pending) : pending[i] < recvd + 1
      OBVIOUS
    <2>3. pending' \in Seq(1 .. recvd + 1) /\ Increasing(pending')
      BY <1>0, <2>1, <2>2, AppendLarger, Zenon
    <2>4. \A i \in 1 .. Len(delivered), j \in 1 .. Len(pending') : delivered[i] < pending'[j]
      BY <2>1
    <2>5. ~authed /\ mode # "Public"
      BY <1>2 DEF CommandDeferred, Defers, GateInv
    <2>6. QED
      BY <1>0, <2>1, <2>3, <2>4, <2>5, Zenon
  <1>3. CASE CommandApplied
    <2>1. /\ recvd' = recvd + 1 /\ delivered' = Append(delivered, recvd + 1)
          /\ UNCHANGED <<pending, mode, pc, authed>>
      BY <1>3 DEF CommandApplied, ApplyCommand
    <2>2. pending = <<>>
      BY <1>3 DEF CommandApplied, Defers, CommandRequiresAuth
    <2>3. \A i \in 1 .. Len(delivered) : delivered[i] < recvd + 1
      OBVIOUS
    <2>4. delivered' \in Seq(1 .. recvd + 1) /\ Increasing(delivered')
      BY <1>0, <2>1, <2>3, AppendLarger, Zenon
    <2>5. QED
      BY <1>0, <2>1, <2>2, <2>4
  <1>4. CASE PendingApplied \/ PendingFails
    <2>1. /\ pending # <<>> /\ pending' = Tail(pending) /\ recvd' = recvd /\ mode' = mode
          /\ pc' # "Select"
      BY <1>4, DisconnectFacts DEF PendingApplied, PendingFails
    <2>2. /\ Head(pending) \in 1 .. recvd /\ Head(pending) = pending[1]
          /\ Tail(pending) \in Seq(1 .. recvd) /\ Len(Tail(pending)) = Len(pending) - 1
          /\ \A i \in 1 .. Len(Tail(pending)) : Tail(pending)[i] = pending[i + 1]
      BY <2>1, HeadTailProperties
    <2>3. Len(pending) \in Nat /\ Len(pending) >= 1
      BY <2>1
    <2>4. Increasing(Tail(pending))
      BY <2>2, <2>3 DEF Increasing
    <2>5. \A j \in 1 .. Len(Tail(pending)) : Head(pending) < Tail(pending)[j]
      BY <2>2, <2>3 DEF Increasing
    <2>6. \A i \in 1 .. Len(delivered), j \in 1 .. Len(Tail(pending)) :
             delivered[i] < Tail(pending)[j]
      BY <2>2, <2>3
    <2>7. CASE delivered' = delivered
      BY <2>1, <2>2, <2>4, <2>6, <2>7
    <2>8. CASE delivered' = Append(delivered, Head(pending))
      <3>1. \A i \in 1 .. Len(delivered) : delivered[i] < Head(pending)
        BY <2>2, <2>3
      <3>2. delivered' \in Seq(1 .. recvd) /\ Increasing(delivered')
        BY <2>2, <2>8, <3>1, AppendLarger, Zenon
      <3>3. \A i \in 1 .. Len(delivered'), j \in 1 .. Len(Tail(pending)) :
               delivered'[i] < Tail(pending)[j]
        BY <2>2, <2>5, <2>6, <2>8
      <3>4. QED
        BY <2>1, <2>2, <2>4, <3>2, <3>3
    <2>9. QED
      BY <1>4, <2>7, <2>8 DEF PendingApplied, PendingFails, ApplyCommand
  <1>5. CASE BeginConnect \/ LoopAborts \/ DelayElapses \/ WaitInterrupted \/ WaitStops
    BY <1>1, <1>5 DEF BeginConnect, LoopAborts, DelayElapses, WaitInterrupted, WaitStops
  <1>6. CASE ConnectFails \/ OpenFails \/ SessionBreaks \/ CommandForcesReconnect \/ CommandFails
             \/ ReplayAfterAuthFails
    BY <1>1, <1>6, DisconnectFacts DEF ConnectFails, OpenFails, SessionBreaks,
        CommandForcesReconnect, CommandFails, ReplayAfterAuthFails
  <1>7. CASE ConnectSucceeds \/ AuthSent \/ ReplaySent
    BY <1>1, <1>7, Zenon DEF ConnectSucceeds, AuthSent, ReplaySent, StartSession, GateInv
  <1>8. CASE CommandStops \/ FrameStops
    BY <1>1, <1>8 DEF CommandStops, FrameStops, Stop
  <1>9. CASE SessionAuthenticated \/ FlushDone
    BY <1>1, <1>9 DEF SessionAuthenticated, FlushDone
  <1>10. CASE OwnerStep
    BY <1>1, <1>10 DEF OwnerStep, Issue, DropClones, DropSender, RequestShutdown,
        ShutdownReturns, DropSignals, DropAborts
  <1>11. CASE UNCHANGED vars \/ Finished
    BY <1>1, <1>11 DEF vars, Finished
  <1>12. QED
    BY <1>2, <1>3, <1>4, <1>5, <1>6, <1>7, <1>8, <1>9, <1>10, <1>11
       DEF Next, LoopStep, AttemptStep, ReceiveStep, FlushStep

LEMMA OrderInvariant == Spec => []OrderInv
  <1>1. Init => OrderInv
    BY DEF Init, OrderInv, Increasing
  <1>2. QED
    BY <1>1, OrderStep, GateInvariant, PTL DEF Spec

(* Commands are written in the order of sending, each at most once. *)
THEOREM CommandsStayInOrder == Spec => []InOrder
  <1>1. OrderInv => InOrder
    BY DEF OrderInv, InOrder, Increasing
  <1>2. QED
    BY <1>1, OrderInvariant, PTL

-----------------------------------------------------------------------------
(* The channel: commands are only appended, and received once. *)
ChannelInv == log \in Seq(Command) /\ recvd \in 0 .. Len(log)

Extends(old, new) ==
    /\ new \in Seq(Command) /\ Len(new) >= Len(old)
    /\ \A n \in 1 .. Len(old) : new[n] = old[n]

LEMMA ControlCommands == \A k \in {"Shutdown"} : Cmd(k) \in Command
  BY DEF Cmd, Command

LEMMA EnqueueExtends ==
    ASSUME ChannelInv, NEW c \in Command, Enqueue(c)
    PROVE  Extends(log, log')
  BY DEF ChannelInv, Enqueue, Extends

(* An owner's step extends the log and touches nothing of the loop. *)
LEMMA OwnerExtends ==
    ASSUME ChannelInv, OwnerStep
    PROVE  /\ Extends(log, log')
           /\ UNCHANGED <<loopVars, recvd, status, handlerVars, connVars, delivered>>
  <1>1. Cmd("Shutdown") \in Command
    BY ControlCommands
  <1>2. ASSUME NEW c \in Command, Issue(c)
        PROVE  Extends(log, log')
    BY <1>2, EnqueueExtends DEF Issue
  <1>3. RequestShutdown \/ ShutdownReturns \/ DropSignals => Extends(log, log')
    BY <1>1, EnqueueExtends DEF RequestShutdown, ShutdownReturns, DropSignals
  <1>4. UNCHANGED log => Extends(log, log')
    BY DEF Extends, ChannelInv
  <1>5. Extends(log, log')
    BY <1>2, <1>3, <1>4 DEF OwnerStep, DropClones, DropSender, DropAborts
  <1>6. QED
    BY <1>5, OwnerKeepsLoop

(* A step of the loop sends nothing and receives at most one command. *)
LEMMA LoopReceives ==
    ASSUME LoopStep
    PROVE  log' = log /\ (recvd' = recvd \/ (recvd' = recvd + 1 /\ recvd < Len(log)))
  <1>1. CASE AttemptStep \/ FlushStep
    BY <1>1 DEF AttemptStep, FlushStep, BeginConnect, ConnectFails, ConnectSucceeds, AuthSent,
        ReplaySent, OpenFails, PendingApplied, PendingFails, FlushDone
  <1>2. CASE ReceiveStep
    BY <1>2 DEF ReceiveStep, Receivable, CommandStops, CommandForcesReconnect, CommandDeferred,
        CommandApplied, CommandFails, WaitInterrupted, WaitStops
  <1>3. CASE SessionAuthenticated \/ ReplayAfterAuthFails \/ SessionBreaks \/ FrameStops
             \/ DelayElapses \/ LoopAborts
    BY <1>3 DEF SessionAuthenticated, ReplayAfterAuthFails, SessionBreaks, FrameStops,
        DelayElapses, LoopAborts
  <1>4. QED
    BY <1>1, <1>2, <1>3 DEF LoopStep

LEMMA ChannelStep ==
    ASSUME ChannelInv, [Next]_vars
    PROVE  ChannelInv'
  <1>1. CASE LoopStep
    BY <1>1, LoopReceives DEF ChannelInv
  <1>2. CASE OwnerStep
    <2>1. Extends(log, log') /\ recvd' = recvd
      BY <1>2, OwnerExtends
    <2>2. Len(log) \in Nat /\ Len(log') \in Nat /\ Len(log) =< Len(log') /\ log' \in Seq(Command)
      BY <2>1 DEF ChannelInv, Extends
    <2>3. QED
      BY <2>1, <2>2 DEF ChannelInv
  <1>3. CASE UNCHANGED vars \/ Finished
    BY <1>3 DEF vars, Finished, ChannelInv
  <1>4. QED
    BY <1>1, <1>2, <1>3 DEF Next

LEMMA ChannelInvariant == Spec => []ChannelInv
  <1>1. Init => ChannelInv
    BY DEF Init, ChannelInv
  <1>2. QED
    BY <1>1, ChannelStep, PTL DEF Spec

-----------------------------------------------------------------------------
(* Stopping.  Where the loop receives a command it goes on unless that was *)
(* a Shutdown, and none of its steps runs after its end.                   *)
LEMMA ShutdownReceivedEnds ==
    ASSUME LoopStep, recvd' = recvd + 1, recvd \in Nat, NextCommand.kind = "Shutdown"
    PROVE  Ended'
  <1>1. ReceiveStep
    <2>1. recvd' # recvd
      OBVIOUS
    <2>2. ~AttemptStep
      BY <2>1 DEF AttemptStep, BeginConnect, ConnectFails, ConnectSucceeds, AuthSent, ReplaySent,
         OpenFails
    <2>3. ~FlushStep
      BY <2>1 DEF FlushStep, PendingApplied, PendingFails, FlushDone
    <2>4. ~SessionAuthenticated /\ ~ReplayAfterAuthFails /\ ~SessionBreaks /\ ~FrameStops
      BY <2>1 DEF SessionAuthenticated, ReplayAfterAuthFails, SessionBreaks, FrameStops
    <2>5. ~DelayElapses /\ ~LoopAborts
      BY <2>1 DEF DelayElapses, LoopAborts
    <2>6. QED
      BY <2>2, <2>3, <2>4, <2>5, Zenon DEF LoopStep
  <1>2. CommandStops \/ WaitStops
    BY <1>1 DEF ReceiveStep, CommandForcesReconnect, CommandDeferred, CommandApplied, CommandFails,
       WaitInterrupted, Defers, CommandRequiresAuth
  <1>3. QED
    BY <1>2 DEF CommandStops, WaitStops, Stop, Ended

LEMMA LoopStopsAtItsEnd ==
    ASSUME LoopStep
    PROVE  ~Ended /\ UNCHANGED ownerVars
  <1>1. CASE AttemptStep \/ FlushStep
    BY <1>1 DEF AttemptStep, FlushStep, BeginConnect, ConnectFails, ConnectSucceeds, AuthSent,
        ReplaySent, OpenFails, PendingApplied, PendingFails, FlushDone, Ended
  <1>2. CASE ReceiveStep
    BY <1>2 DEF ReceiveStep, CommandStops, CommandForcesReconnect, CommandDeferred,
        CommandApplied, CommandFails, WaitInterrupted, WaitStops, Ended
  <1>3. CASE SessionAuthenticated \/ ReplayAfterAuthFails \/ SessionBreaks \/ FrameStops
             \/ DelayElapses \/ LoopAborts
    BY <1>3 DEF SessionAuthenticated, ReplayAfterAuthFails, SessionBreaks, FrameStops,
        DelayElapses, LoopAborts, Ended
  <1>4. QED
    BY <1>1, <1>2, <1>3 DEF LoopStep

(* The owners give senders up, and only Drop's own abort ends its dropping. *)
LEMMA OwnersOnlyLetGo ==
    ASSUME OwnerStep
    PROVE  /\ SendersGone => SendersGone'
           /\ handle = "dropping" \/ taskAbort => (handle = "dropping" \/ taskAbort)'
  BY DEF OwnerStep, Issue, DropClones, DropSender, RequestShutdown, ShutdownReturns, DropSignals,
     DropAborts, SendersGone, ownerVars

(* Whatever else happens, a request to stop stands until the loop has ended. *)
THEOREM StopsAreKept == Spec => StopIsKept
  <1> DEFINE Kept(n) == \/ Ended'
                        \/ n \in recvd' + 1 .. Len(log') /\ log'[n] = log[n]
  <1>1. ASSUME ChannelInv, [Next]_vars
        PROVE  /\ \A n \in recvd + 1 .. Len(log) : log[n].kind = "Shutdown" => Kept(n)
               /\ recvd =< recvd'
               /\ SendersGone => SendersGone'
               /\ handle = "dropping" \/ taskAbort => (handle = "dropping" \/ taskAbort)'
               /\ Ended => Ended'
    <2>1. log \in Seq(Command) /\ recvd \in Nat /\ Len(log) \in Nat
      BY <1>1 DEF ChannelInv
    <2>2. CASE LoopStep
      <3>1. log' = log /\ recvd' \in {recvd, recvd + 1}
        BY <2>2, LoopReceives
      <3>2. ~Ended /\ UNCHANGED ownerVars
        BY <2>2, LoopStopsAtItsEnd
      <3>3. ASSUME NEW n \in recvd + 1 .. Len(log), log[n].kind = "Shutdown"
            PROVE  Kept(n)
        <4>1. CASE recvd' = recvd
          BY <2>1, <3>1, <4>1
        <4>2. CASE recvd' = recvd + 1 /\ n # recvd + 1
          BY <2>1, <3>1, <4>2
        <4>3. CASE recvd' = recvd + 1 /\ n = recvd + 1
          BY <2>1, <2>2, <3>3, <4>3, ShutdownReceivedEnds DEF NextCommand
        <4>4. QED
          BY <3>1, <4>1, <4>2, <4>3
      <3>4. recvd =< recvd'
        BY <2>1, <3>1
      <3>5. QED
        BY <3>2, <3>3, <3>4 DEF ownerVars, SendersGone
    <2>3. CASE OwnerStep
      <3>1. Extends(log, log') /\ recvd' = recvd /\ pc' = pc
        BY <1>1, <2>3, OwnerExtends DEF loopVars
      <3>2. ASSUME NEW n \in recvd + 1 .. Len(log)
            PROVE  Kept(n)
        <4>1. Len(log') \in Nat /\ Len(log) =< Len(log') /\ (n \in 1 .. Len(log) => log'[n] = log[n])
          BY <3>1 DEF Extends
        <4>2. QED
          BY <2>1, <3>1, <4>1
      <3>3. QED
        BY <2>1, <2>3, <3>1, <3>2, OwnersOnlyLetGo DEF Ended
    <2>4. CASE UNCHANGED vars \/ Finished
      <3>1. UNCHANGED vars
        BY <2>4 DEF Finished
      <3>2. QED
        BY <2>1, <3>1 DEF vars, loopVars, ownerVars, SendersGone, Ended
    <2>5. QED
      BY <1>1, <2>2, <2>3, <2>4 DEF Next
  <1>2. QED
    BY <1>1, ChannelInvariant, PTL DEF Spec, StopIsKept

-----------------------------------------------------------------------------
(* Losses.  Only the last step of a received command decides about it:     *)
(* these are the ways a step can change what is received, deferred and     *)
(* written.                                                                *)
LEMMA RangeOfAppend ==
    ASSUME NEW S, NEW s \in Seq(S), NEW x \in S
    PROVE  Range(Append(s, x)) = Range(s) \cup {x}
  <1>1. /\ DOMAIN s = 1 .. Len(s) /\ DOMAIN Append(s, x) = 1 .. Len(s) + 1 /\ Len(s) \in Nat
        /\ Append(s, x)[Len(s) + 1] = x
        /\ \A i \in 1 .. Len(s) : Append(s, x)[i] = s[i]
    OBVIOUS
  <1>2. ASSUME NEW y \in Range(Append(s, x))
        PROVE  y \in Range(s) \cup {x}
    BY <1>1, <1>2 DEF Range
  <1>3. ASSUME NEW y \in Range(s) \cup {x}
        PROVE  y \in Range(Append(s, x))
    BY <1>1, <1>3 DEF Range
  <1>4. QED
    BY <1>2, <1>3

LEMMA RangeOfTail ==
    ASSUME NEW n \in Nat, NEW s \in Seq(1 .. n), s # <<>>, Increasing(s)
    PROVE  /\ Head(s) \in 1 .. n
           /\ Range(s) = Range(Tail(s)) \cup {Head(s)}
           /\ Head(s) \notin Range(Tail(s))
  <1>1. /\ Head(s) \in 1 .. n /\ Tail(s) \in Seq(1 .. n) /\ Len(Tail(s)) = Len(s) - 1
        /\ \A i \in 1 .. Len(Tail(s)) : Tail(s)[i] = s[i + 1]
    BY HeadTailProperties
  <1>2. /\ Len(s) \in Nat /\ Len(s) >= 1 /\ Head(s) = s[1]
        /\ DOMAIN s = 1 .. Len(s) /\ DOMAIN Tail(s) = 1 .. Len(s) - 1
    BY <1>1
  <1>3. ASSUME NEW y \in Range(s)
        PROVE  y \in Range(Tail(s)) \cup {Head(s)}
    <2>1. PICK i \in 1 .. Len(s) : y = s[i]
      BY <1>2, <1>3 DEF Range
    <2>2. CASE i = 1
      BY <1>2, <2>1, <2>2
    <2>3. CASE i > 1
      <3>1. i - 1 \in 1 .. Len(s) - 1 /\ Tail(s)[i - 1] = y
        BY <1>1, <1>2, <2>1, <2>3
      <3>2. QED
        BY <1>2, <3>1, Zenon DEF Range
    <2>4. QED
      BY <1>2, <2>2, <2>3
  <1>4. ASSUME NEW y \in Range(Tail(s))
        PROVE  y \in Range(s) /\ y # Head(s)
    <2>1. PICK i \in 1 .. Len(s) - 1 : y = s[i + 1]
      BY <1>1, <1>2, <1>4 DEF Range
    <2>2. i + 1 \in 1 .. Len(s) /\ 1 \in 1 .. Len(s) /\ 1 < i + 1
      BY <1>2, <2>1
    <2>3. s[1] < s[i + 1] /\ s[1] \in Nat /\ s[i + 1] \in Nat
      BY <1>2, <2>2 DEF Increasing
    <2>4. QED
      BY <1>2, <2>1, <2>2, <2>3 DEF Range
  <1>5. Head(s) \in Range(s)
    BY <1>2 DEF Range
  <1>6. QED
    BY <1>1, <1>3, <1>4, <1>5

Recorded == Range(pending) \cup Range(delivered)

LEMMA RecordedWasReceived ==
    ASSUME OrderInv
    PROVE  Recorded \subseteq 1 .. recvd
  BY DEF OrderInv, Recorded, Range

(* Receiving one more command adds its position to those received. *)
LEMMA OneMore == \A n \in Nat : 1 .. n + 1 = 1 .. n \cup {n + 1}
  OBVIOUS

(* When nothing is lost, and when exactly one command is. *)
LEMMA NoLoss ==
    ASSUME ChannelInv, Extends(log, log'), recvd' = recvd, Recorded' = Recorded
    PROVE  Lost' = Lost
  <1>1. \A n \in 1 .. recvd : log'[n] = log[n]
    BY DEF ChannelInv, Extends
  <1>2. QED
    BY <1>1 DEF Lost, Recorded

LEMMA ReceivedAndKept ==
    ASSUME ChannelInv, OrderInv, log' = log, recvd' = recvd + 1, recvd < Len(log),
           \/ Recorded' = Recorded \cup {recvd + 1}
           \/ Recorded' = Recorded /\ NextCommand.kind \notin {"Send", "Update"}
    PROVE  Lost' = Lost
  <1>r. recvd \in Nat
    BY DEF OrderInv
  <1>1. recvd \in Nat /\ 1 .. recvd + 1 = 1 .. recvd \cup {recvd + 1}
    BY <1>r, OneMore
  <1>2. recvd + 1 \notin 1 .. recvd
    BY <1>1
  <1>3. QED
    BY <1>1, <1>2 DEF Lost, Recorded, NextCommand

LEMMA ReceivedAndLost ==
    ASSUME ChannelInv, OrderInv, log' = log, recvd' = recvd + 1, recvd < Len(log),
           Recorded' = Recorded, NextCommand.kind \in {"Send", "Update"}
    PROVE  Lost' = Lost \cup {recvd'}
  <1>r. recvd \in Nat
    BY DEF OrderInv
  <1>1. recvd \in Nat /\ 1 .. recvd + 1 = 1 .. recvd \cup {recvd + 1}
    BY <1>r, OneMore
  <1>2. recvd + 1 \notin Recorded
    BY <1>1, RecordedWasReceived
  <1>3. QED
    BY <1>1, <1>2 DEF Lost, Recorded, NextCommand

(* Losses of one step: the body of LossIsAccounted. *)
Accounted ==
    Lost' # Lost =>
      /\ pc = "Waiting" \/ status' = "Disconnected"
      /\ \E n \in {recvd'} \cup (IF pending = <<>> THEN {} ELSE {Head(pending)}) :
           Lost' = Lost \cup {n}

LEMMA LossStep ==
    ASSUME ChannelInv, OrderInv, [Next]_vars
    PROVE  Accounted
  <1> USE DEF loopVars, handlerVars, connVars, ownerVars
  <1>0. UNCHANGED log => Extends(log, log')
    BY DEF Extends, ChannelInv
  <1>1. CASE UNCHANGED <<recvd, pending, delivered>> /\ Extends(log, log')
    <2>1. Recorded' = Recorded
      BY <1>1 DEF Recorded
    <2>2. QED
      BY <1>1, <2>1, NoLoss DEF Accounted
  <1>2. CASE OwnerStep
    BY <1>1, <1>2, OwnerExtends
  <1>3. CASE UNCHANGED vars \/ Finished
    BY <1>0, <1>1, <1>3 DEF vars, Finished
  <1>4. CASE AttemptStep \/ FlushDone \/ SessionAuthenticated \/ ReplayAfterAuthFails
             \/ SessionBreaks \/ FrameStops \/ DelayElapses \/ LoopAborts
    <2>1. UNCHANGED <<log, recvd, pending, delivered>>
      BY <1>4, Zenon DEF AttemptStep, BeginConnect, ConnectFails, ConnectSucceeds, AuthSent, ReplaySent,
          OpenFails, FlushDone, SessionAuthenticated, ReplayAfterAuthFails, SessionBreaks,
          FrameStops, DelayElapses, LoopAborts
    <2>2. QED
      BY <1>0, <1>1, <2>1
  <1>5. CASE CommandStops \/ WaitStops \/ CommandForcesReconnect
    <2>1. UNCHANGED <<log, pending, delivered>> /\ Recorded' = Recorded
      BY <1>5 DEF CommandStops, WaitStops, CommandForcesReconnect, Recorded
    <2>2. \/ recvd' = recvd
          \/ /\ recvd' = recvd + 1 /\ recvd < Len(log)
             /\ NextCommand.kind \notin {"Send", "Update"}
      BY <1>5 DEF CommandStops, WaitStops, CommandForcesReconnect, Receivable
    <2>3. Lost' = Lost
      BY <1>0, <2>1, <2>2, NoLoss, ReceivedAndKept
    <2>4. QED
      BY <2>3 DEF Accounted
  <1>6. CASE WaitInterrupted \/ CommandFails
    <2>1. /\ UNCHANGED <<log, pending, delivered>> /\ Recorded' = Recorded
          /\ recvd' = recvd + 1 /\ recvd < Len(log)
      BY <1>6 DEF WaitInterrupted, CommandFails, Receivable, Recorded
    <2>2. pc = "Waiting" \/ status' = "Disconnected"
      BY <1>6, DisconnectFacts DEF WaitInterrupted, CommandFails
    <2>3. Lost' = Lost \/ Lost' = Lost \cup {recvd'}
      BY <2>1, ReceivedAndKept, ReceivedAndLost
    <2>4. QED
      BY <2>2, <2>3 DEF Accounted
  <1>7. CASE CommandDeferred
    <2>1. /\ log' = log /\ recvd' = recvd + 1 /\ recvd < Len(log) /\ delivered' = delivered
          /\ pending' = Append(pending, recvd + 1)
      BY <1>7 DEF CommandDeferred, Receivable
    <2>2. recvd + 1 \in Nat /\ pending \in Seq(Nat)
      BY SeqMonotonic DEF OrderInv
    <2>3. Range(pending') = Range(pending) \cup {recvd + 1}
      BY <2>1, <2>2, RangeOfAppend
    <2>4. Recorded' = Recorded \cup {recvd + 1}
      BY <2>1, <2>3 DEF Recorded
    <2>5. QED
      BY <2>1, <2>4, ReceivedAndKept DEF Accounted
  <1>8. CASE CommandApplied
    <2>1. /\ log' = log /\ recvd' = recvd + 1 /\ recvd < Len(log) /\ pending' = pending
          /\ delivered' = Append(delivered, recvd + 1)
      BY <1>8 DEF CommandApplied, ApplyCommand, Receivable
    <2>2. recvd + 1 \in Nat /\ delivered \in Seq(Nat)
      BY SeqMonotonic DEF OrderInv
    <2>3. Range(delivered') = Range(delivered) \cup {recvd + 1}
      BY <2>1, <2>2, RangeOfAppend
    <2>4. Recorded' = Recorded \cup {recvd + 1}
      BY <2>1, <2>3 DEF Recorded
    <2>5. QED
      BY <2>1, <2>4, ReceivedAndKept DEF Accounted
  <1>9. CASE PendingApplied
    <2>1. /\ log' = log /\ recvd' = recvd /\ pending # <<>> /\ pending' = Tail(pending)
          /\ delivered' = Append(delivered, Head(pending))
      BY <1>9 DEF PendingApplied, ApplyCommand
    <2>2. /\ Head(pending) \in 1 .. recvd
          /\ Range(pending) = Range(pending') \cup {Head(pending)}
      BY <2>1, RangeOfTail DEF OrderInv
    <2>3. Range(delivered') = Range(delivered) \cup {Head(pending)}
      BY <2>1, <2>2, RangeOfAppend DEF OrderInv
    <2>4. Recorded' = Recorded
      BY <2>2, <2>3 DEF Recorded
    <2>5. QED
      BY <1>0, <2>1, <2>4, NoLoss DEF Accounted
  <1>10. CASE PendingFails
    <2>1. /\ log' = log /\ recvd' = recvd /\ pending # <<>> /\ pending' = Tail(pending)
          /\ delivered' = delivered /\ status' = "Disconnected"
      BY <1>10, DisconnectFacts DEF PendingFails
    <2>2. /\ Head(pending) \in 1 .. recvd
          /\ Range(pending) = Range(pending') \cup {Head(pending)}
          /\ Head(pending) \notin Range(pending')
      BY <2>1, RangeOfTail DEF OrderInv
    <2>3. Head(pending) \notin Range(delivered)
      <3>1. Len(pending) \in Nat /\ 1 \in 1 .. Len(pending) /\ Head(pending) = pending[1]
        BY <2>1 DEF OrderInv
      <3>2. \A i \in 1 .. Len(delivered) : delivered[i] < Head(pending) /\ delivered[i] \in Nat
        BY <3>1 DEF OrderInv
      <3>3. DOMAIN delivered = 1 .. Len(delivered) /\ Head(pending) \in Nat
        BY <2>2 DEF OrderInv
      <3>4. QED
        BY <3>2, <3>3 DEF Range
    <2>4. Lost' = Lost \cup {Head(pending)} \/ Lost' = Lost
      <3>1. CASE log[Head(pending)].kind \in {"Send", "Update"}
        BY <2>1, <2>2, <2>3, <3>1 DEF Lost
      <3>2. CASE log[Head(pending)].kind \notin {"Send", "Update"}
        BY <2>1, <2>2, <2>3, <3>2 DEF Lost
      <3>3. QED
        BY <3>1, <3>2
    <2>5. QED
      BY <2>1, <2>4, Zenon DEF Accounted
  <1>11. QED
    BY <1>2, <1>3, <1>4, <1>5, <1>6, <1>7, <1>8, <1>9, <1>10
       DEF Next, LoopStep, ReceiveStep, FlushStep

(* A command is lost only to a wait or a breaking connection, one at a time. *)
THEOREM LossesAreAccounted == Spec => LossIsAccounted
  <1>1. ChannelInv /\ OrderInv /\ [Next]_vars => [Accounted]_vars
    BY LossStep
  <1>2. QED
    BY <1>1, ChannelInvariant, OrderInvariant, PTL DEF Spec, LossIsAccounted, Accounted

-----------------------------------------------------------------------------
(* Types. *)
NamesInv ==
    /\ pc \in {"Spawned", "Top", "Connecting", "AuthSend", "Replay", "Select", "Flush",
               "Waiting", "Returned", "Aborted"}
    /\ status \in {"Connecting", "Connected", "Disconnected"}
    /\ desired \subseteq Subs /\ live \subseteq Subs
    /\ written \subseteq {"auth", "subscription", "command"}
    /\ replays \in Nat
    /\ handle \in {"held", "sender", "waiting", "dropping", "gone"}

LEMMA UpdatesStayInSubs ==
    ASSUME ChannelInv, NEW n \in 1 .. Len(log)
    PROVE  log[n].to \subseteq Subs
  <1>1. log[n] \in Command
    BY DEF ChannelInv
  <1>2. QED
    BY <1>1 DEF Command

LEMMA NamesStep == ChannelInv /\ OrderInv /\ NamesInv /\ [Next]_vars => NamesInv'
  <1> SUFFICES ASSUME ChannelInv, OrderInv, NamesInv, [Next]_vars
               PROVE  NamesInv'
    OBVIOUS
  <1> USE DEF NamesInv, loopVars, handlerVars, connVars, ownerVars
  <1>0. ASSUME NEW n \in 1 .. Len(log)
        PROVE  /\ ApplyCommand(n) => /\ desired' \subseteq Subs /\ live' \subseteq Subs
                                     /\ written' \subseteq {"auth", "subscription", "command"}
               /\ ApplyFails(n) => desired' \subseteq Subs
    BY <1>0, UpdatesStayInSubs, Zenon DEF ApplyCommand, ApplyFails
  <1>w. \A k \in {"auth", "subscription", "command"} :
          written \cup {k} \subseteq {"auth", "subscription", "command"}
    OBVIOUS
  <1>1. CASE BeginConnect \/ LoopAborts \/ DelayElapses \/ WaitInterrupted \/ WaitStops
    BY <1>1, Zenon DEF BeginConnect, LoopAborts, DelayElapses, WaitInterrupted, WaitStops
  <1>2. CASE ConnectFails \/ OpenFails \/ SessionBreaks \/ CommandForcesReconnect
             \/ ReplayAfterAuthFails
    BY <1>2, DisconnectFacts, Zenon DEF ConnectFails, OpenFails, SessionBreaks, CommandForcesReconnect,
        ReplayAfterAuthFails
  <1>3. CASE ConnectSucceeds \/ AuthSent
    <2>1. written' \subseteq {"auth", "subscription", "command"}
      BY <1>w, <1>3 DEF ConnectSucceeds, AuthSent
    <2>2. pc' \in {"AuthSend", "Replay", "Select"}
      BY <1>3 DEF ConnectSucceeds, AuthSent, StartSession
    <2>3. UNCHANGED <<desired, handle>>
      BY <1>3 DEF ConnectSucceeds, AuthSent
    <2>4. /\ status' \in {"Connected", status} /\ live' \in {{}, live}
          /\ replays' \in {0, replays}
      BY <1>3, Zenon DEF ConnectSucceeds, AuthSent
    <2>5. QED
      BY <2>1, <2>2, <2>3, <2>4
  <1>r. CASE ReplaySent \/ SessionAuthenticated
    <2>1. live' \subseteq Subs
      BY <1>r DEF ReplaySent, SessionAuthenticated, Replay
    <2>2. written' \subseteq {"auth", "subscription", "command"} /\ replays' \in Nat
      BY <1>w, <1>r DEF ReplaySent, SessionAuthenticated, Replay
    <2>3. QED
      BY <1>r, <2>1, <2>2 DEF ReplaySent, SessionAuthenticated
  <1>4. CASE CommandStops \/ FrameStops \/ CommandDeferred \/ FlushDone
    BY <1>4, Zenon DEF CommandStops, FrameStops, Stop, CommandDeferred, FlushDone
  <1>5. CASE CommandApplied \/ CommandFails
    <2>1. recvd + 1 \in 1 .. Len(log)
      BY <1>5 DEF CommandApplied, CommandFails, Receivable, ChannelInv
    <2>2. QED
      BY <1>0, <1>5, <2>1, DisconnectFacts, Zenon DEF CommandApplied, CommandFails
  <1>6. CASE PendingApplied \/ PendingFails
    <2>1. Head(pending) \in 1 .. Len(log)
      BY <1>6 DEF PendingApplied, PendingFails, ChannelInv, OrderInv
    <2>2. QED
      BY <1>0, <1>6, <2>1, DisconnectFacts, Zenon DEF PendingApplied, PendingFails
  <1>7. CASE OwnerStep
    BY <1>7, Zenon DEF OwnerStep, Issue, DropClones, DropSender, RequestShutdown, ShutdownReturns,
        DropSignals, DropAborts
  <1>8. CASE UNCHANGED vars \/ Finished
    BY <1>8, Zenon DEF vars, Finished
  <1>9. QED
    BY <1>1, <1>2, <1>3, <1>r, <1>4, <1>5, <1>6, <1>7, <1>8
       DEF Next, LoopStep, AttemptStep, ReceiveStep, FlushStep

FlagsInv ==
    /\ authed \in BOOLEAN /\ isReconnect \in BOOLEAN /\ open \in BOOLEAN /\ notified \in BOOLEAN
    /\ granted \in BOOLEAN /\ clones \in BOOLEAN /\ taskAbort \in BOOLEAN

LEMMA FlagsStep == FlagsInv /\ [Next]_vars => FlagsInv'
  <1> SUFFICES ASSUME FlagsInv, [Next]_vars
               PROVE  FlagsInv'
    OBVIOUS
  <1> USE DEF FlagsInv, loopVars, handlerVars, connVars, ownerVars
  <1>1. Disconnect => isReconnect' \in BOOLEAN /\ open' \in BOOLEAN /\ notified' \in BOOLEAN
    BY Zenon DEF Disconnect
  <1>2. StartSession => authed' \in BOOLEAN
    BY DEF StartSession
  <1>3. CASE ConnectFails \/ OpenFails \/ SessionBreaks \/ CommandForcesReconnect \/ CommandFails
             \/ PendingFails \/ ReplayAfterAuthFails
    BY <1>1, <1>3, Zenon DEF ConnectFails, OpenFails, SessionBreaks, CommandForcesReconnect,
        CommandFails, PendingFails, ReplayAfterAuthFails
  <1>4. CASE ConnectSucceeds \/ AuthSent
    BY <1>2, <1>4, Zenon DEF ConnectSucceeds, AuthSent
  <1>5. CASE BeginConnect \/ ReplaySent \/ DelayElapses \/ WaitInterrupted \/ WaitStops
             \/ LoopAborts
    BY <1>5, Zenon DEF BeginConnect, ReplaySent, DelayElapses, WaitInterrupted, WaitStops, LoopAborts
  <1>6. CASE CommandStops \/ FrameStops \/ CommandDeferred \/ CommandApplied
    BY <1>6 DEF CommandStops, FrameStops, CommandDeferred, CommandApplied
  <1>7. CASE SessionAuthenticated \/ PendingApplied \/ FlushDone
    BY <1>7, Zenon DEF SessionAuthenticated, PendingApplied, FlushDone
  <1>8. CASE OwnerStep
    BY <1>8, Zenon DEF OwnerStep, Issue, DropClones, DropSender, RequestShutdown, ShutdownReturns,
        DropSignals, DropAborts
  <1>9. CASE UNCHANGED vars \/ Finished
    BY <1>9 DEF vars, Finished
  <1>10. QED
    BY <1>3, <1>4, <1>5, <1>6, <1>7, <1>8, <1>9
       DEF Next, LoopStep, AttemptStep, ReceiveStep, FlushStep

(* Type correctness of the client. *)
THEOREM TypeCorrect == Spec => []TypeOK
  <1>0. Init => NamesInv
    BY DEF Init, NamesInv
  <1>1. Init => FlagsInv
    BY Zenon DEF Init, FlagsInv
  <1>2. GateInv /\ ChannelInv /\ OrderInv /\ NamesInv /\ FlagsInv => TypeOK
    <2> SUFFICES ASSUME GateInv, ChannelInv, OrderInv, NamesInv, FlagsInv
                 PROVE  TypeOK
      OBVIOUS
    <2>1. /\ log \in Seq(Command) /\ recvd \in 0 .. Len(log)
          /\ pending \in Seq(1 .. recvd) /\ delivered \in Seq(1 .. recvd) /\ mode \in Modes
      BY DEF ChannelInv, OrderInv, GateInv
    <2>2. {authed, isReconnect, open, notified, granted, clones, taskAbort} \subseteq BOOLEAN
      BY Zenon DEF FlagsInv
    <2>3. QED
      BY <2>1, <2>2, Zenon DEF TypeOK, NamesInv
  <1>3. QED
    BY <1>0, <1>1, <1>2, NamesStep, FlagsStep, GateInvariant, ChannelInvariant, OrderInvariant, PTL
       DEF Spec

-----------------------------------------------------------------------------
(* The health-checked loop *)

(* The health-checked loop ends an attempt or a session as the managed one  *)
(* does.                                                                    *)
LEMMA EndIsDisconnect ==
    ASSUME NEW session, HealthEnds(session)
    PROVE  Disconnect
  BY Zenon DEF HealthEnds, Disconnect

(* Actions of the two loops side by side. *)

LEMMA OpeningIsAttempt == OpeningStep => AttemptStep
  <1>1. HealthBeginConnect => BeginConnect
    BY DEF HealthBeginConnect, BeginConnect
  <1>2. HealthOpenFails => ConnectFails \/ OpenFails
    BY EndIsDisconnect, Zenon DEF HealthOpenFails, ConnectFails, OpenFails, HealthEnds
  <1>3. HealthStarts => StartSession
    BY Zenon DEF HealthStarts, StartSession
  <1>4. HealthConnectSucceeds => ConnectSucceeds
    BY <1>3 DEF HealthConnectSucceeds, ConnectSucceeds
  <1>5. HealthAuthSent => AuthSent
    BY <1>3 DEF HealthAuthSent, AuthSent
  <1>6. HealthReplaySent => ReplaySent
    BY DEF HealthReplaySent, ReplaySent
  <1>7. QED
    BY <1>1, <1>2, <1>4, <1>5, <1>6 DEF OpeningStep, AttemptStep

(* A received command that is neither a stop nor a reconnect. *)
LEMMA WhatIsLeft ==
    ASSUME ChannelInv, Receivable
    PROVE  /\ NextCommand.kind \notin {"Shutdown", "ForceReconnect"}
                => NextCommand.kind \in {"Send", "Update"}
           /\ CommandRequiresAuth(NextCommand) <=> NextCommand.kind \in {"Send", "Update"}
  <1>1. NextCommand \in Command
    BY DEF ChannelInv, Receivable, NextCommand
  <1>2. QED
    BY <1>1 DEF Command, CommandRequiresAuth

LEMMA CommandIsReceive == ChannelInv /\ CommandStep => ReceiveStep
  <1> SUFFICES ASSUME ChannelInv, CommandStep PROVE ReceiveStep
    OBVIOUS
  <1> USE DEF HealthReceives, ReceiveStep
  <1>1. CASE HealthCommandStops
    BY <1>1 DEF HealthCommandStops, CommandStops, Stop
  <1>2. CASE HealthCommandReconnects
    BY <1>2, EndIsDisconnect, Zenon DEF HealthCommandReconnects, CommandForcesReconnect, HealthEnds
  <1>3. CASE HealthCommandDeferred
    BY <1>3 DEF HealthCommandDeferred, CommandDeferred, Defers
  <1>4. CASE HealthCommandApplied
    BY <1>4, WhatIsLeft DEF HealthCommandApplied, HealthApplies, CommandApplied, Defers
  <1>5. CASE HealthCommandFails
    BY <1>5, WhatIsLeft, EndIsDisconnect, Zenon
       DEF HealthCommandFails, HealthApplies, CommandFails, Defers, HealthEnds
  <1>6. QED
    BY <1>1, <1>2, <1>3, <1>4, <1>5 DEF CommandStep

LEMMA FrameIsLoopStep == FrameStep => LoopStep \/ UNCHANGED vars
  <1> SUFFICES ASSUME FrameStep PROVE LoopStep \/ UNCHANGED vars
    OBVIOUS
  <1> USE DEF HealthFrame, LoopStep, FlushStep
  <1>1. CASE HealthAuthenticated
    BY <1>1 DEF HealthAuthenticated, SessionAuthenticated
  <1>2. CASE HealthReplayAfterAuthFails
    BY <1>2, EndIsDisconnect, Zenon DEF HealthReplayAfterAuthFails, ReplayAfterAuthFails, HealthEnds
  <1>3. CASE HealthPendingApplied
    BY <1>3 DEF HealthPendingApplied, PendingApplied
  <1>4. CASE HealthPendingFails
    BY <1>4, EndIsDisconnect, Zenon DEF HealthPendingFails, PendingFails, HealthEnds
  <1>5. CASE HealthFlushDone
    BY <1>5 DEF HealthFlushDone, FlushDone
  <1>6. CASE HealthFrameHandled \/ PongReceived
    BY <1>6 DEF HealthFrameHandled, PongReceived
  <1>7. CASE HealthFrameStops
    BY <1>7 DEF HealthFrameStops, FrameStops, Stop
  <1>8. CASE HealthSessionBreaks
    BY <1>8, EndIsDisconnect, Zenon DEF HealthSessionBreaks, SessionBreaks, HealthEnds
  <1>9. QED
    BY <1>1, <1>2, <1>3, <1>4, <1>5, <1>6, <1>7, <1>8 DEF FrameStep

LEMMA PingIsBreak == PingStep => SessionBreaks \/ UNCHANGED vars
  <1>1. PingFindsStale => SessionBreaks
    BY EndIsDisconnect, Zenon DEF PingFindsStale, SessionBreaks, HealthEnds
  <1>2. PingFails => SessionBreaks
    BY EndIsDisconnect, Zenon DEF PingFails, SessionBreaks, HealthEnds
  <1>3. ASSUME NEW d \in 0 .. MaxStall, PingSent(d) PROVE UNCHANGED vars
    BY <1>3 DEF PingSent
  <1>4. QED
    BY <1>1, <1>2, <1>3 DEF PingStep

LEMMA WaitIsWait ==
    /\ HealthWaitOver => DelayElapses \/ WaitInterrupted
    /\ HealthWaitStops => WaitStops
  BY DEF HealthWaitOver, HealthWaitStops, DelayElapses, WaitInterrupted, WaitStops

(* Every step of the health-checked loop is one of the plain loop, or none. *)
LEMMA HealthStepIsLoopStep ==
    ASSUME ChannelInv, [HealthNext]_<<vars, healthVars>>
    PROVE  [Next]_vars
  <1>1. CASE OpeningStep \/ CommandStep \/ FrameStep
    BY <1>1, OpeningIsAttempt, CommandIsReceive, FrameIsLoopStep, Zenon DEF Next, LoopStep
  <1>2. CASE PingStep \/ HealthWaitOver \/ HealthWaitStops
    BY <1>2, PingIsBreak, WaitIsWait, Zenon DEF Next, LoopStep, ReceiveStep
  <1>3. CASE HealthOwner \/ (Finished /\ UNCHANGED healthVars)
    BY <1>3 DEF HealthOwner, Next, LoopStep
  <1>4. CASE TimePasses
    BY <1>4 DEF TimePasses
  <1>5. QED
    BY <1>1, <1>2, <1>3, <1>4, Zenon DEF HealthNext

(* The health-checked loop implements the plain managed loop, so monitoring *)
(* a connection changes nothing that ManagedClient promises.                *)
THEOREM HealthImplementsLoop == HealthSpec => ImplementsManagedLoop
  <1>1. HealthInit => Init /\ ChannelInv
    BY DEF HealthInit, Init, ChannelInv
  <1>2. ChannelInv /\ [HealthNext]_<<vars, healthVars>> => [Next]_vars /\ ChannelInv'
    BY HealthStepIsLoopStep, ChannelStep
  <1>3. QED
    BY <1>1, <1>2, PTL DEF HealthSpec, Spec, ImplementsManagedLoop

-----------------------------------------------------------------------------
(* Where the loop's control goes, as far as the clock depends on it. *)

(* The steps that end a session. *)
SessionEnds ==
    \/ HealthCommandReconnects \/ HealthCommandFails \/ HealthReplayAfterAuthFails
    \/ HealthPendingFails \/ HealthSessionBreaks \/ PingFindsStale \/ PingFails

(* The steps that leave the monitor and the strategy alone. *)
QuietStep ==
    \/ HealthCommandStops \/ HealthCommandDeferred \/ HealthCommandApplied
    \/ HealthPendingApplied \/ HealthFlushDone \/ HealthWaitStops \/ HealthOwner
    \/ Finished /\ UNCHANGED healthVars

LEMMA HealthSteps ==
    HealthNext =>
      \/ HealthBeginConnect \/ HealthOpenFails \/ HealthConnectSucceeds
      \/ HealthAuthSent \/ HealthReplaySent \/ SessionEnds \/ QuietStep
      \/ HealthAuthenticated \/ HealthFrameHandled \/ PongReceived \/ HealthFrameStops
      \/ (\E d \in 0 .. MaxStall : PingSent(d)) \/ HealthWaitOver \/ TimePasses
  BY Zenon DEF HealthNext, OpeningStep, CommandStep, FrameStep, PingStep, SessionEnds, QuietStep

LEMMA EndMoves ==
    ASSUME NEW session, HealthEnds(session)
    PROVE  pc' \in {"Returned", "Top", "Waiting"} /\ ~open'
  BY Zenon DEF HealthEnds

LEMMA OpenFailsMoves ==
    ASSUME HealthOpenFails
    PROVE  pc' \in {"Returned", "Top", "Waiting"} /\ ~open' /\ UNCHANGED clockVars
  BY EndMoves, Zenon DEF HealthOpenFails

(* The end of a session: a frame that caused it was activity, and a ping   *)
(* that failed was recorded.                                               *)
LEMMA SessionEndMoves ==
    ASSUME SessionEnds
    PROVE  /\ pc \in InSession /\ HealthEnds(TRUE)
           /\ pc' \in {"Returned", "Top", "Waiting"} /\ ~open'
           /\ sinceMsg' \in {0, sinceMsg} /\ UNCHANGED <<pingDue, stalled>>
           /\ \/ UNCHANGED <<lastPing, pongAfter, unanswered>>
              \/ /\ lastPing' = {0} /\ pongAfter' = FALSE
                 /\ unanswered' = {0} \/ unanswered' = unanswered
  <1>1. CASE HealthCommandReconnects \/ HealthCommandFails \/ HealthPendingFails \/ PingFindsStale
    BY <1>1, EndMoves, Zenon DEF HealthCommandReconnects, HealthCommandFails, HealthPendingFails,
       PingFindsStale, HealthApplies, HealthReceives, InSession, clockVars
  <1>2. CASE HealthReplayAfterAuthFails \/ HealthSessionBreaks
    BY <1>2, EndMoves, Zenon DEF HealthReplayAfterAuthFails, HealthSessionBreaks, HealthFrame, InSession
  <1>3. CASE PingFails
    BY <1>3, EndMoves, Zenon DEF PingFails, InSession
  <1>4. QED
    BY <1>1, <1>2, <1>3, Zenon DEF SessionEnds

LEMMA QuietMoves ==
    ASSUME QuietStep
    PROVE  /\ \/ pc' = pc \/ pc' \in {"Returned", "Aborted"}
              \/ pc = "Flush" /\ pc' = "Select"
           /\ open' = open
           /\ UNCHANGED healthVars
  <1>1. CASE HealthCommandStops \/ HealthCommandDeferred \/ HealthCommandApplied
             \/ HealthPendingApplied \/ HealthFlushDone \/ HealthWaitStops
    BY <1>1 DEF HealthCommandStops, HealthCommandDeferred, HealthCommandApplied,
       HealthPendingApplied, HealthFlushDone, HealthWaitStops, loopVars, handlerVars
  <1>2. CASE HealthOwner
    BY <1>2, OwnerKeepsLoop DEF HealthOwner, LoopAborts, loopVars, handlerVars
  <1>3. CASE Finished /\ UNCHANGED healthVars
    BY <1>3 DEF Finished, vars, loopVars, handlerVars
  <1>4. QED
    BY <1>1, <1>2, <1>3 DEF QuietStep

LEMMA OpeningMoves ==
    /\ HealthConnectSucceeds =>
         /\ pc = "Connecting" /\ pc' \in {"AuthSend", "Replay", "Select"}
         /\ IF pc' = "Select" THEN pingDue' = Interval ELSE UNCHANGED pingDue
    /\ HealthAuthSent \/ HealthReplaySent =>
         /\ pc \in {"AuthSend", "Replay"} /\ pc' \in {"Replay", "Select"} /\ open' = open
         /\ IF pc' = "Select" THEN pingDue' = Interval ELSE UNCHANGED pingDue
         /\ UNCHANGED <<sinceMsg, lastPing, pongAfter, unanswered, stalled, countVars>>
  BY DEF HealthConnectSucceeds, HealthAuthSent, HealthReplaySent, HealthStarts, handlerVars

LEMMA OtherMoves ==
    /\ HealthBeginConnect => pc' = "Connecting" /\ open' = open
    /\ HealthAuthenticated => pc = "Select" /\ pc' = "Flush" /\ open' = open
    /\ HealthFrameStops => pc = "Select" /\ pc' = "Returned" /\ open' = open
    /\ HealthWaitOver => pc = "Waiting" /\ pc' = "Top" /\ open' = open
  BY Zenon DEF HealthBeginConnect, HealthAuthenticated, HealthFrameStops, HealthFrame,
     HealthWaitOver, handlerVars

-----------------------------------------------------------------------------
(* While a ping is unanswered, the last one is. *)
PingInv == unanswered # {} => lastPing # {} /\ ~pongAfter

LEMMA PingInvariant == HealthSpec => []PingInv
  <1>1. HealthInit => PingInv
    BY DEF HealthInit, PingInv
  <1>2. PingInv /\ [HealthNext]_<<vars, healthVars>> => PingInv'
    <2> SUFFICES ASSUME PingInv, [HealthNext]_<<vars, healthVars>>
                 PROVE  PingInv'
      OBVIOUS
    <2> USE DEF PingInv
    <2>1. CASE UNCHANGED <<lastPing, pongAfter, unanswered>>
      BY <2>1
    <2>2. CASE HealthConnectSucceeds
      BY <2>2 DEF HealthConnectSucceeds
    <2>3. CASE PongReceived
      BY <2>3 DEF PongReceived
    <2>4. CASE \E d \in 0 .. MaxStall : PingSent(d)
      BY <2>4, Zenon DEF PingSent
    <2>5. CASE TimePasses
      BY <2>5, Zenon DEF TimePasses, Older
    <2>6. CASE SessionEnds
      BY <2>6, SessionEndMoves, Zenon
    <2>7. CASE QuietStep \/ HealthAuthSent \/ HealthReplaySent
      BY <2>1, <2>7, QuietMoves, OpeningMoves, Zenon DEF healthVars, clockVars
    <2>8. CASE HealthBeginConnect \/ HealthOpenFails \/ HealthAuthenticated \/ HealthFrameHandled
               \/ HealthFrameStops \/ HealthWaitOver \/ UNCHANGED <<vars, healthVars>>
      BY <2>1, <2>8, Zenon DEF HealthBeginConnect, HealthOpenFails, HealthAuthenticated,
         HealthFrameHandled, HealthFrameStops, HealthWaitOver, healthVars, clockVars
    <2>9. QED
      BY <2>2, <2>3, <2>4, <2>5, <2>6, <2>7, <2>8, HealthSteps, Zenon
  <1>3. QED
    BY <1>1, <1>2, PTL DEF HealthSpec

(* The clock.  ping_sleep runs down at least as fast as silence and         *)
(* unanswered pings grow old, except for the time the loop is held up; and  *)
(* when it fires, the last ping is at least one interval old.               *)
ClockInv ==
    /\ sinceMsg \in Nat /\ stalled \in 0 .. MaxStall /\ pingDue \in 0 .. Interval
    /\ lastPing \subseteq Nat /\ unanswered \subseteq Nat
    /\ pc \in {"AuthSend", "Replay"} => sinceMsg =< stalled /\ lastPing = {} /\ unanswered = {}
    /\ pc \in {"Select", "Flush"} =>
         /\ sinceMsg + pingDue =< StaleThreshold + Interval + stalled
         /\ \A a \in lastPing : Interval =< a + pingDue
         /\ Timeout < Interval => \A a \in unanswered : a + pingDue =< Interval + stalled

LEMMA OneTick ==
    ASSUME NEW i \in Nat, NEW a \in Nat, NEW p \in Nat, NEW q \in Nat, p =< q + 1
    PROVE  /\ i =< a + p => i =< a + 1 + q
           /\ \A s, t \in Nat : q + 1 + s =< p + t /\ a + p =< i + s => a + 1 + q =< i + t
  OBVIOUS

LEMMA ClockStep == PingInv /\ ClockInv /\ [HealthNext]_<<vars, healthVars>> => ClockInv'
  <1> SUFFICES ASSUME PingInv, ClockInv, [HealthNext]_<<vars, healthVars>>
               PROVE  ClockInv'
    OBVIOUS
  <1> USE HealthAssumption DEF ClockInv, healthVars, clockVars
  <1>1. CASE HealthBeginConnect \/ HealthWaitOver
    BY <1>1, OtherMoves, Zenon DEF HealthBeginConnect, HealthWaitOver
  <1>2. CASE HealthConnectSucceeds
    <2>1. /\ pc' \in {"AuthSend", "Replay", "Select"}
          /\ IF pc' = "Select" THEN pingDue' = Interval ELSE UNCHANGED pingDue
      BY <1>2, OpeningMoves, Zenon
    <2>2. sinceMsg' = 0 /\ lastPing' = {} /\ unanswered' = {} /\ stalled' = 0
      BY <1>2 DEF HealthConnectSucceeds
    <2>3. QED
      BY <2>1, <2>2
  <1>3. CASE HealthAuthSent \/ HealthReplaySent
    <2>1. pc \in {"AuthSend", "Replay"} /\ pc' \in {"Replay", "Select"}
      BY <1>3, OpeningMoves, Zenon
    <2>2. /\ UNCHANGED <<sinceMsg, lastPing, unanswered, stalled>>
          /\ IF pc' = "Select" THEN pingDue' = Interval ELSE UNCHANGED pingDue
      BY <1>3, OpeningMoves, Zenon
    <2>3. sinceMsg =< stalled /\ lastPing = {} /\ unanswered = {}
      BY <2>1
    <2>4. pingDue' \in 0 .. Interval /\ (pc' = "Select" => pingDue' = Interval)
      BY <2>2
    <2>5. /\ sinceMsg' \in Nat /\ stalled' \in 0 .. MaxStall
          /\ sinceMsg' =< stalled' /\ lastPing' = {} /\ unanswered' = {}
      BY <2>2, <2>3
    <2>6. pc' = "Select" => sinceMsg' + pingDue' =< StaleThreshold + Interval + stalled'
      <3>1. {sinceMsg', stalled', Interval, StaleThreshold} \subseteq Nat /\ sinceMsg' =< stalled'
        BY <2>5
      <3> HIDE DEF ClockInv
      <3>2. QED
        BY <2>4, <3>1
    <2>7. lastPing' \subseteq Nat /\ unanswered' \subseteq Nat
      BY <2>5
    <2>8. QED
      BY <2>1, <2>4, <2>5, <2>6, <2>7, Zenon
  <1>4. CASE HealthOpenFails
    BY <1>4, OpenFailsMoves, Zenon
  <1>5. CASE SessionEnds
    <2>1. /\ pc' \in {"Returned", "Top", "Waiting"}
          /\ sinceMsg' \in {0, sinceMsg} /\ UNCHANGED <<pingDue, stalled>>
          /\ lastPing' \in {lastPing, {0}} /\ unanswered' \in {unanswered, {0}}
      BY <1>5, SessionEndMoves, Zenon
    <2>2. lastPing' \subseteq Nat
      BY <2>1
    <2>3. unanswered' \subseteq Nat
      BY <2>1
    <2>4. sinceMsg' \in Nat /\ stalled' \in 0 .. MaxStall /\ pingDue' \in 0 .. Interval
      BY <2>1
    <2>5. QED
      BY <2>1, <2>2, <2>3, <2>4, Zenon
  <1>6. CASE HealthAuthenticated
    <2>1. pc = "Select" /\ pc' = "Flush"
      BY <1>6, OtherMoves, Zenon
    <2>2. sinceMsg' = 0 /\ UNCHANGED <<stalled, pingDue, lastPing, unanswered>>
      BY <1>6 DEF HealthAuthenticated, HealthFrame
    <2>3. QED
      BY <2>1, <2>2
  <1>7. CASE HealthFrameHandled \/ PongReceived
    <2>1. /\ pc' = pc /\ pc = "Select" /\ sinceMsg' = 0
          /\ UNCHANGED <<lastPing, pingDue, stalled>>
      BY <1>7 DEF HealthFrameHandled, PongReceived, HealthFrame, vars, loopVars
    <2>2. unanswered' = unanswered \/ unanswered' = {}
      BY <1>7, Zenon DEF HealthFrameHandled, PongReceived
    <2>3. unanswered' \subseteq unanswered
      BY <2>2
    <2>4. /\ sinceMsg' \in Nat /\ stalled' \in 0 .. MaxStall /\ pingDue' \in 0 .. Interval
          /\ lastPing' \subseteq Nat /\ unanswered' \subseteq Nat
          /\ sinceMsg' + pingDue' =< StaleThreshold + Interval + stalled'
      BY <2>1, <2>3
    <2>5. /\ \A a \in lastPing' : Interval =< a + pingDue'
          /\ Timeout < Interval => \A a \in unanswered' : a + pingDue' =< Interval + stalled'
      BY <2>1, <2>3
    <2>6. pc' \notin {"AuthSend", "Replay"}
      BY <2>1
    <2>7. QED
      BY <2>4, <2>5, <2>6, Zenon
  <1>8. ASSUME NEW d \in 0 .. MaxStall, PingSent(d)
        PROVE  ClockInv'
    <2>1. pc' = pc /\ pc = "Select" /\ pingDue = 0 /\ pingDue' = Interval
      BY <1>8 DEF PingSent, vars, loopVars
    <2>2. sinceMsg =< StaleThreshold
      <3>1. ~(sinceMsg > StaleThreshold)
        BY <1>8, Zenon DEF PingSent, DataStale
      <3> QED
        BY <3>1
    <2>3. Timeout < Interval => unanswered = {}
      <3>1. unanswered # {} => lastPing # {} /\ \A a \in lastPing : ~(a > Timeout)
        BY <1>8, Zenon DEF PingSent, PingStale, PingInv
      <3>2. ASSUME unanswered # {}, Timeout < Interval
            PROVE  FALSE
        <4>1. PICK a \in lastPing : ~(a > Timeout)
          BY <3>1, <3>2, Zenon
        <4>2. QED
          BY <2>1, <3>2, <4>1
      <3>3. QED
        BY <3>2
    <2>4. CASE strategy = "Protocol"
      <3>1. /\ stalled' = stalled + d /\ stalled + d =< MaxStall /\ sinceMsg' = sinceMsg + d
            /\ lastPing' = {d}
            /\ unanswered' = IF unanswered = {} THEN {d} ELSE Older(unanswered, d)
        BY <1>8, <2>4 DEF PingSent
      <3>2. unanswered' \subseteq Nat
        <4>1. d \in Nat /\ \A a \in Nat : a + d \in Nat
          OBVIOUS
        <4>2. {d} \subseteq Nat /\ Older(unanswered, d) \subseteq Nat
          BY <4>1, Zenon DEF Older
        <4>3. QED
          BY <3>1, <4>2
      <3>3. /\ sinceMsg' \in Nat /\ stalled' \in 0 .. MaxStall /\ pingDue' \in 0 .. Interval
            /\ sinceMsg' + pingDue' =< StaleThreshold + Interval + stalled'
        BY <2>1, <2>2, <3>1
      <3>4. lastPing' \subseteq Nat /\ \A a \in lastPing' : Interval =< a + pingDue'
        BY <2>1, <3>1
      <3>5. Timeout < Interval => \A a \in unanswered' : a + pingDue' =< Interval + stalled'
        <4>1. Timeout < Interval => unanswered' = {d}
          BY <2>3, <3>1
        <4>2. QED
          BY <2>1, <3>1, <4>1
      <3>6. QED
        BY <2>1, <3>2, <3>3, <3>4, <3>5, Zenon
    <2>5. CASE strategy # "Protocol"
      <3>1. UNCHANGED <<lastPing, unanswered, stalled, sinceMsg>>
        BY <1>8, <2>5, Zenon DEF PingSent
      <3>2. QED
        BY <2>1, <2>2, <2>3, <3>1
    <2>6. QED
      BY <2>4, <2>5
  <1>9. CASE TimePasses
    <2>1. pc' = pc
      BY <1>9 DEF TimePasses, vars, loopVars
    <2>2. lastPing' = {a + 1 : a \in lastPing} /\ unanswered' = {a + 1 : a \in unanswered}
      BY <1>9 DEF TimePasses, Older
    <2>3. /\ sinceMsg' = sinceMsg + 1 /\ pingDue' = (IF pingDue > 0 THEN pingDue - 1 ELSE 0)
          /\ stalled' = (IF HeldUp THEN stalled + 1 ELSE stalled) /\ stalled' =< MaxStall
      BY <1>9 DEF TimePasses
    <2>4. pc # "Select" \/ pingDue = 0 => stalled' = stalled + 1
      BY <2>3 DEF HeldUp
    <2>5. stalled' = stalled \/ stalled' = stalled + 1
      BY <2>3, Zenon
    <2>6. /\ sinceMsg \in Nat /\ stalled \in 0 .. MaxStall /\ pingDue \in 0 .. Interval
          /\ MaxStall \in Nat /\ Interval \in Nat /\ StaleThreshold \in Nat
      OBVIOUS
    <2>7. lastPing \subseteq Nat /\ unanswered \subseteq Nat
      OBVIOUS
    <2>8. pc \in {"AuthSend", "Replay"} => sinceMsg =< stalled /\ lastPing = {} /\ unanswered = {}
      OBVIOUS
    <2>9. pc \in {"Select", "Flush"} =>
            /\ sinceMsg + pingDue =< StaleThreshold + Interval + stalled
            /\ \A a \in lastPing : Interval =< a + pingDue
            /\ Timeout < Interval => \A a \in unanswered : a + pingDue =< Interval + stalled
      OBVIOUS
    <2> HIDE HealthAssumption DEF ClockInv, healthVars, clockVars
    <2>10. sinceMsg' \in Nat /\ stalled' \in 0 .. MaxStall /\ pingDue' \in 0 .. Interval
      BY <2>3, <2>5, <2>6
    <2>11. pingDue =< pingDue' + 1 /\ pingDue' + 1 + stalled =< pingDue + stalled'
      BY <2>3, <2>4, <2>5, <2>6
    <2>12. lastPing' \subseteq Nat /\ unanswered' \subseteq Nat
      BY <2>2, <2>7
    <2>13. pc' \in {"AuthSend", "Replay"} =>
             sinceMsg' =< stalled' /\ lastPing' = {} /\ unanswered' = {}
      <3>1. ASSUME pc \in {"AuthSend", "Replay"}
            PROVE  sinceMsg' =< stalled' /\ lastPing' = {} /\ unanswered' = {}
        <4>1. stalled' = stalled + 1 /\ sinceMsg =< stalled
          BY <2>4, <2>8, <3>1
        <4>2. sinceMsg' =< stalled'
          BY <2>3, <2>6, <4>1
        <4>3. QED
          BY <2>2, <2>8, <3>1, <4>2
      <3>2. QED
        BY <2>1, <3>1
    <2>14. ASSUME pc \in {"Select", "Flush"}
           PROVE  /\ sinceMsg' + pingDue' =< StaleThreshold + Interval + stalled'
                  /\ \A a \in lastPing' : Interval =< a + pingDue'
                  /\ Timeout < Interval =>
                       \A a \in unanswered' : a + pingDue' =< Interval + stalled'
      <3>1. sinceMsg' + pingDue' =< StaleThreshold + Interval + stalled'
        BY <2>3, <2>6, <2>9, <2>10, <2>11, <2>14
      <3>0. {Interval, pingDue, pingDue', stalled, stalled'} \subseteq Nat
        BY <2>6, <2>10
      <3>2. ASSUME NEW a \in Nat, a \in lastPing PROVE Interval =< a + 1 + pingDue'
        <4>1. Interval =< a + pingDue
          BY <2>9, <2>14, <3>2
        <4>2. QED
          BY <2>11, <3>0, <4>1, OneTick
      <3>3. ASSUME Timeout < Interval, NEW a \in Nat, a \in unanswered
            PROVE  a + 1 + pingDue' =< Interval + stalled'
        <4>1. a + pingDue =< Interval + stalled
          BY <2>9, <2>14, <3>3
        <4>2. QED
          BY <2>11, <3>0, <4>1, OneTick
      <3>4. QED
        BY <2>2, <2>7, <3>1, <3>2, <3>3
    <2>15. QED
      BY <2>1, <2>10, <2>12, <2>13, <2>14 DEF ClockInv
  <1>10. CASE QuietStep
    BY <1>10, QuietMoves, Zenon
  <1>11. CASE HealthFrameStops
    <2>1. pc' = "Returned" /\ sinceMsg' = 0 /\ UNCHANGED <<stalled, pingDue, lastPing, unanswered>>
      BY <1>11, OtherMoves DEF HealthFrameStops, HealthFrame
    <2>2. QED
      BY <2>1
  <1>12. CASE UNCHANGED <<vars, healthVars>>
    BY <1>12 DEF vars, loopVars
  <1>13. QED
    BY <1>1, <1>2, <1>3, <1>4, <1>5, <1>6, <1>7, <1>8, <1>9, <1>10, <1>11, <1>12, HealthSteps,
       Zenon

LEMMA ClockInvariant == HealthSpec => []ClockInv
  <1>1. HealthInit => ClockInv
    BY HealthAssumption DEF HealthInit, Init, ClockInv
  <1>2. QED
    BY <1>1, ClockStep, PingInvariant, PTL DEF HealthSpec

(* A silent connection is given up in time, for every threshold and interval. *)
THEOREM SilenceIsBounded == HealthSpec => []SilenceBounded
  <1>1. ClockInv => SilenceBounded
    BY HealthAssumption DEF ClockInv, SilenceBounded
  <1>2. QED
    BY <1>1, ClockInvariant, PTL

(* A peer that does not answer pings is given up in time, for every timeout *)
(* below the interval.                                                      *)
THEOREM UnansweredIsBounded == HealthSpec => []UnansweredBounded
  <1>1. ClockInv => UnansweredBounded
    BY HealthAssumption DEF ClockInv, UnansweredBounded
  <1>2. QED
    BY <1>1, ClockInvariant, PTL

-----------------------------------------------------------------------------
(* The counters.  A connection that is open, or whose end is still to be    *)
(* counted after the wait, is one that reconnects has not counted.          *)
CountInv ==
    /\ attempts \in 0 .. MaxCount /\ successes \in 0 .. MaxCount /\ reconnects \in 0 .. MaxCount
    /\ reconnects =< successes /\ successes =< attempts
    /\ pc = "Connecting" => successes < attempts \/ attempts = MaxCount
    /\ open \/ pc \in InSession \/ (pc = "Waiting" /\ fromSession) =>
         reconnects < successes \/ successes = MaxCount

LEMMA CountStep ==
    ReportInv /\ CountInv /\ [HealthNext]_<<vars, healthVars>> => CountInv'
  <1> SUFFICES ASSUME ReportInv, CountInv, [HealthNext]_<<vars, healthVars>>
               PROVE  CountInv'
    OBVIOUS
  <1> USE HealthAssumption DEF CountInv, InSession, countVars
  <1>1. CASE HealthBeginConnect
    <2>1. pc' = "Connecting" /\ open' = open
      BY <1>1, OtherMoves, Zenon
    <2>2. attempts' = Bump(attempts) /\ UNCHANGED <<successes, reconnects>>
      BY <1>1 DEF HealthBeginConnect
    <2>3. /\ attempts' \in 0 .. MaxCount /\ attempts =< attempts'
          /\ attempts < attempts' \/ attempts' = MaxCount
      BY <2>2 DEF Bump
    <2>4. QED
      BY <2>1, <2>2, <2>3
  <1>2. CASE HealthConnectSucceeds
    <2>1. pc = "Connecting" /\ pc' \in {"AuthSend", "Replay", "Select"}
      BY <1>2, OpeningMoves, Zenon
    <2>2. successes' = Bump(successes) /\ UNCHANGED <<attempts, reconnects>>
      BY <1>2 DEF HealthConnectSucceeds
    <2>3. /\ successes' \in 0 .. MaxCount /\ successes' =< attempts /\ reconnects =< successes'
          /\ reconnects < successes' \/ successes' = MaxCount
      BY <2>1, <2>2 DEF Bump
    <2>4. QED
      BY <2>1, <2>2, <2>3
  <1>3. CASE HealthAuthSent \/ HealthReplaySent
    BY <1>3, OpeningMoves
  <1>4. CASE HealthOpenFails
    <2>1. UNCHANGED <<attempts, successes, reconnects>> /\ fromSession' = FALSE
      BY <1>4, Zenon DEF HealthOpenFails, HealthEnds
    <2>2. pc' \in {"Returned", "Top", "Waiting"} /\ ~open'
      BY <1>4, OpenFailsMoves
    <2>3. QED
      BY <2>1, <2>2
  <1>5. CASE SessionEnds
    <2>1. pc \in InSession /\ pc' \in {"Returned", "Top", "Waiting"} /\ ~open'
      BY <1>5, SessionEndMoves, Zenon
    <2>2. /\ UNCHANGED <<attempts, successes>>
          /\ \/ UNCHANGED reconnects
             \/ pc' = "Top" /\ reconnects' = Bump(reconnects)
      BY <1>5, SessionEndMoves, Zenon DEF HealthEnds
    <2>3. QED
      BY <2>1, <2>2 DEF Bump
  <1>6. CASE QuietStep
    <2>1. UNCHANGED <<open, attempts, successes, reconnects, fromSession>>
      BY <1>6, QuietMoves DEF healthVars
    <2>2. \/ pc' = pc \/ pc' \in {"Returned", "Aborted"}
          \/ pc = "Flush" /\ pc' = "Select"
      BY <1>6, QuietMoves
    <2>3. QED
      BY <2>1, <2>2
  <1>7. CASE HealthAuthenticated \/ HealthFrameStops
    <2>1. UNCHANGED <<attempts, successes, reconnects, fromSession>>
      BY <1>7 DEF HealthAuthenticated, HealthFrameStops
    <2>2. pc = "Select" /\ pc' \in {"Flush", "Returned"} /\ open' = open
      BY <1>7, OtherMoves
    <2>3. QED
      BY <2>1, <2>2
  <1>8. CASE \/ HealthFrameHandled \/ PongReceived \/ TimePasses
             \/ \E d \in 0 .. MaxStall : PingSent(d)
    <2>1. UNCHANGED vars /\ UNCHANGED countVars
      BY <1>8, Zenon DEF HealthFrameHandled, PongReceived, TimePasses, PingSent
    <2>2. UNCHANGED <<pc, open, attempts, successes, reconnects, fromSession>>
      BY <2>1 DEF vars, loopVars, handlerVars
    <2>3. QED
      BY <2>2
  <1>9. CASE HealthWaitOver
    <2>1. ~open' /\ pc = "Waiting" /\ pc' = "Top"
      BY <1>9, OtherMoves DEF ReportInv, LifecycleReports
    <2>2. /\ UNCHANGED <<attempts, successes>>
          /\ reconnects' = IF fromSession THEN Bump(reconnects) ELSE reconnects
      BY <1>9 DEF HealthWaitOver
    <2>3. reconnects' \in 0 .. MaxCount /\ reconnects' =< successes
      BY <2>1, <2>2 DEF Bump
    <2>4. QED
      BY <2>1, <2>2, <2>3
  <1>10. CASE UNCHANGED <<vars, healthVars>>
    BY <1>10 DEF vars, loopVars, handlerVars, healthVars
  <1>11. QED
    BY <1>1, <1>2, <1>3, <1>4, <1>5, <1>6, <1>7, <1>8, <1>9, <1>10, HealthSteps, Zenon

LEMMA CountInvariant == HealthSpec => []CountInv
  <1>1. HealthInit => CountInv
    BY HealthAssumption DEF HealthInit, Init, CountInv, InSession
  <1>2. QED
    BY <1>1, CountStep, HealthImplementsLoop, ReportInvariant, PTL
       DEF HealthSpec, ImplementsManagedLoop

(* The counters of the monitor stay consistent, also when they saturate. *)
THEOREM CountersAgree == HealthSpec => []CountersConsistent
  <1>1. CountInv => CountersConsistent
    BY DEF CountInv, CountersConsistent
  <1>2. QED
    BY <1>1, CountInvariant, PTL

-----------------------------------------------------------------------------
HealthFlags == pongAfter \in BOOLEAN /\ fromSession \in BOOLEAN /\ strategy \in Strategies

LEMMA HealthFlagsStep == HealthFlags /\ [HealthNext]_<<vars, healthVars>> => HealthFlags'
  <1> SUFFICES ASSUME HealthFlags, [HealthNext]_<<vars, healthVars>>
               PROVE  HealthFlags'
    OBVIOUS
  <1> USE DEF HealthFlags, healthVars, clockVars, countVars
  <1>1. CASE HealthBeginConnect \/ HealthConnectSucceeds \/ HealthAuthSent \/ HealthReplaySent
    BY <1>1, Zenon DEF HealthBeginConnect, HealthConnectSucceeds, HealthAuthSent, HealthReplaySent
  <1>2. CASE HealthOpenFails \/ HealthWaitOver
    BY <1>2, Zenon DEF HealthOpenFails, HealthEnds, HealthWaitOver
  <1>3. CASE SessionEnds
    <2>1. HealthEnds(TRUE) /\ (pongAfter' = pongAfter \/ pongAfter' = FALSE)
      BY <1>3, SessionEndMoves, Zenon
    <2>2. QED
      BY <2>1, Zenon DEF HealthEnds
  <1>4. CASE QuietStep
    BY <1>4, QuietMoves
  <1>5. CASE HealthAuthenticated \/ HealthFrameHandled \/ PongReceived \/ HealthFrameStops
             \/ TimePasses
    BY <1>5, Zenon DEF HealthAuthenticated, HealthFrameHandled, PongReceived, HealthFrameStops,
       TimePasses
  <1>6. CASE \E d \in 0 .. MaxStall : PingSent(d)
    BY <1>6, Zenon DEF PingSent
  <1>7. CASE UNCHANGED <<vars, healthVars>>
    BY <1>7
  <1>8. QED
    BY <1>1, <1>2, <1>3, <1>4, <1>5, <1>6, <1>7, HealthSteps, Zenon

(* Type correctness of the health-checked loop. *)
THEOREM HealthTypeCorrect == HealthSpec => []HealthTypeOK
  <1>1. HealthInit => HealthFlags
    BY Zenon DEF HealthInit, HealthFlags
  <1>2. TypeOK /\ ClockInv /\ CountInv /\ HealthFlags => HealthTypeOK
    BY Zenon DEF ClockInv, CountInv, HealthFlags, HealthTypeOK
  <1>3. QED
    BY <1>1, <1>2, HealthFlagsStep, ClockInvariant, CountInvariant, HealthImplementsLoop,
       TypeCorrect, PTL DEF HealthSpec, ImplementsManagedLoop

(* What the plain loop promises, the health-checked loop keeps: the         *)
(* authentication gate, agreeing subscriptions, ordered commands, a         *)
(* truthful status, matching reports, accounted losses and standing stops.  *)
THEOREM HealthLoopKeepsPromises ==
    HealthSpec =>
      /\ [](AuthGate /\ SubscriptionsConverge /\ InOrder /\ StatusTruthful /\ LifecycleReports)
      /\ LossIsAccounted /\ StopIsKept
  BY HealthImplementsLoop, AuthGateHolds, SubscriptionsAgree, CommandsStayInOrder, StatusIsTruthful,
     ReportsAreInStep, LossesAreAccounted, StopsAreKept, PTL DEF ImplementsManagedLoop
===============================================================================
