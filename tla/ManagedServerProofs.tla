------------------------- MODULE ManagedServerProofs -------------------------
(* Proofs of the safety properties of ManagedServer, for any set of        *)
(* sockets (finite or not), any connection budget and any retry policy.    *)
EXTENDS ManagedServer, FiniteSetTheorems, TLAPS

LEMMA MinOfPair ==
    ASSUME NEW a \in Nat, NEW b \in Nat
    PROVE  Min({a, b}) = IF a =< b THEN a ELSE b
  BY DEF Min

(* Doubling and capping a delay keeps it between the configured bounds. *)
LEMMA NextBackoffInRange ==
    ASSUME NEW b \in InitialBackoff .. MaxBackoff
    PROVE  NextBackoff(b) \in InitialBackoff .. MaxBackoff
  <1>1. b \in Nat /\ 2 * b \in Nat /\ 2 * b >= InitialBackoff /\ MaxBackoff \in Nat
    BY ConfigAssumption
  <1>2. NextBackoff(b) = IF 2 * b =< MaxBackoff THEN 2 * b ELSE MaxBackoff
    BY <1>1, MinOfPair DEF NextBackoff
  <1>3. QED
    BY <1>1, <1>2, ConfigAssumption

-----------------------------------------------------------------------------
(* Every step changes at most one connection, along one of these edges. *)
ConnEdge(c) ==
    \/ /\ phase[c] = "idle" /\ pc = "Polled" /\ SlotFree
       /\ phase' = [phase EXCEPT ![c] = "handshake"] /\ active' = active + 1
       /\ pc' = "Accept"
    \/ /\ phase[c] = "idle"
       /\ phase' = [phase EXCEPT ![c] = "rejected"] /\ active' = active
       /\ pc' = "Accept"
    \/ /\ phase[c] \in SlotPhases
       /\ phase' \in {[phase EXCEPT ![c] = "busy"], [phase EXCEPT ![c] = "open"],
                      [phase EXCEPT ![c] = "closing"]}
       /\ active' = active /\ pc' = pc
    \/ /\ phase[c] \in SlotPhases /\ Cardinality(InPhase({"released"})) < Workers
       /\ phase' = [phase EXCEPT ![c] = "released"] /\ active' = active - 1
       /\ pc' = pc
    \/ /\ phase[c] = "released"
       /\ phase' = [phase EXCEPT ![c] = "finished"] /\ active' = active /\ pc' = pc
    \/ /\ phase[c] = "finished"
       /\ phase' = [phase EXCEPT ![c] = "reaped"] /\ active' = active /\ pc' = pc

NoConnEdge ==
    /\ UNCHANGED <<phase, active>>
    /\ pc' = "Polled" => pc = "Polled" \/ (pc = "Accept" /\ NothingToReap)
    /\ pc' = "Done" => pc = "Done" \/ JoinSet = {}

LEMMA OneConnectionAtATime ==
    ASSUME [Next]_vars
    PROVE  NoConnEdge \/ \E c \in Conns : ConnEdge(c)
  <1> USE DEF NoConnEdge, vars, serverVars, connVars, handleVars
  <1>1. CASE HandleStep
    BY <1>1 DEF HandleStep, RequestShutdown, ShutdownReturns, ShutdownTimesOut,
                DropSignals, DropAborts
  <1>2. ASSUME NEW c \in Conns, ConnectionStep(c)
        PROVE  ConnEdge(c)
    BY <1>2 DEF ConnectionStep, ConnEdge, ConnStep, Release, SlotPhases, Handshake,
        HandshakeFails, HandlerReturns, HandlerCloses, HandlerPanics, NextEvent,
        PeerCloses, ConnSeesShutdown, FinishConnection, ConnAborts, TaskCompletes
  <1>3. ASSUME NEW c \in Conns, AcceptReaps(c) \/ AdmitConnection(c) \/ JoinNext(c)
        PROVE  ConnEdge(c)
    BY <1>3 DEF AcceptReaps, AdmitConnection, JoinNext, ConnEdge, SlotPhases
  <1>4. CASE CheckShutdown \/ BindOk \/ BindFails \/ EnterAcceptLoop \/ CountFailure
             \/ BackoffElapses \/ BackoffSeesShutdown
    BY <1>4 DEF CheckShutdown, BindOk, BindFails, EnterAcceptLoop, CountFailure,
        StoreTerminal, BackoffElapses, BackoffSeesShutdown
  <1>5. CASE FaultTrips \/ AcceptSeesShutdown \/ PollListener \/ NothingAccepted
             \/ Wake \/ ListenerLost
    BY <1>5 DEF FaultTrips, StoreTerminal, AcceptSeesShutdown, PollListener,
        NothingAccepted, Wake, ListenerLost
  <1>6. CASE PublishTerminal \/ AbortClients \/ BeginDrain \/ DrainTimesOut
             \/ ServerReturns \/ ServerAborts
    BY <1>6 DEF PublishTerminal, AbortClients, BeginDrain, DrainTimesOut,
        ServerReturns, Drained, ServerAborts
  <1>7. CASE UNCHANGED vars
    BY <1>7
  <1>8. CASE Finished
    BY <1>8 DEF Finished
  <1>9. QED
    BY <1>1, <1>2, <1>3, <1>4, <1>5, <1>6, <1>7, <1>8 DEF Next, ServerStep

-----------------------------------------------------------------------------
(* The connection budget and the size of the JoinSet. *)
SlotInv ==
    /\ phase \in [Conns -> Phase]
    /\ IsFiniteSet(JoinSet)
    /\ active = Cardinality(SlotHolders) /\ active =< MaxConnections
    /\ Cardinality(InPhase({"released"})) =< Workers
    /\ Cardinality(JoinSet) =< MaxConnections + Workers + 1
    /\ pc = "Polled" => Cardinality(JoinSet) =< MaxConnections + Workers
    /\ pc = "Done" => JoinSet = {}

LEMMA SubsetsOfJoinSet ==
    ASSUME IsFiniteSet(JoinSet)
    PROVE  /\ IsFiniteSet(SlotHolders) /\ Cardinality(SlotHolders) \in Nat
           /\ IsFiniteSet(InPhase({"released"})) /\ Cardinality(InPhase({"released"})) \in Nat
           /\ Cardinality(JoinSet) \in Nat
  <1>1. SlotHolders \subseteq JoinSet /\ InPhase({"released"}) \subseteq JoinSet
    BY DEF SlotHolders, JoinSet, InPhase
  <1>2. QED
    BY <1>1, FS_Subset, FS_CardinalityType

LEMMA SlotInit == Init => SlotInv
  <1> SUFFICES ASSUME Init PROVE SlotInv
    OBVIOUS
  <1>1. JoinSet = {} /\ SlotHolders = {} /\ InPhase({"released"}) = {}
    BY DEF Init, JoinSet, SlotHolders, InPhase, SlotPhases
  <1>2. QED
    BY <1>1, FS_EmptySet, ConfigAssumption DEF Init, SlotInv, Phase, SlotPhases

LEMMA SlotEdge ==
    ASSUME SlotInv, NEW c \in Conns, ConnEdge(c)
    PROVE  SlotInv'
  <1> DEFINE J == SlotPhases \cup {"released", "finished"}
             Released == InPhase({"released"})
  <1>0. /\ phase \in [Conns -> Phase] /\ phase[c] \in Phase
        /\ IsFiniteSet(JoinSet) /\ IsFiniteSet(SlotHolders) /\ IsFiniteSet(Released)
        /\ Cardinality(JoinSet) \in Nat /\ Cardinality(SlotHolders) \in Nat
        /\ Cardinality(Released) \in Nat
        /\ MaxConnections \in Nat /\ Workers \in Nat
    BY SubsetsOfJoinSet, ConfigAssumption DEF SlotInv
  <1>1. PICK v \in Phase : phase' = [phase EXCEPT ![c] = v]
    BY DEF ConnEdge, Phase, SlotPhases
  <1>2. /\ SlotHolders' = IF v \in SlotPhases THEN SlotHolders \cup {c} ELSE SlotHolders \ {c}
        /\ JoinSet' = IF v \in J THEN JoinSet \cup {c} ELSE JoinSet \ {c}
        /\ Released' = IF v \in {"released"} THEN Released \cup {c} ELSE Released \ {c}
    BY <1>0, <1>1 DEF SlotHolders, JoinSet, InPhase
  <1>3. /\ c \in SlotHolders <=> phase[c] \in SlotPhases
        /\ c \in JoinSet <=> phase[c] \in J
        /\ c \in Released <=> phase[c] = "released"
    BY DEF SlotHolders, JoinSet, InPhase
  <1>4. v = phase'[c] /\ phase' \in [Conns -> Phase]
    BY <1>0, <1>1
  <1>5. /\ IsFiniteSet(JoinSet')
        /\ Cardinality(JoinSet') =
             IF v \in J THEN (IF c \in JoinSet THEN Cardinality(JoinSet) ELSE Cardinality(JoinSet) + 1)
                        ELSE (IF c \in JoinSet THEN Cardinality(JoinSet) - 1 ELSE Cardinality(JoinSet))
    BY <1>0, <1>2, FS_AddElement, FS_RemoveElement, Zenon
  <1>6. Cardinality(SlotHolders') =
          IF v \in SlotPhases
          THEN (IF c \in SlotHolders THEN Cardinality(SlotHolders) ELSE Cardinality(SlotHolders) + 1)
          ELSE (IF c \in SlotHolders THEN Cardinality(SlotHolders) - 1 ELSE Cardinality(SlotHolders))
    BY <1>0, <1>2, FS_AddElement, FS_RemoveElement, Zenon
  <1>7. Cardinality(Released') =
          IF v \in {"released"}
          THEN (IF c \in Released THEN Cardinality(Released) ELSE Cardinality(Released) + 1)
          ELSE (IF c \in Released THEN Cardinality(Released) - 1 ELSE Cardinality(Released))
    BY <1>0, <1>2, FS_AddElement, FS_RemoveElement, Zenon
  <1>8. active' = Cardinality(SlotHolders') /\ active' =< MaxConnections
    BY <1>0, <1>1, <1>3, <1>4, <1>6 DEF ConnEdge, SlotInv, SlotFree, SlotPhases
  <1>9. Cardinality(Released') =< Workers
    BY <1>0, <1>1, <1>3, <1>4, <1>7 DEF ConnEdge, SlotInv, SlotPhases
  <1>10. /\ Cardinality(JoinSet') =< MaxConnections + Workers + 1
         /\ pc' = "Polled" => Cardinality(JoinSet') =< MaxConnections + Workers
    BY <1>0, <1>1, <1>3, <1>4, <1>5 DEF ConnEdge, SlotInv, SlotPhases
  <1>11. pc' = "Done" => JoinSet' = {}
    BY <1>0, <1>1, <1>2, <1>3, <1>4 DEF ConnEdge, SlotInv, SlotPhases
  <1>12. QED
    BY <1>4, <1>5, <1>8, <1>9, <1>10, <1>11 DEF SlotInv

LEMMA SlotNoEdge == SlotInv /\ NoConnEdge => SlotInv'
  <1> SUFFICES ASSUME SlotInv, NoConnEdge PROVE SlotInv'
    OBVIOUS
  <1>1. SlotHolders' = SlotHolders /\ JoinSet' = JoinSet
        /\ InPhase({"released"})' = InPhase({"released"})
    BY DEF NoConnEdge, SlotHolders, JoinSet, InPhase
  <1>2. ASSUME NothingToReap
        PROVE  Cardinality(JoinSet) =< MaxConnections + Workers
    <2> DEFINE Released == InPhase({"released"})
    <2>1. JoinSet = SlotHolders \cup Released /\ SlotHolders \cap Released = {}
      BY <1>2 DEF NothingToReap, JoinSet, SlotHolders, InPhase, SlotPhases
    <2>2. /\ IsFiniteSet(SlotHolders) /\ IsFiniteSet(Released)
          /\ Cardinality(SlotHolders) \in Nat /\ Cardinality(Released) \in Nat
      BY SubsetsOfJoinSet DEF SlotInv
    <2>3. Cardinality(JoinSet) = Cardinality(SlotHolders) + Cardinality(Released)
      <3>1. Cardinality(SlotHolders \cup Released)
              = Cardinality(SlotHolders) + Cardinality(Released)
                - Cardinality(SlotHolders \cap Released)
        BY <2>2, FS_Union
      <3>2. Cardinality(SlotHolders \cap Released) = 0
        BY <2>1, FS_EmptySet, Zenon
      <3>3. Cardinality(JoinSet) = Cardinality(SlotHolders \cup Released)
        BY <2>1, Zenon
      <3>4. QED
        BY <2>2, <3>1, <3>2, <3>3
    <2>4. QED
      BY <2>2, <2>3, ConfigAssumption DEF SlotInv
  <1>3. QED
    BY <1>1, <1>2 DEF SlotInv, NoConnEdge

LEMMA SlotInvariant == Spec => []SlotInv
  <1>1. SlotInv /\ [Next]_vars => SlotInv'
    BY OneConnectionAtATime, SlotEdge, SlotNoEdge
  <1>2. QED
    BY SlotInit, <1>1, PTL DEF Spec

-----------------------------------------------------------------------------
(* The shutdown and abort flags are raised only by giving up the handle. *)
FlagsInv ==
    /\ shutdown \in BOOLEAN /\ taskAbort \in BOOLEAN
    /\ handle \in {"held", "waiting", "dropping", "gone"}
    /\ shutdown \/ taskAbort => handle # "held"

LEMMA FlagsInvariant == Spec => []FlagsInv
  <1>1. Init => FlagsInv
    BY Zenon DEF Init, FlagsInv
  <1>2. FlagsInv /\ [Next]_vars => FlagsInv'
    <2> SUFFICES ASSUME FlagsInv, [Next]_vars PROVE FlagsInv'
      OBVIOUS
    <2>1. CASE RequestShutdown \/ DropSignals
      BY <2>1, Zenon DEF FlagsInv, RequestShutdown, DropSignals
    <2>2. CASE ShutdownReturns
      BY <2>2 DEF FlagsInv, ShutdownReturns
    <2>3. CASE ShutdownTimesOut \/ DropAborts
      BY <2>3, Zenon DEF FlagsInv, ShutdownTimesOut, DropAborts
    <2>4. CASE UNCHANGED handleVars
      BY <2>4 DEF FlagsInv, handleVars
    <2>5. ASSUME NEW c \in Conns, ConnectionStep(c) PROVE UNCHANGED handleVars
      BY <2>5 DEF ConnectionStep, ConnStep, Release, Handshake, HandshakeFails,
          HandlerReturns, HandlerCloses, HandlerPanics, NextEvent, PeerCloses,
          ConnSeesShutdown, FinishConnection, ConnAborts, TaskCompletes
    <2>6. CASE ServerStep
      <3>1. UNCHANGED handleVars
        BY <2>6 DEF ServerStep, CheckShutdown, BindOk, BindFails, EnterAcceptLoop,
            CountFailure, BackoffElapses, BackoffSeesShutdown, FaultTrips,
            AcceptSeesShutdown, AcceptReaps, PollListener, NothingAccepted, Wake,
            ListenerLost, AdmitConnection, PublishTerminal, AbortClients, BeginDrain,
            DrainTimesOut, JoinNext, ServerReturns, ServerAborts
      <3>2. QED
        BY <2>4, <3>1
    <2>7. CASE UNCHANGED vars \/ Finished
      BY <2>4, <2>7 DEF vars, Finished
    <2>8. QED
      BY <2>1, <2>2, <2>3, <2>4, <2>5, <2>6, <2>7 DEF Next, HandleStep
  <1>3. QED
    BY <1>1, <1>2, PTL DEF Spec

-----------------------------------------------------------------------------
(* What the server task may rely on at each of its steps: its counters,    *)
(* and the status and cause it has published so far.                       *)
Counters ==
    /\ failures \in Nat /\ accepted \in Nat
    /\ backoff \in InitialBackoff .. MaxBackoff
    /\ origin \in {"Bind", "Accept"}
    /\ abortReq \subseteq Conns

Published ==
    /\ pc \in PC
    /\ status \in Lifecycle!Status
    /\ terminal \in Lifecycle!Cause \cup {NoCause}
    /\ terminal # NoCause => pc \in {"PublishTerminal", "AbortClients", "JoinTerminal",
                                     "Done", "Aborted"}
    /\ pc = "PublishTerminal" => terminal # NoCause
    /\ pc \notin {"PublishTerminal"} => ((terminal # NoCause) <=> (status = "Terminal"))
    /\ pc \in {"Spawned", "Top", "Bind"} => status \in {"Starting", "Retrying"}
    /\ pc \in {"Bound", "Accept", "Polled", "Parked"} => status = "Listening"
    /\ pc = "Backoff" => status = "Retrying"
    /\ pc \in {"Failure", "PublishTerminal", "Stopping"}
         => status \in {"Starting", "Retrying", "Listening"}
    /\ pc \in {"AbortClients", "JoinTerminal"} => status = "Terminal"
    /\ pc \in {"Draining", "JoinDrain"} => status = "ShuttingDown"
    /\ pc = "Done" => status \in {"Stopped", "Terminal"}
    /\ pc \in {"Stopping", "Draining", "JoinDrain", "Aborted"} => handle # "held"
    /\ status \in {"ShuttingDown", "Stopped"} => handle # "held"

AttemptsLeft ==
    /\ terminal = NoCause => \A max \in MaxAttempts : failures < max
    /\ terminal \in {"BindRetryExhausted", "AcceptRetryExhausted"} => failures \in MaxAttempts

ControlInv == Counters /\ Published /\ AttemptsLeft

LEMMA LifecycleNames ==
    /\ NoCause = "NoCause"
    /\ Lifecycle!Cause = {"BindRetryExhausted", "AcceptRetryExhausted", "InternalLoopFailure"}
    /\ Lifecycle!Status = {"Starting", "Retrying", "Listening", "ShuttingDown",
                           "Stopped", "Terminal"}
  BY DEF NoCause, Lifecycle!NoCause, Lifecycle!Cause, Lifecycle!Status

LEMMA ControlInit == Init => ControlInv
  <1> SUFFICES ASSUME Init PROVE ControlInv
    OBVIOUS
  <1>1. Counters
    BY ConfigAssumption DEF Init, Counters
  <1>2. Published
    BY LifecycleNames DEF Init, Published, PC
  <1>3. AttemptsLeft
    BY ConfigAssumption, LifecycleNames DEF Init, AttemptsLeft
  <1>4. QED
    BY <1>1, <1>2, <1>3 DEF ControlInv

LEMMA ControlStep == ControlInv /\ FlagsInv /\ [Next]_vars => ControlInv'
  <1> SUFFICES ASSUME ControlInv, FlagsInv, [Next]_vars PROVE ControlInv'
    OBVIOUS
  <1>0. shutdown \/ taskAbort => handle # "held"
    BY DEF FlagsInv
  <1> USE LifecycleNames, <1>0 DEF ControlInv, Counters, Published, AttemptsLeft, PC,
                             serverVars, connVars, handleVars
  <1>1. CASE HandleStep
    BY <1>1 DEF HandleStep, RequestShutdown, ShutdownReturns, ShutdownTimesOut,
                DropSignals, DropAborts
  <1>2. ASSUME NEW c \in Conns, ConnectionStep(c)
        PROVE  ControlInv'
    BY <1>2 DEF ConnectionStep, ConnStep, Release, Handshake,
        HandshakeFails, HandlerReturns, HandlerCloses, HandlerPanics, NextEvent,
        PeerCloses, ConnSeesShutdown, FinishConnection, ConnAborts, TaskCompletes
  <1>3. ASSUME NEW c \in Conns, AcceptReaps(c) \/ AdmitConnection(c) \/ JoinNext(c)
        PROVE  ControlInv'
    BY <1>3 DEF AcceptReaps, AdmitConnection, JoinNext
  <1>4. CASE CheckShutdown \/ BindOk \/ BindFails \/ EnterAcceptLoop
    BY <1>4, ConfigAssumption DEF CheckShutdown, BindOk, BindFails, EnterAcceptLoop, SetStatus
  <1>5. CASE CountFailure
    <2>1. Counters' /\ Published'
      BY <1>5 DEF CountFailure, SetStatus, StoreTerminal
    <2>2. CASE IsExhausted(failures')
      <3>1. PICK max \in MaxAttempts : failures' >= max
        BY <2>2 DEF IsExhausted
      <3>2. failures < max /\ max \in Nat /\ failures' = failures + 1
        BY <1>5, ConfigAssumption DEF CountFailure
      <3>3. failures' = max
        BY <3>1, <3>2
      <3>4. AttemptsLeft'
        BY <1>5, <2>2, <3>3 DEF CountFailure, StoreTerminal
      <3>5. QED
        BY <2>1, <3>4
    <2>3. CASE ~IsExhausted(failures')
      <3>1. terminal' = NoCause /\ failures' \in Nat
        BY <1>5, <2>3 DEF CountFailure
      <3>2. \A max \in MaxAttempts : failures' < max
        BY <2>3, <3>1, ConfigAssumption DEF IsExhausted
      <3>3. QED
        BY <2>1, <3>1, <3>2
    <2>4. QED
      BY <2>2, <2>3
  <1>6. CASE BackoffElapses \/ BackoffSeesShutdown
    <2>1. NextBackoff(backoff) \in InitialBackoff .. MaxBackoff
      BY NextBackoffInRange
    <2>2. QED
      BY <1>6, <2>1 DEF BackoffElapses, BackoffSeesShutdown
  <1>7. CASE FaultTrips \/ AcceptSeesShutdown \/ PollListener \/ NothingAccepted
             \/ Wake \/ ListenerLost
    BY <1>7 DEF FaultTrips, StoreTerminal, AcceptSeesShutdown, PollListener,
        NothingAccepted, Wake, ListenerLost
  <1>8. CASE PublishTerminal \/ AbortClients \/ BeginDrain \/ DrainTimesOut
             \/ ServerReturns \/ ServerAborts
    BY <1>8 DEF PublishTerminal, AbortClients, BeginDrain, DrainTimesOut,
        ServerReturns, Drained, ServerAborts, AbortAll, Asleep, JoinSet, InPhase, SetStatus
  <1>9. CASE UNCHANGED vars \/ Finished
    BY <1>9 DEF vars, Finished
  <1>10. QED
    BY <1>1, <1>2, <1>3, <1>4, <1>5, <1>6, <1>7, <1>8, <1>9, Zenon DEF Next, ServerStep

LEMMA ControlInvariant == Spec => []ControlInv
  BY ControlInit, ControlStep, FlagsInvariant, PTL DEF Spec

-----------------------------------------------------------------------------
(* Type correctness of the whole server. *)
THEOREM TypeCorrect == Spec => []TypeOK
  <1>1. SlotInv /\ FlagsInv /\ ControlInv => TypeOK
    <2> SUFFICES ASSUME SlotInv, FlagsInv, ControlInv PROVE TypeOK
      OBVIOUS
    <2>1. active \in Nat /\ phase \in [Conns -> Phase]
      BY SubsetsOfJoinSet DEF SlotInv
    <2>2. /\ shutdown \in BOOLEAN /\ taskAbort \in BOOLEAN
          /\ handle \in {"held", "waiting", "dropping", "gone"}
      BY DEF FlagsInv
    <2>3. Counters /\ Published
      BY DEF ControlInv
    <2>4. QED
      BY <2>1, <2>2, <2>3, Zenon DEF TypeOK, Counters, Published
  <1>2. QED
    BY <1>1, SlotInvariant, FlagsInvariant, ControlInvariant, PTL

(* The budget counter always equals the number of tasks holding a slot and *)
(* never exceeds max_connections, for any number of clients.               *)
THEOREM SlotsAreAccounted == Spec => []SlotAccounting
  <1>1. SlotInv => SlotAccounting
    BY DEF SlotInv, SlotAccounting
  <1>2. QED
    BY <1>1, SlotInvariant, PTL

(* The JoinSet never holds more than max_connections + Workers + 1 tasks. *)
THEOREM JoinSetStaysBounded == Spec => []JoinSetBounded
  <1>1. SlotInv => JoinSetBounded
    BY DEF SlotInv, JoinSetBounded
  <1>2. QED
    BY <1>1, SlotInvariant, PTL

(* When run_server has returned, no connection task is left. *)
THEOREM NoTaskIsOrphaned == Spec => []NoOrphans
  <1>1. SlotInv => NoOrphans
    <2> SUFFICES ASSUME SlotInv, JoinSet = {} PROVE active = 0
      BY DEF SlotInv, NoOrphans
    <2>1. SlotHolders = {}
      BY DEF SlotHolders, JoinSet, InPhase
    <2>2. Cardinality(SlotHolders) = 0
      BY <2>1, FS_EmptySet, Zenon
    <2>3. QED
      BY <2>2 DEF SlotInv
  <1>2. QED
    BY <1>1, SlotInvariant, PTL

(* Terminal is never visible without its cause, and a finished server task *)
(* has published exactly one of Stopped and Terminal.                      *)
THEOREM EndIsUnique == Spec => []ExactlyOneEnd
  <1>1. ControlInv => ExactlyOneEnd
    BY DEF ControlInv, Published, ExactlyOneEnd, Lifecycle!IsFinal
  <1>2. QED
    BY <1>1, ControlInvariant, PTL

(* Giving up takes exactly max_attempts consecutive failures. *)
THEOREM RetryBudgetIsKept == Spec => []RetryBudget
  <1>1. ControlInv => RetryBudget
    BY LifecycleNames DEF ControlInv, Published, AttemptsLeft, RetryBudget
  <1>2. QED
    BY <1>1, ControlInvariant, PTL

-----------------------------------------------------------------------------
(* Every step of the server is a step of the lifecycle, or leaves it alone. *)
LEMMA LifecycleStep ==
    ASSUME ControlInv, FlagsInv, [Next]_vars
    PROVE  [Lifecycle!LifecycleNext]_<<status, terminal, handle = "held">>
  <1>0. shutdown \/ taskAbort => handle # "held"
    BY DEF FlagsInv
  <1> USE LifecycleNames, <1>0
      DEF ControlInv, Published, PC, serverVars, connVars, handleVars
  <1>k. handle' = handle => UNCHANGED (handle = "held")
    OBVIOUS
  <1>1. CASE RequestShutdown \/ DropSignals
    BY <1>1 DEF RequestShutdown, DropSignals, Lifecycle!LifecycleNext, Lifecycle!GiveUpHandle
  <1>2. CASE ShutdownReturns \/ ShutdownTimesOut \/ DropAborts
    BY <1>2 DEF ShutdownReturns, ShutdownTimesOut, DropAborts
  <1>3. ASSUME NEW c \in Conns, ConnectionStep(c)
        PROVE  UNCHANGED <<status, terminal, handle>>
    BY <1>3 DEF ConnectionStep, ConnStep, Release, Handshake, HandshakeFails, HandlerReturns,
        HandlerCloses, HandlerPanics, NextEvent, PeerCloses, ConnSeesShutdown,
        FinishConnection, ConnAborts, TaskCompletes
  <1>4. ASSUME NEW c \in Conns, AcceptReaps(c) \/ AdmitConnection(c) \/ JoinNext(c)
        PROVE  UNCHANGED <<status, terminal, handle>>
    BY <1>4 DEF AcceptReaps, AdmitConnection, JoinNext
  <1>5. CASE BindOk
    <2>1. /\ terminal = NoCause /\ status \in {"Starting", "Retrying"}
          /\ status' = "Listening" /\ UNCHANGED <<terminal, handle>>
      BY <1>5 DEF BindOk, SetStatus
    <2>2. Lifecycle!Listen
      BY <2>1, <1>k, Zenon DEF NoCause, Lifecycle!Listen
    <2>3. QED
      BY <2>2, Zenon DEF Lifecycle!LifecycleNext
  <1>6. CASE CountFailure
    <2>1. terminal = NoCause /\ Lifecycle!Running /\ UNCHANGED handle
      BY <1>6 DEF CountFailure, Lifecycle!Running
    <2>2. \/ terminal' \in Lifecycle!Cause /\ UNCHANGED status
          \/ status' = "Retrying" /\ UNCHANGED terminal
      BY <1>6, <2>1 DEF CountFailure, SetStatus, StoreTerminal
    <2>3. Lifecycle!Retry \/ Lifecycle!RetainCause
      BY <2>1, <2>2, <1>k, Zenon DEF NoCause, Lifecycle!Retry, Lifecycle!RetainCause
    <2>4. QED
      BY <2>3, Zenon DEF Lifecycle!LifecycleNext
  <1>7. CASE FaultTrips
    <2>1. /\ terminal = NoCause /\ Lifecycle!Running
          /\ terminal' \in Lifecycle!Cause /\ UNCHANGED <<status, handle>>
      BY <1>7 DEF FaultTrips, StoreTerminal, Lifecycle!Running
    <2>2. Lifecycle!RetainCause
      BY <2>1, <1>k, Zenon DEF NoCause, Lifecycle!RetainCause
    <2>3. QED
      BY <2>2, Zenon DEF Lifecycle!LifecycleNext
  <1>8. CASE PublishTerminal
    <2>1. /\ terminal # NoCause /\ Lifecycle!Running
          /\ status' = "Terminal" /\ UNCHANGED <<terminal, handle>>
      BY <1>8 DEF PublishTerminal, Lifecycle!Running
    <2>2. Lifecycle!PublishCause
      BY <2>1, <1>k, Zenon DEF NoCause, Lifecycle!PublishCause
    <2>3. QED
      BY <2>2, Zenon DEF Lifecycle!LifecycleNext
  <1>9. CASE BeginDrain
    <2>1. /\ ~(handle = "held") /\ terminal = NoCause /\ Lifecycle!Running
          /\ status' = "ShuttingDown" /\ UNCHANGED <<terminal, handle>>
      BY <1>9 DEF BeginDrain, SetStatus, Lifecycle!Running
    <2>2. Lifecycle!BeginShutdown
      BY <2>1, <1>k, Zenon DEF NoCause, Lifecycle!BeginShutdown
    <2>3. QED
      BY <2>2, Zenon DEF Lifecycle!LifecycleNext
  <1>10. CASE ServerReturns
    <2>1. UNCHANGED <<terminal, handle>>
      BY <1>10 DEF ServerReturns
    <2>2. \/ UNCHANGED status
          \/ terminal = NoCause /\ status = "ShuttingDown" /\ status' = "Stopped"
      BY <1>10 DEF ServerReturns, SetStatus
    <2>3. Lifecycle!Stop \/ UNCHANGED <<status, terminal, handle>>
      BY <2>1, <2>2, <1>k, Zenon DEF NoCause, Lifecycle!Stop
    <2>4. QED
      BY <2>3, <1>k, Zenon DEF Lifecycle!LifecycleNext
  <1>11. CASE \/ CheckShutdown \/ BindFails \/ EnterAcceptLoop \/ BackoffElapses
              \/ BackoffSeesShutdown \/ AcceptSeesShutdown \/ PollListener
              \/ NothingAccepted \/ Wake \/ ListenerLost \/ AbortClients
              \/ DrainTimesOut \/ ServerAborts
    BY <1>11 DEF CheckShutdown, BindFails, EnterAcceptLoop, BackoffElapses,
        BackoffSeesShutdown, AcceptSeesShutdown, PollListener, NothingAccepted, Wake,
        ListenerLost, AbortClients, DrainTimesOut, ServerAborts
  <1>12. CASE UNCHANGED vars \/ Finished
    BY <1>12 DEF vars, Finished
  <1>13. QED
    BY <1>1, <1>2, <1>3, <1>4, <1>5, <1>6, <1>7, <1>8, <1>9, <1>10, <1>11, <1>12
       DEF Next, ServerStep, HandleStep

(* The server task with all its connections implements the lifecycle that  *)
(* types.rs and handle.rs document.                                        *)
THEOREM ServerImplementsLifecycle == Spec => ImplementsLifecycle
  <1>1. Init => Lifecycle!LifecycleInit
    BY DEF Init, Lifecycle!LifecycleInit, NoCause
  <1>2. ControlInv /\ FlagsInv /\ [Next]_vars
          => [Lifecycle!LifecycleNext]_(Lifecycle!lifecycleVars)
    BY LifecycleStep DEF Lifecycle!lifecycleVars
  <1>3. QED
    BY <1>1, <1>2, ControlInvariant, FlagsInvariant, PTL
       DEF Spec, ImplementsLifecycle, Lifecycle!LifecycleSpec

(* No step leaves Stopped or Terminal. *)
THEOREM FinalStatusIsFinal == Spec => FinalStatusStays
  <1>1. ControlInv /\ FlagsInv /\ [Next]_vars
          => [Lifecycle!IsFinal(status) => status' = status]_vars
    <2> SUFFICES ASSUME ControlInv, FlagsInv, [Next]_vars, status \in {"Stopped", "Terminal"}
                 PROVE  status' = status
      BY DEF Lifecycle!IsFinal
    <2>1. [Lifecycle!LifecycleNext]_<<status, terminal, handle = "held">>
      BY LifecycleStep
    <2>2. QED
      BY <2>1 DEF Lifecycle!LifecycleNext, Lifecycle!Listen, Lifecycle!Retry,
          Lifecycle!RetainCause, Lifecycle!PublishCause, Lifecycle!GiveUpHandle,
          Lifecycle!BeginShutdown, Lifecycle!Stop, Lifecycle!Running
  <1>2. QED
    BY <1>1, ControlInvariant, FlagsInvariant, PTL DEF Spec, FinalStatusStays

-----------------------------------------------------------------------------
(* After the shutdown was requested. *)

LEMMA StepsLeftAreNat ==
    /\ pc \in PC => TaskStepsLeft \in Nat
    /\ handle \in {"held", "waiting", "dropping", "gone"} => HandleStepsLeft \in Nat
    /\ \A c \in Conns : phase[c] \in Phase => ConnStepsLeft(c) \in Nat
  <1>1. pc \in PC => TaskStepsLeft \in Nat
    BY DEF PC, TaskStepsLeft
  <1>2. handle \in {"held", "waiting", "dropping", "gone"} => HandleStepsLeft \in Nat
    BY DEF HandleStepsLeft
  <1>3. \A c \in Conns : phase[c] \in Phase => ConnStepsLeft(c) \in Nat
    BY DEF Phase, SlotPhases, ConnStepsLeft
  <1>4. QED
    BY <1>1, <1>2, <1>3

(* run_server itself: every select! it comes to leads out of its loops. *)
LEMMA TaskAdvances ==
    ASSUME shutdown,
           \/ CheckShutdown \/ BindOk \/ BindFails \/ EnterAcceptLoop \/ CountFailure
           \/ BackoffElapses \/ BackoffSeesShutdown
           \/ FaultTrips \/ AcceptSeesShutdown \/ PollListener \/ NothingAccepted
           \/ Wake \/ ListenerLost
           \/ PublishTerminal \/ AbortClients \/ BeginDrain \/ DrainTimesOut \/ ServerReturns
           \/ ServerAborts
    PROVE  TaskStepsLeft' < TaskStepsLeft /\ UNCHANGED <<phase, handle, shutdown>>
  <1> USE DEF connVars, handleVars
  <1>1. CASE CheckShutdown \/ BindOk \/ BindFails \/ EnterAcceptLoop
    <2>1. \/ pc \in {"Spawned", "Top"} /\ pc' = "Stopping"
          \/ pc = "Bind" /\ pc' \in {"Bound", "Failure"}
          \/ pc = "Bound" /\ pc' \in {"Accept", "Failure"}
      BY <1>1, Zenon DEF CheckShutdown, BindOk, BindFails, EnterAcceptLoop
    <2>2. TaskStepsLeft' < TaskStepsLeft
      BY <2>1 DEF TaskStepsLeft
    <2>3. QED
      BY <1>1, <2>2, Zenon DEF CheckShutdown, BindOk, BindFails, EnterAcceptLoop
  <1>2. CASE CountFailure \/ BackoffElapses \/ BackoffSeesShutdown
    <2>1. \/ pc = "Failure" /\ pc' \in {"PublishTerminal", "Backoff"}
          \/ pc = "Backoff" /\ pc' \in {"Top", "Stopping"}
      BY <1>2, Zenon DEF CountFailure, StoreTerminal, BackoffElapses, BackoffSeesShutdown
    <2>2. TaskStepsLeft' < TaskStepsLeft
      BY <2>1 DEF TaskStepsLeft
    <2>3. QED
      BY <1>2, <2>2, Zenon DEF CountFailure, BackoffElapses, BackoffSeesShutdown
  <1>3. CASE \/ FaultTrips \/ AcceptSeesShutdown \/ PollListener \/ NothingAccepted
             \/ Wake \/ ListenerLost
    <2>1. \/ pc = "Accept" /\ pc' \in {"PublishTerminal", "Stopping"}
          \/ pc = "Polled" /\ pc' \in {"Parked", "Accept", "Failure"}
          \/ pc = "Parked" /\ pc' = "Accept"
      BY <1>3, Zenon DEF FaultTrips, StoreTerminal, AcceptSeesShutdown, PollListener,
                  NothingAccepted, Wake, ListenerLost
    <2>2. TaskStepsLeft' < TaskStepsLeft
      BY <2>1 DEF TaskStepsLeft
    <2>3. QED
      BY <1>3, <2>2, Zenon DEF FaultTrips, AcceptSeesShutdown, PollListener, NothingAccepted, Wake,
                        ListenerLost
  <1>4. CASE PublishTerminal \/ AbortClients \/ BeginDrain \/ DrainTimesOut
    <2>1. \/ pc = "PublishTerminal" /\ pc' = "AbortClients"
          \/ pc = "AbortClients" /\ pc' = "JoinTerminal"
          \/ pc = "Stopping" /\ pc' = "Draining"
          \/ pc = "Draining" /\ pc' = "JoinDrain"
      BY <1>4, Zenon DEF PublishTerminal, AbortClients, BeginDrain, DrainTimesOut
    <2>2. TaskStepsLeft' < TaskStepsLeft
      BY <2>1 DEF TaskStepsLeft
    <2>3. QED
      BY <1>4, <2>2, Zenon DEF PublishTerminal, AbortClients, BeginDrain, DrainTimesOut
  <1>5. CASE ServerReturns \/ ServerAborts
    <2>1. /\ pc \in {"Spawned", "Parked", "Backoff", "JoinTerminal", "Draining", "JoinDrain"}
          /\ pc' \in {"Done", "Aborted"}
      BY <1>5, Zenon DEF ServerReturns, ServerAborts, Asleep
    <2>2. TaskStepsLeft' < TaskStepsLeft
      BY <2>1 DEF TaskStepsLeft
    <2>3. QED
      BY <1>5, <2>2, Zenon DEF ServerReturns, ServerAborts
  <1>6. QED
    BY <1>1, <1>2, <1>3, <1>4, <1>5, Zenon

(* A connection, on its own or when the server task admits or joins it. *)
LEMMA ConnectionAdvances ==
    ASSUME shutdown, phase \in [Conns -> Phase], NEW c \in Conns,
           ConnectionStep(c) \/ AcceptReaps(c) \/ AdmitConnection(c) \/ JoinNext(c)
    PROVE  /\ ConnStepsLeft(c)' < ConnStepsLeft(c)
           /\ \A d \in Conns : d # c => ConnStepsLeft(d)' = ConnStepsLeft(d)
           /\ UNCHANGED <<handle, shutdown>>
           /\ pc' = pc \/ (pc = "Polled" /\ pc' = "Accept")
  <1>1. \E v \in Phase :
           /\ phase' = [phase EXCEPT ![c] = v]
           /\ \/ phase[c] = "idle" /\ v \in {"handshake", "rejected"}
              \/ phase[c] = "handshake" /\ v \in {"busy", "released"}
              \/ phase[c] = "busy" /\ v \in {"open", "closing", "released"}
              \/ phase[c] = "open" /\ v \in {"closing", "released"}
              \/ phase[c] = "closing" /\ v = "released"
              \/ phase[c] = "released" /\ v = "finished"
              \/ phase[c] = "finished" /\ v = "reaped"
    <2>0. {"busy", "open", "closing", "released", "finished"} \subseteq Phase
      BY DEF Phase, SlotPhases
    <2>1. CASE \/ Handshake(c) \/ HandlerReturns(c) \/ HandlerCloses(c) \/ NextEvent(c)
               \/ PeerCloses(c) \/ ConnSeesShutdown(c) \/ TaskCompletes(c)
      BY <2>0, <2>1 DEF ConnStep, Handshake, HandlerReturns, HandlerCloses, NextEvent,
          PeerCloses, ConnSeesShutdown, TaskCompletes
    <2>2. CASE \/ HandshakeFails(c) \/ HandlerPanics(c) \/ FinishConnection(c) \/ ConnAborts(c)
      BY <2>0, <2>2 DEF Release, SlotPhases, HandshakeFails, HandlerPanics, FinishConnection,
          ConnAborts
    <2>3. CASE AcceptReaps(c) \/ AdmitConnection(c) \/ JoinNext(c)
      BY <2>3 DEF AcceptReaps, AdmitConnection, JoinNext, Phase, SlotPhases
    <2>4. QED
      BY <2>1, <2>2, <2>3 DEF ConnectionStep
  <1>2. PICK v \in Phase :
           /\ phase' = [phase EXCEPT ![c] = v]
           /\ \/ phase[c] = "idle" /\ v \in {"handshake", "rejected"}
              \/ phase[c] = "handshake" /\ v \in {"busy", "released"}
              \/ phase[c] = "busy" /\ v \in {"open", "closing", "released"}
              \/ phase[c] = "open" /\ v \in {"closing", "released"}
              \/ phase[c] = "closing" /\ v = "released"
              \/ phase[c] = "released" /\ v = "finished"
              \/ phase[c] = "finished" /\ v = "reaped"
    BY <1>1, Zenon
  <1>3. phase'[c] = v /\ \A d \in Conns : d # c => phase'[d] = phase[d]
    BY <1>2
  <1>4. ConnStepsLeft(c)' < ConnStepsLeft(c)
    BY <1>2, <1>3 DEF ConnStepsLeft
  <1>5. \A d \in Conns : d # c => ConnStepsLeft(d)' = ConnStepsLeft(d)
    BY <1>3, Zenon DEF ConnStepsLeft
  <1>6. /\ UNCHANGED <<handle, shutdown>>
        /\ pc' = pc \/ (pc = "Polled" /\ pc' = "Accept")
    BY Zenon DEF ConnectionStep, ConnStep, Release, Handshake, HandshakeFails, HandlerReturns,
        HandlerCloses, HandlerPanics, NextEvent, PeerCloses, ConnSeesShutdown,
        FinishConnection, ConnAborts, TaskCompletes, AcceptReaps, AdmitConnection, JoinNext,
        serverVars, handleVars
  <1>7. QED
    BY <1>4, <1>5, <1>6

(* Once shutdown_with_timeout or Drop has raised the flag, run_server, the  *)
(* connection tasks and the holder of the handle have a bounded number of   *)
(* steps before them and each step uses one up, for any number of clients   *)
(* and any retry policy, also one without max_attempts.                     *)
THEOREM ShutdownCannotCircle == Spec => ShutdownOnlyAdvances
  <1> DEFINE Advance ==
         /\ shutdown'
         /\ TaskStepsLeft' =< TaskStepsLeft /\ HandleStepsLeft' =< HandleStepsLeft
         /\ \A c \in Conns : ConnStepsLeft(c)' =< ConnStepsLeft(c)
         /\ \/ TaskStepsLeft' < TaskStepsLeft \/ HandleStepsLeft' < HandleStepsLeft
            \/ \E c \in Conns : ConnStepsLeft(c)' < ConnStepsLeft(c)
  <1>1. TypeOK /\ TypeOK' /\ [Next]_vars => [shutdown => Advance]_vars
    <2> SUFFICES ASSUME TypeOK, TypeOK', Next, vars' # vars, shutdown PROVE Advance
      OBVIOUS
    <2>1. /\ TaskStepsLeft \in Nat /\ TaskStepsLeft' \in Nat
          /\ HandleStepsLeft \in Nat /\ HandleStepsLeft' \in Nat
          /\ \A c \in Conns : ConnStepsLeft(c) \in Nat /\ ConnStepsLeft(c)' \in Nat
      <3>1. /\ TaskStepsLeft \in Nat /\ HandleStepsLeft \in Nat
            /\ \A c \in Conns : ConnStepsLeft(c) \in Nat
        BY StepsLeftAreNat DEF TypeOK
      <3>2. pc' \in PC => TaskStepsLeft' \in Nat
        BY DEF PC, TaskStepsLeft
      <3>3. handle' \in {"held", "waiting", "dropping", "gone"} => HandleStepsLeft' \in Nat
        BY DEF HandleStepsLeft
      <3>4. \A c \in Conns : phase'[c] \in Phase => ConnStepsLeft(c)' \in Nat
        BY DEF Phase, SlotPhases, ConnStepsLeft
      <3>5. QED
        BY <3>1, <3>2, <3>3, <3>4 DEF TypeOK
    <2>2. CASE \/ CheckShutdown \/ BindOk \/ BindFails \/ EnterAcceptLoop \/ CountFailure
               \/ BackoffElapses \/ BackoffSeesShutdown
               \/ FaultTrips \/ AcceptSeesShutdown \/ PollListener \/ NothingAccepted
               \/ Wake \/ ListenerLost
               \/ PublishTerminal \/ AbortClients \/ BeginDrain \/ DrainTimesOut
               \/ ServerReturns \/ ServerAborts
      <3>1. TaskStepsLeft' < TaskStepsLeft /\ UNCHANGED <<phase, handle, shutdown>>
        BY <2>2, TaskAdvances, Zenon
      <3>2. HandleStepsLeft' = HandleStepsLeft /\ \A c \in Conns : ConnStepsLeft(c)' = ConnStepsLeft(c)
        BY <3>1 DEF HandleStepsLeft, ConnStepsLeft
      <3>3. QED
        BY <2>1, <3>1, <3>2
    <2>3. ASSUME NEW c \in Conns,
                 ConnectionStep(c) \/ AcceptReaps(c) \/ AdmitConnection(c) \/ JoinNext(c)
          PROVE  Advance
      <3>1. /\ ConnStepsLeft(c)' < ConnStepsLeft(c)
            /\ \A d \in Conns : d # c => ConnStepsLeft(d)' = ConnStepsLeft(d)
            /\ UNCHANGED <<handle, shutdown>>
            /\ pc' = pc \/ (pc = "Polled" /\ pc' = "Accept")
        BY <2>3, ConnectionAdvances, Zenon DEF TypeOK
      <3>2. HandleStepsLeft' = HandleStepsLeft
        BY <3>1 DEF HandleStepsLeft
      <3>3. TaskStepsLeft' =< TaskStepsLeft
        <4>1. CASE pc' = pc
          <5>1. TaskStepsLeft' = TaskStepsLeft
            BY <4>1 DEF TaskStepsLeft
          <5>2. QED
            BY <2>1, <5>1
        <4>2. CASE pc = "Polled" /\ pc' = "Accept"
          BY <4>2 DEF TaskStepsLeft
        <4>3. QED
          BY <3>1, <4>1, <4>2
      <3>4. QED
        BY <2>1, <3>1, <3>2, <3>3
    <2>4. CASE HandleStep
      <3>1. /\ shutdown' /\ UNCHANGED <<pc, phase>>
            /\ \/ handle = "held" /\ handle' \in {"waiting", "dropping"}
               \/ handle \in {"waiting", "dropping"} /\ handle' = "gone"
        BY <2>4, Zenon DEF HandleStep, RequestShutdown, ShutdownReturns, ShutdownTimesOut,
                    DropSignals, DropAborts, serverVars, connVars
      <3>2. HandleStepsLeft' < HandleStepsLeft
        BY <3>1 DEF HandleStepsLeft
      <3>3. TaskStepsLeft' = TaskStepsLeft /\ \A c \in Conns : ConnStepsLeft(c)' = ConnStepsLeft(c)
        BY <3>1 DEF TaskStepsLeft, ConnStepsLeft
      <3>4. QED
        BY <2>1, <3>1, <3>2, <3>3
    <2>5. ~Finished
      BY DEF Finished
    <2>6. QED
      BY <2>2, <2>3, <2>4, <2>5 DEF Next, ServerStep
  <1>2. QED
    BY <1>1, TypeCorrect, PTL DEF Spec, ShutdownOnlyAdvances

(* AbortReachesAll is inductive: a slot is taken only at "Polled", and     *)
(* abort_all tells every task that the JoinSet holds.                      *)
THEOREM AbortsReachAll == Spec => []AbortReachesAll
  <1>1. Init => AbortReachesAll
    BY DEF Init, AbortReachesAll
  <1>2. SlotInv /\ AbortReachesAll /\ [Next]_vars => AbortReachesAll'
    <2> SUFFICES ASSUME SlotInv, AbortReachesAll, [Next]_vars,
                        pc' \in {"JoinTerminal", "JoinDrain", "Aborted"}
                 PROVE  SlotHolders' \subseteq abortReq'
      BY DEF AbortReachesAll
    <2>1. SlotHolders \subseteq JoinSet
      BY DEF SlotHolders, JoinSet, InPhase
    <2>2. SlotHolders' \subseteq SlotHolders
      <3>1. CASE NoConnEdge
        BY <3>1 DEF NoConnEdge, SlotHolders, InPhase
      <3>2. ASSUME NEW c \in Conns, ConnEdge(c) PROVE SlotHolders' \subseteq SlotHolders
        BY <3>2 DEF ConnEdge, SlotHolders, InPhase, SlotPhases, SlotInv
      <3>3. QED
        BY <3>1, <3>2, OneConnectionAtATime
    <2>3. \/ abortReq' = abortReq \cup JoinSet
          \/ abortReq' = abortReq /\ pc' = pc
      <3>1. CASE ServerStep
        BY <3>1 DEF ServerStep, AbortAll, CheckShutdown, BindOk, BindFails, EnterAcceptLoop,
            CountFailure, StoreTerminal, BackoffElapses, BackoffSeesShutdown, FaultTrips,
            AcceptSeesShutdown, AcceptReaps, PollListener, NothingAccepted, Wake,
            ListenerLost, AdmitConnection, PublishTerminal, AbortClients, BeginDrain,
            DrainTimesOut, JoinNext, ServerReturns, ServerAborts, serverVars, connVars
      <3>2. CASE HandleStep
        BY <3>2 DEF HandleStep, RequestShutdown, ShutdownReturns, ShutdownTimesOut,
                    DropSignals, DropAborts, serverVars, connVars
      <3>3. ASSUME NEW c \in Conns, ConnectionStep(c) PROVE abortReq' = abortReq /\ pc' = pc
        BY <3>3 DEF ConnectionStep, ConnStep, Release, Handshake, HandshakeFails,
            HandlerReturns, HandlerCloses, HandlerPanics, NextEvent, PeerCloses,
            ConnSeesShutdown, FinishConnection, ConnAborts, TaskCompletes, serverVars
      <3>4. CASE UNCHANGED vars \/ Finished
        BY <3>4 DEF vars, Finished, serverVars, connVars
      <3>5. QED
        BY <3>1, <3>2, <3>3, <3>4 DEF Next
    <2>4. QED
      BY <2>1, <2>2, <2>3 DEF AbortReachesAll
  <1>3. QED
    BY <1>1, <1>2, SlotInvariant, PTL DEF Spec
=============================================================================
