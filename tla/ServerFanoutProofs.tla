-------------------------- MODULE ServerFanoutProofs --------------------------
(* Proofs about ServerFanout, for any clients, callers and channel size. *)
EXTENDS ServerFanout, TLAPS

(* The server task publishes Terminal after its cause and begins to shut   *)
(* down only once the handle is given up; a call in progress borrows it.   *)
HandleInv ==
    /\ status \in Status /\ terminal \in Cause \cup {NoCause} /\ owned \in BOOLEAN
    /\ status = "Terminal" => terminal # NoCause
    /\ status \in {"ShuttingDown", "Stopped"} => ~owned
    /\ dispatching \in [Callers -> {"idle", "status", "recheck", "send"}]
    /\ saidStopped \in [Callers -> BOOLEAN]
    /\ \A d \in Callers : /\ dispatching[d] # "idle" => owned
                          /\ dispatching[d] = "recheck" => terminal # NoCause
    /\ waiter \in {"idle", "reading", "sleeping"} /\ expected \in Status
    /\ saidSettled \in BOOLEAN /\ changed \in BOOLEAN
    /\ DispatchNeverStopped
    /\ WaiterInformed

(* Where each task is, why it closes and what it wrote. *)
TaskInv ==
    /\ phase \in [Conns -> Receiving \cup {"idle", "ended", "dropped"}]
    /\ cause \in [Conns -> Causes]
    /\ wire \in [Conns -> {"clean", "handler", "server", "transport"}]
    /\ \A c \in Conns :
          /\ phase[c] \in {"idle", "handshake", "handling", "writing", "open"} => cause[c] = "None"
          /\ phase[c] # "ended" => wire[c] \in {"clean", "handler"}
          /\ phase[c] = "closing" => cause[c] # "None"
          /\ cause[c] = "HandlerRequested" => wire[c] = "handler"
    /\ CloseTellsCause

(* The cursors of the channel, and what was read through them.  A task that *)
(* is not yet admitted has read nothing.                                     *)
CursorInv ==
    /\ tail \in Nat /\ next \in [Conns -> Nat] /\ admittedAt \in [Conns -> Nat]
    /\ seen \in [Conns -> Seq(Nat)]
    /\ \A c \in Conns : /\ next[c] =< tail /\ admittedAt[c] =< tail
                        /\ phase[c] \in {"idle", "handshake"} => seen[c] = << >>
    /\ GapFree

FanoutInv == HandleInv /\ TaskInv /\ CursorInv

LEMMA InitEstablishesFanoutInv == Init => FanoutInv
  <1> SUFFICES ASSUME Init PROVE FanoutInv
    OBVIOUS
  <1>1. HandleInv
    BY Zenon DEF Init, LifecycleInit, HandleInv, Status, NoCause, DispatchNeverStopped, WaiterInformed
  <1>2. TaskInv
    BY DEF Init, TaskInv, Causes, Receiving, CloseTellsCause
  <1>3. CursorInv
    <2>1. \A c \in Conns : next[c] = 0 /\ admittedAt[c] = 0 /\ seen[c] = << >>
      BY DEF Init
    <2>2. \A c \in Conns : Len(seen[c]) = 0
      BY <2>1
    <2>3. GapFree
      BY <2>1, <2>2 DEF GapFree
    <2>4. seen \in [Conns -> Seq(Nat)]
      BY DEF Init
    <2>5. QED
      BY <2>1, <2>3, <2>4 DEF Init, CursorInv
  <1>4. QED
    BY <1>1, <1>2, <1>3 DEF FanoutInv

-----------------------------------------------------------------------------
(* The handle and the server task. *)

LEMMA ServerStepKeepsHandleInv ==
    ASSUME HandleInv, ServerStep
    PROVE  HandleInv'
  <1>0. waiter # "idle" /\ ~changed' => ~changed /\ status' = status
    BY Zenon DEF ServerStep
  <1>1. changed' \in BOOLEAN
    BY DEF ServerStep
  <1> USE DEF HandleInv, ServerStep, lifecycleVars, callVars, DispatchNeverStopped,
              WaiterInformed, Status, Running, IsFinal, Cause, NoCause
  <1>2. CASE Listen \/ Retry
    BY <1>0, <1>1, <1>2 DEF Listen, Retry
  <1>3. CASE RetainCause \/ PublishCause
    BY <1>0, <1>1, <1>3 DEF RetainCause, PublishCause
  <1>4. CASE GiveUpHandle
    BY <1>0, <1>1, <1>4, Zenon DEF GiveUpHandle, Unborrowed
  <1>5. CASE BeginShutdown
    BY <1>0, <1>1, <1>5 DEF BeginShutdown
  <1>6. CASE Stop
    BY <1>0, <1>1, <1>6 DEF Stop
  <1>7. QED
    BY <1>2, <1>3, <1>4, <1>5, <1>6 DEF LifecycleNext

LEMMA DispatchKeepsHandleInv ==
    ASSUME HandleInv, NEW d \in Callers,
           \/ DispatchReadsCause(d) \/ DispatchReadsStatus(d)
           \/ DispatchRereadsCause(d) \/ DispatchSends(d)
    PROVE  HandleInv'
  <1>1. UNCHANGED <<status, terminal, owned, waiter, expected, saidSettled, changed>>
    BY DEF DispatchReadsCause, DispatchReadsStatus, DispatchRereadsCause, DispatchSends,
           Dispatch, lifecycleVars, waitVars
  <1>2. \E to \in {"idle", "status", "recheck", "send"} :
           /\ dispatching' = [dispatching EXCEPT ![d] = to]
           /\ saidStopped' = [saidStopped EXCEPT ![d] = FALSE]
           /\ to # "idle" => owned
           /\ to = "recheck" => terminal # NoCause
    <2>1. CASE DispatchReadsCause(d)
      BY <2>1 DEF DispatchReadsCause, Dispatch
    <2>2. CASE DispatchReadsStatus(d)
      <3>1. dispatching[d] = "status" /\ owned
        BY <2>2 DEF DispatchReadsStatus, Dispatch, HandleInv
      <3>2. Running \/ status = "Terminal"
        BY <3>1 DEF HandleInv, Status, Running
      <3>3. CASE Running
        BY <2>2, <3>1, <3>3, Zenon DEF DispatchReadsStatus, Dispatch, AfterStatus
      <3>4. CASE ~Running /\ status = "Terminal"
        BY <2>2, <3>1, <3>4, Zenon DEF DispatchReadsStatus, Dispatch, AfterStatus, HandleInv
      <3>5. QED
        BY <3>2, <3>3, <3>4
    <2>3. CASE DispatchRereadsCause(d)
      BY <2>3, Zenon DEF DispatchRereadsCause, Dispatch, HandleInv
    <2>4. CASE DispatchSends(d)
      BY <2>4 DEF DispatchSends, Dispatch
    <2>5. QED
      BY <2>1, <2>2, <2>3, <2>4
  <1>3. QED
    BY <1>1, <1>2 DEF HandleInv, DispatchNeverStopped, WaiterInformed

LEMMA WaitKeepsHandleInv ==
    ASSUME HandleInv, WaitCalled \/ WaitReads \/ WaitWakes \/ WaitTimesOut
    PROVE  HandleInv'
  <1> USE DEF HandleInv, Wait, lifecycleVars, callVars, DispatchNeverStopped, WaiterInformed
  <1>1. CASE WaitCalled
    BY <1>1, FanoutAssumption, Zenon DEF WaitCalled
  <1>2. CASE WaitReads
    <2>1. /\ UNCHANGED <<status, terminal, owned, dispatching, saidStopped, expected>>
          /\ waiter' \in {"idle", "sleeping"} /\ changed' = FALSE
          /\ waiter' = "sleeping" => status # expected /\ ~IsFinal(status)
      BY <1>2 DEF WaitReads, Settled
    <2>2. \/ saidSettled' = saidSettled
          \/ saidSettled' = TRUE /\ IsFinal(status) /\ status # expected
      BY <1>2 DEF WaitReads, Settled
    <2>3. (saidSettled \in BOOLEAN /\ changed \in BOOLEAN)'
      BY <2>1, <2>2, Zenon
    <2>4. WaiterInformed'
      BY <2>1, <2>2 DEF IsFinal
    <2>5. QED
      BY <2>1, <2>3, <2>4
  <1>3. CASE WaitWakes
    BY <1>3 DEF WaitWakes
  <1>4. CASE WaitTimesOut
    BY <1>4, Zenon DEF WaitTimesOut
  <1>5. QED
    BY <1>1, <1>2, <1>3, <1>4

LEMMA ConnectionKeepsHandleInv ==
    ASSUME HandleInv, UNCHANGED <<lifecycleVars, callVars, waitVars>>
    PROVE  HandleInv'
  BY DEF HandleInv, lifecycleVars, callVars, waitVars, DispatchNeverStopped, WaiterInformed,
         IsFinal

-----------------------------------------------------------------------------
(* A connection task. *)

(* Every step of a task moves it from one phase to another and leaves the  *)
(* handle, the server task and the other tasks alone.                      *)
LEMMA ConnectionFrame ==
    ASSUME NEW c \in Conns, ConnectionStep(c)
    PROVE  UNCHANGED <<lifecycleVars, tail, callVars, waitVars>>
  BY DEF ConnectionStep, AdmitConnection, Handshake, HandshakeFails, HandlerReturns,
         HandlerCloses, HandlerFails, WriteFrame, WriteFails, ConnSeesShutdown, PeerCloses,
         OtherEvent, ReceiveCommand, ReceiveLagged, FinishConnection,
         ConnDropped, LoopEnds, ConnStep

LEMMA ConnectionKeepsTaskInv ==
    ASSUME TaskInv, NEW c \in Conns, ConnectionStep(c)
    PROVE  TaskInv'
  <1> USE DEF TaskInv, CloseTellsCause, Receiving, Causes, ConnStep
  <1>1. CASE AdmitConnection(c) \/ Handshake(c) \/ HandshakeFails(c)
    BY <1>1 DEF AdmitConnection, Handshake, HandshakeFails
  <1>2. CASE HandlerReturns(c) \/ OtherEvent(c)
    BY <1>2 DEF HandlerReturns, OtherEvent
  <1>3. CASE HandlerCloses(c)
    BY <1>3 DEF HandlerCloses, LoopEnds, Write, Refuses
  <1>4. CASE HandlerFails(c)
    BY <1>4 DEF HandlerFails, LoopEnds
  <1>5. CASE WriteFrame(c)
    BY <1>5 DEF WriteFrame, Write, Refuses
  <1>8. CASE WriteFails(c)
    BY <1>8 DEF WriteFails, LoopEnds, Write, Refuses
  <1>6. CASE ConnSeesShutdown(c) \/ PeerCloses(c)
    BY <1>6 DEF ConnSeesShutdown, PeerCloses, LoopEnds
  <1>7. CASE ReceiveCommand(c) \/ ReceiveLagged(c)
    BY <1>7 DEF ReceiveCommand, ReceiveLagged, LoopEnds
  <1>9. CASE FinishConnection(c)
    <2>1. /\ phase[c] = "closing" /\ phase' = [phase EXCEPT ![c] = "ended"] /\ cause' = cause
          /\ wire' = [wire EXCEPT ![c] = IF wire[c] # "clean" THEN @
                                         ELSE IF OwnCloseFrame(c) THEN "server" ELSE "transport"]
      BY <1>9 DEF FinishConnection, Write, Refuses
    <2>2. cause[c] # "None" /\ wire[c] \in {"clean", "handler"}
      BY <2>1
    <2>3. QED
      BY <2>1, <2>2 DEF OwnCloseFrame
  <1>10. CASE ConnDropped(c)
    BY <1>10 DEF ConnDropped
  <1>11. QED
    BY <1>1, <1>2, <1>3, <1>4, <1>5, <1>6, <1>7, <1>8, <1>9, <1>10 DEF ConnectionStep

-----------------------------------------------------------------------------
(* The channel. *)

(* A step that reads nothing, and forgets no cause of Lagged. *)
LEMMA NothingRead ==
    ASSUME CursorInv, tail' \in Nat, tail =< tail', UNCHANGED <<next, admittedAt, seen>>,
           \A c \in Conns : /\ cause[c] = "Lagged" => cause'[c] = "Lagged"
                            /\ phase'[c] \in {"idle", "handshake"} => phase[c] \in {"idle", "handshake"}
    PROVE  CursorInv'
  <1>1. GapFree'
    BY DEF CursorInv, GapFree
  <1>2. QED
    BY <1>1 DEF CursorInv

LEMMA ReadKeepsCursorInv ==
    ASSUME CursorInv, TaskInv, NEW c \in Conns, ReceiveCommand(c)
    PROVE  CursorInv'
  <1>1. /\ next[c] < tail /\ tail' = tail /\ phase[c] = "open"
        /\ phase' = [phase EXCEPT ![c] = "handling"]
        /\ seen' = [seen EXCEPT ![c] = Append(@, next[c])]
        /\ next' = [next EXCEPT ![c] = @ + 1]
        /\ UNCHANGED <<admittedAt, cause>>
    BY DEF ReceiveCommand, ConnStep
  <1>2. next[c] = admittedAt[c] + Len(seen[c])
    BY <1>1 DEF TaskInv, CursorInv, GapFree
  <1>3. /\ seen'[c] = Append(seen[c], next[c]) /\ next'[c] = next[c] + 1
        /\ seen[c] \in Seq(Nat) /\ next[c] \in Nat /\ admittedAt[c] \in Nat
    BY <1>1 DEF CursorInv
  <1>4. /\ seen'[c] \in Seq(Nat) /\ Len(seen'[c]) = Len(seen[c]) + 1
        /\ \A i \in 1 .. Len(seen'[c]) :
              seen'[c][i] = IF i =< Len(seen[c]) THEN seen[c][i] ELSE next[c]
    BY <1>3
  <1>5. \A i \in 1 .. Len(seen[c]) : seen[c][i] = admittedAt[c] + i - 1
    BY DEF CursorInv, GapFree
  <1>6. /\ \A i \in 1 .. Len(seen'[c]) : seen'[c][i] = admittedAt[c] + i - 1
        /\ next'[c] = admittedAt[c] + Len(seen'[c])
    <2>1. Len(seen[c]) \in Nat
      BY <1>3
    <2>2. ASSUME NEW i \in 1 .. Len(seen'[c]), i =< Len(seen[c])
          PROVE  seen'[c][i] = admittedAt[c] + i - 1
      <3>1. i \in 1 .. Len(seen[c])
        BY <1>4, <2>1, <2>2
      <3> QED
        BY <1>4, <1>5, <2>2, <3>1
    <2>3. ASSUME NEW i \in 1 .. Len(seen'[c]), ~(i =< Len(seen[c]))
          PROVE  seen'[c][i] = admittedAt[c] + i - 1
      <3>1. i = Len(seen[c]) + 1
        BY <1>4, <2>1, <2>3
      <3> QED
        BY <1>2, <1>3, <1>4, <2>1, <2>3, <3>1
    <2>4. next'[c] = admittedAt[c] + Len(seen'[c])
      BY <1>2, <1>3, <1>4, <2>1
    <2> QED
      BY <2>2, <2>3, <2>4
  <1>7. \A d \in Conns : d # c => seen'[d] = seen[d] /\ next'[d] = next[d] /\ phase'[d] = phase[d]
    BY <1>1 DEF CursorInv, TaskInv
  <1>8. GapFree'
    BY <1>1, <1>6, <1>7 DEF CursorInv, GapFree
  <1>9. seen' \in [Conns -> Seq(Nat)]
    BY <1>1, <1>3, <1>4 DEF CursorInv
  <1>10. \A d \in Conns : phase'[d] \in {"idle", "handshake"} => seen'[d] = << >>
    BY <1>1, <1>7 DEF CursorInv, TaskInv
  <1>11. (next \in [Conns -> Nat] /\ \A d \in Conns : next[d] =< tail)'
    BY <1>1, <1>3, <1>7 DEF CursorInv
  <1>12. QED
    BY <1>1, <1>8, <1>9, <1>10, <1>11 DEF CursorInv

LEMMA LagKeepsCursorInv ==
    ASSUME CursorInv, TaskInv, NEW c \in Conns, ReceiveLagged(c)
    PROVE  CursorInv'
  <1>1. /\ next[c] + Capacity < tail /\ tail' = tail /\ phase[c] = "open"
        /\ phase' = [phase EXCEPT ![c] = "closing"]
        /\ next' = [next EXCEPT ![c] = tail - Capacity]
        /\ cause' = [cause EXCEPT ![c] = "Lagged"]
        /\ UNCHANGED <<admittedAt, seen>>
    BY DEF ReceiveLagged, Lagging, LoopEnds, ConnStep
  <1>2. /\ next[c] \in Nat /\ tail \in Nat /\ Capacity \in Nat /\ admittedAt[c] \in Nat
        /\ Len(seen[c]) \in Nat
    BY FanoutAssumption DEF CursorInv
  <1>3. next[c] = admittedAt[c] + Len(seen[c])
    BY <1>1 DEF TaskInv, CursorInv, GapFree
  <1>4. /\ next'[c] = tail - Capacity /\ next'[c] \in Nat /\ next'[c] =< tail
        /\ next'[c] > admittedAt[c] + Len(seen[c])
    BY <1>1, <1>2, <1>3 DEF CursorInv
  <1>5. /\ cause'[c] = "Lagged" /\ phase'[c] = "closing"
        /\ \A d \in Conns : d # c => next'[d] = next[d] /\ cause'[d] = cause[d] /\ phase'[d] = phase[d]
    BY <1>1 DEF CursorInv, TaskInv
  <1>6. GapFree'
    BY <1>1, <1>4, <1>5 DEF CursorInv, GapFree
  <1>7. (next \in [Conns -> Nat] /\ \A d \in Conns : next[d] =< tail)'
    BY <1>1, <1>4, <1>5 DEF CursorInv
  <1>8. QED
    BY <1>1, <1>5, <1>6, <1>7 DEF CursorInv

LEMMA AdmitKeepsCursorInv ==
    ASSUME CursorInv, TaskInv, NEW c \in Conns, AdmitConnection(c)
    PROVE  CursorInv'
  <1>1. /\ phase[c] = "idle" /\ phase' = [phase EXCEPT ![c] = "handshake"]
        /\ next' = [next EXCEPT ![c] = tail]
        /\ admittedAt' = [admittedAt EXCEPT ![c] = tail]
        /\ UNCHANGED <<tail, seen, cause>>
    BY DEF AdmitConnection, ConnStep
  <1>2. seen[c] = << >> /\ Len(seen[c]) = 0
    BY <1>1 DEF CursorInv
  <1>3. \A d \in Conns : IF d = c THEN next'[d] = tail /\ admittedAt'[d] = tail
                         ELSE /\ next'[d] = next[d] /\ admittedAt'[d] = admittedAt[d]
                              /\ phase'[d] = phase[d]
    BY <1>1 DEF CursorInv, TaskInv
  <1>4. GapFree'
    <2>1. tail \in Nat /\ seen' = seen /\ cause' = cause
      BY <1>1 DEF CursorInv
    <2> SUFFICES ASSUME NEW d \in Conns
                 PROVE  /\ \A i \in 1 .. Len(seen[d]) : seen[d][i] = admittedAt'[d] + i - 1
                        /\ \/ next'[d] = admittedAt'[d] + Len(seen[d])
                           \/ cause[d] = "Lagged" /\ next'[d] > admittedAt'[d] + Len(seen[d])
      BY <2>1 DEF GapFree
    <2>2. CASE d = c
      BY <1>2, <1>3, <2>1, <2>2
    <2>3. CASE d # c
      BY <1>3, <2>3 DEF CursorInv, GapFree
    <2>4. QED
      BY <2>2, <2>3
  <1>5. QED
    BY <1>1, <1>2, <1>3, <1>4 DEF CursorInv

LEMMA ConnectionKeepsCursorInv ==
    ASSUME CursorInv, TaskInv, NEW c \in Conns, ConnectionStep(c)
    PROVE  CursorInv'
  <1>1. CASE AdmitConnection(c)
    BY <1>1, AdmitKeepsCursorInv
  <1>2. CASE ReceiveCommand(c)
    BY <1>2, ReadKeepsCursorInv
  <1>3. CASE ReceiveLagged(c)
    BY <1>3, LagKeepsCursorInv
  <1>4. CASE ~(AdmitConnection(c) \/ ReceiveCommand(c) \/ ReceiveLagged(c))
    <2>1. UNCHANGED <<tail, next, admittedAt, seen>>
      BY <1>4, ConnectionFrame
         DEF ConnectionStep, Handshake, HandshakeFails, HandlerReturns, HandlerCloses,
             HandlerFails, WriteFrame, WriteFails, ConnSeesShutdown, PeerCloses, OtherEvent,
             FinishConnection, ConnDropped, LoopEnds, KeepChannel
    <2>2. \E to \in {"handling", "writing", "open", "closing", "ended", "dropped"} :
             phase' = [phase EXCEPT ![c] = to]
      BY <1>4
         DEF ConnectionStep, Handshake, HandshakeFails, HandlerReturns, HandlerCloses,
             HandlerFails, WriteFrame, WriteFails, ConnSeesShutdown, PeerCloses, OtherEvent,
             FinishConnection, ConnDropped, LoopEnds, ConnStep
    <2>3. \/ cause' = cause
          \/ \E why : cause' = [cause EXCEPT ![c] = why] /\ phase[c] \in {"handling", "writing", "open"}
      BY <1>4
         DEF ConnectionStep, Handshake, HandshakeFails, HandlerReturns, HandlerCloses,
             HandlerFails, WriteFrame, WriteFails, ConnSeesShutdown, PeerCloses, OtherEvent,
             FinishConnection, ConnDropped, LoopEnds, ConnStep
    <2>4. \A d \in Conns :
             /\ cause[d] = "Lagged" => cause'[d] = "Lagged"
             /\ phase'[d] \in {"idle", "handshake"} => phase[d] \in {"idle", "handshake"}
      BY <2>2, <2>3 DEF TaskInv
    <2>5. QED
      BY <2>1, <2>4, NothingRead DEF CursorInv
  <1>5. QED
    BY <1>1, <1>2, <1>3, <1>4

-----------------------------------------------------------------------------
LEMMA StepKeepsFanoutInv == FanoutInv /\ [Next]_vars => FanoutInv'
  <1> SUFFICES ASSUME FanoutInv, [Next]_vars PROVE FanoutInv'
    OBVIOUS
  <1> USE DEF FanoutInv
  <1>1. CASE ServerStep
    <2>1. HandleInv'
      BY <1>1, ServerStepKeepsHandleInv
    <2>2. UNCHANGED <<tail, next, admittedAt, phase, cause, wire, seen>>
      BY <1>1 DEF ServerStep, channelVars, connVars
    <2>3. TaskInv'
      BY <2>2 DEF TaskInv, CloseTellsCause
    <2>4. CursorInv'
      BY <2>2, NothingRead DEF CursorInv
    <2>5. QED
      BY <2>1, <2>3, <2>4
  <1>2. CASE WaitCalled \/ WaitReads \/ WaitWakes \/ WaitTimesOut
    <2>1. HandleInv'
      BY <1>2, WaitKeepsHandleInv
    <2>2. UNCHANGED <<tail, next, admittedAt, phase, cause, wire, seen>>
      BY <1>2 DEF WaitCalled, WaitReads, WaitWakes, WaitTimesOut, Wait, channelVars, connVars
    <2>3. TaskInv'
      BY <2>2 DEF TaskInv, CloseTellsCause
    <2>4. CursorInv'
      BY <2>2, NothingRead DEF CursorInv
    <2>5. QED
      BY <2>1, <2>3, <2>4
  <1>3. ASSUME NEW d \in Callers,
               \/ DispatchReadsCause(d) \/ DispatchReadsStatus(d)
               \/ DispatchRereadsCause(d) \/ DispatchSends(d)
        PROVE  FanoutInv'
    <2>1. HandleInv'
      BY <1>3, DispatchKeepsHandleInv
    <2>2. /\ UNCHANGED <<next, admittedAt, phase, cause, wire, seen>>
          /\ tail' = tail \/ tail' = tail + 1
      BY <1>3 DEF DispatchReadsCause, DispatchReadsStatus, DispatchRereadsCause, DispatchSends,
                  Dispatch, connVars
    <2>3. TaskInv'
      BY <2>2 DEF TaskInv, CloseTellsCause
    <2>4. CursorInv'
      BY <2>2, NothingRead DEF CursorInv
    <2>5. QED
      BY <2>1, <2>3, <2>4
  <1>4. ASSUME NEW c \in Conns, ConnectionStep(c)
        PROVE  FanoutInv'
    BY <1>4, ConnectionFrame, ConnectionKeepsHandleInv, ConnectionKeepsTaskInv,
       ConnectionKeepsCursorInv
  <1>5. CASE UNCHANGED vars
    <2>1. UNCHANGED <<lifecycleVars, callVars, waitVars>>
          /\ UNCHANGED <<tail, next, admittedAt, phase, cause, wire, seen>>
      BY <1>5 DEF vars, channelVars, connVars
    <2>2. HandleInv'
      BY <2>1, ConnectionKeepsHandleInv
    <2>3. TaskInv'
      BY <2>1 DEF TaskInv, CloseTellsCause
    <2>4. CursorInv'
      BY <2>1, NothingRead DEF CursorInv
    <2>5. QED
      BY <2>2, <2>3, <2>4
  <1>6. QED
    BY <1>1, <1>2, <1>3, <1>4, <1>5 DEF Next, HandleStep, Finished

LEMMA FanoutInvariant == Spec => []FanoutInv
  BY InitEstablishesFanoutInv, StepKeepsFanoutInv, PTL DEF Spec

(* Every variable of the fanout has its type and no receiver of the        *)
(* broadcast channel is ahead of it.                                       *)
THEOREM FanoutTypeCorrect == Spec => []FanoutTypeOK
  <1>1. FanoutInv => FanoutTypeOK
    BY DEF FanoutInv, HandleInv, TaskInv, CursorInv, FanoutTypeOK
  <1>2. QED
    BY <1>1, FanoutInvariant, PTL

(* run_connection_loop gives a handler the commands dispatched since its   *)
(* socket was admitted, in order and without a gap, for any number of      *)
(* clients and any retained_commands_per_client.                           *)
THEOREM CommandsHaveNoGap == Spec => []GapFree
  <1>1. FanoutInv => GapFree
    BY DEF FanoutInv, CursorInv
  <1>2. QED
    BY <1>1, FanoutInvariant, PTL

(* finish_connection tells a client why it is cut off, unless the handler  *)
(* has sent a close frame before, for any clients and channel size.        *)
THEOREM ClosesTellWhy == Spec => []CloseTellsCause
  <1>1. FanoutInv => CloseTellsCause
    BY DEF FanoutInv, TaskInv
  <1>2. QED
    BY <1>1, FanoutInvariant, PTL

(* No dispatch returns Stopped, whatever the server task does between its  *)
(* reads of the cause and of the status.                                   *)
THEOREM DispatchIsNeverStopped == Spec => []DispatchNeverStopped
  <1>1. FanoutInv => DispatchNeverStopped
    BY DEF FanoutInv, HandleInv
  <1>2. QED
    BY <1>1, FanoutInvariant, PTL

(* When wait_for_status has returned Settled the server stays in a final   *)
(* status that is not the expected one, and no change of the status that   *)
(* would let it return is missed between its read and its sleep.           *)
THEOREM WaiterIsInformed == Spec => []WaiterInformed
  <1>1. FanoutInv => WaiterInformed
    BY DEF FanoutInv, HandleInv
  <1>2. QED
    BY <1>1, FanoutInvariant, PTL

(* A command is handed to a handler only while it is among the last        *)
(* Capacity that were dispatched.                                          *)
THEOREM CommandsAreFresh == Spec => ServedFresh
  <1>1. FanoutInv /\ [Next]_vars
           => [\A c \in Conns : seen'[c] # seen[c] => tail - next[c] =< Capacity]_vars
    <2> SUFFICES ASSUME FanoutInv, Next, NEW c \in Conns, seen'[c] # seen[c]
                 PROVE  tail - next[c] =< Capacity
      OBVIOUS
    <2>1. PICK d \in Conns : ReceiveCommand(d)
      BY DEF Next, ServerStep, HandleStep, WaitCalled, WaitReads, WaitWakes, WaitTimesOut,
             Wait, DispatchReadsCause, DispatchReadsStatus, DispatchRereadsCause,
             DispatchSends, Dispatch, connVars, Finished, vars, ConnectionStep,
             AdmitConnection, Handshake, HandshakeFails, HandlerReturns, HandlerCloses,
             HandlerFails, WriteFrame, WriteFails, ConnSeesShutdown, PeerCloses, OtherEvent,
             ReceiveLagged, FinishConnection, ConnDropped, LoopEnds,
             KeepChannel
    <2>2. seen' = [seen EXCEPT ![d] = Append(@, next[d])] /\ ~Lagging(d)
      BY <2>1 DEF ReceiveCommand
    <2>3. d = c
      BY <2>2 DEF FanoutInv, CursorInv
    <2>4. QED
      BY <2>2, <2>3, FanoutAssumption DEF Lagging, FanoutInv, CursorInv
  <1>2. QED
    BY <1>1, FanoutInvariant, PTL DEF Spec, ServedFresh

-----------------------------------------------------------------------------
(* The refinement of CommandBroadcast. *)

PlaceOf == [c \in Conns |-> Place(c)]

(* A task that stays a subscriber, or stays none, moves nobody. *)
LEMMA SamePlaces ==
    ASSUME \A c \in Conns : Place(c)' = Place(c)
    PROVE  PlaceOf' = PlaceOf
  BY DEF PlaceOf

LEMMA OnePlaceMoves ==
    ASSUME NEW c \in Conns, NEW to, Place(c)' = to,
           \A d \in Conns \ {c} : phase'[d] = phase[d] /\ cause'[d] = cause[d]
    PROVE  PlaceOf' = [PlaceOf EXCEPT ![c] = to]
  <1>1. \A d \in Conns \ {c} : Place(d)' = Place(d)
    BY DEF Place
  <1>2. QED
    BY <1>1, Zenon DEF PlaceOf

(* The task of a connection touches its own phase and cause only. *)
LEMMA OthersStay ==
    ASSUME TaskInv, NEW c \in Conns, ConnectionStep(c)
    PROVE  \A d \in Conns \ {c} : phase'[d] = phase[d] /\ cause'[d] = cause[d]
  <1>1. \E to : phase' = [phase EXCEPT ![c] = to]
    BY Zenon DEF ConnectionStep, AdmitConnection, Handshake, HandshakeFails, HandlerReturns,
           HandlerCloses, HandlerFails, WriteFrame, WriteFails, ConnSeesShutdown, PeerCloses,
           OtherEvent, ReceiveCommand, ReceiveLagged, FinishConnection,
           ConnDropped, LoopEnds, ConnStep
  <1>2. cause' = cause \/ \E why : cause' = [cause EXCEPT ![c] = why]
    BY DEF ConnectionStep, AdmitConnection, Handshake, HandshakeFails, HandlerReturns,
           HandlerCloses, HandlerFails, WriteFrame, WriteFails, ConnSeesShutdown, PeerCloses,
           OtherEvent, ReceiveCommand, ReceiveLagged, FinishConnection,
           ConnDropped, LoopEnds
  <1>3. QED
    BY <1>1, <1>2 DEF TaskInv

LEMMA InitIsBroadcastInit == Init => Broadcast!BroadcastInit
  BY DEF Init, Broadcast!BroadcastInit, Place

(* While a task is subscribed, its receiver stands at the next command. *)
LEMMA CursorIsUpcoming ==
    ASSUME FanoutInv, NEW c \in Conns, cause[c] = "None"
    PROVE  /\ next[c] = Broadcast!Upcoming(c) /\ next[c] \in Nat /\ tail \in Nat
           /\ Broadcast!Behind(c) = tail - next[c]
  BY DEF FanoutInv, CursorInv, GapFree, Broadcast!Upcoming, Broadcast!Behind

(* What one step of a connection's task is to the broadcast. *)
LEMMA ConnectionBroadcasts ==
    ASSUME FanoutInv, NEW c \in Conns, ConnectionStep(c)
    PROVE  \/ UNCHANGED Broadcast!broadcastVars
           \/ Broadcast!Join(c) \/ Broadcast!Deliver(c)
           \/ Broadcast!CutOff(c) \/ Broadcast!Leave(c)
  <1> USE DEF Broadcast!broadcastVars, Broadcast!Join, Broadcast!Deliver, Broadcast!CutOff,
              Broadcast!Leave, Broadcast!Move, Broadcast!Elsewhere
  <1>1. \A d \in Conns \ {c} : phase'[d] = phase[d] /\ cause'[d] = cause[d]
    BY OthersStay DEF FanoutInv
  <1>2. /\ phase \in [Conns -> Receiving \cup {"idle", "ended", "dropped"}]
        /\ cause \in [Conns -> Causes]
        /\ phase[c] \in {"idle", "handshake", "handling", "writing", "open"} => cause[c] = "None"
    BY DEF FanoutInv, TaskInv
  <1>3. tail' = tail
    BY ConnectionFrame
  <1>4. CASE AdmitConnection(c)
    <2>1. Place(c) = "outside" /\ Place(c)' = "in"
      BY <1>2, <1>4 DEF AdmitConnection, ConnStep, Place
    <2>2. PlaceOf' = [PlaceOf EXCEPT ![c] = "in"]
      BY <1>1, <2>1, OnePlaceMoves
    <2>3. Broadcast!Join(c)
      BY <1>3, <1>4, <2>1, <2>2 DEF AdmitConnection, PlaceOf
    <2>4. QED
      BY <2>3
  <1>5. CASE ReceiveCommand(c)
    <2>1. Place(c) = "in" /\ Place(c)' = "in" /\ cause[c] = "None"
      BY <1>2, <1>5 DEF ReceiveCommand, ConnStep, Place
    <2>2. PlaceOf' = PlaceOf
      BY <1>1, <2>1, SamePlaces DEF Place
    <2>3. Broadcast!Behind(c) \in 1 .. Capacity
      BY <1>5, <2>1, CursorIsUpcoming, FanoutAssumption DEF ReceiveCommand, Lagging
    <2>4. seen' = [seen EXCEPT ![c] = Append(@, Broadcast!Upcoming(c))]
      BY <1>5, <2>1, CursorIsUpcoming, Zenon DEF ReceiveCommand
    <2>5. Broadcast!Deliver(c)
      BY <1>3, <1>5, <2>1, <2>2, <2>3, <2>4, Zenon DEF ReceiveCommand, PlaceOf
    <2>6. QED
      BY <2>5
  <1>6. CASE ReceiveLagged(c)
    <2>1. Place(c) = "in" /\ Place(c)' = "lagged" /\ cause[c] = "None"
      BY <1>2, <1>6 DEF ReceiveLagged, LoopEnds, ConnStep, Place
    <2>2. PlaceOf' = [PlaceOf EXCEPT ![c] = "lagged"]
      BY <1>1, <2>1, OnePlaceMoves
    <2>3. Broadcast!Behind(c) > Capacity
      BY <1>6, <2>1, CursorIsUpcoming, FanoutAssumption DEF ReceiveLagged, Lagging
    <2>4. Broadcast!CutOff(c)
      BY <1>3, <1>6, <2>1, <2>2, <2>3 DEF ReceiveLagged, LoopEnds, PlaceOf
    <2>5. QED
      BY <2>4
  <1>7. CASE ~(AdmitConnection(c) \/ ReceiveCommand(c) \/ ReceiveLagged(c))
    <2>1. UNCHANGED <<admittedAt, seen>>
      BY <1>7
         DEF ConnectionStep, Handshake, HandshakeFails, HandlerReturns, HandlerCloses,
             HandlerFails, WriteFrame, WriteFails, ConnSeesShutdown, PeerCloses, OtherEvent,
             FinishConnection, ConnDropped, LoopEnds, KeepChannel
    <2>2. \/ Place(c)' = Place(c)
          \/ Place(c) = "in" /\ Place(c)' = "out"
      <3>1. CASE Handshake(c) \/ HandlerReturns(c) \/ WriteFrame(c) \/ OtherEvent(c)
        <4>1. /\ phase[c] \in {"handshake", "handling", "writing", "open"}
              /\ phase'[c] \in {"handling", "writing", "open"}
          BY <1>2, <3>1 DEF Handshake, HandlerReturns, WriteFrame, OtherEvent, ConnStep
        <4>2. cause' = cause
          BY <3>1 DEF Handshake, HandlerReturns, WriteFrame, OtherEvent
        <4>3. QED
          BY <1>2, <4>1, <4>2 DEF Place
      <3>2. CASE HandshakeFails(c)
        BY <1>2, <3>2 DEF HandshakeFails, ConnStep, Place
      <3>3. CASE \/ HandlerCloses(c) \/ HandlerFails(c) \/ WriteFails(c)
                 \/ ConnSeesShutdown(c) \/ PeerCloses(c)
        <4>1. phase[c] \in {"handling", "writing", "open"} /\ phase'[c] = "closing"
          BY <1>2, <3>3 DEF HandlerCloses, HandlerFails, WriteFails, ConnSeesShutdown, PeerCloses,
                            LoopEnds, ConnStep
        <4>2. cause'[c] # "Lagged"
          BY <1>2, <3>3 DEF HandlerCloses, HandlerFails, WriteFails, ConnSeesShutdown, PeerCloses,
                            LoopEnds
        <4>3. QED
          BY <1>2, <4>1, <4>2 DEF Place
      <3>4. CASE FinishConnection(c) \/ ConnDropped(c)
        <4>1. phase[c] \in Receiving /\ phase'[c] \in {"ended", "dropped"}
          BY <1>2, <3>4 DEF FinishConnection, ConnDropped, ConnStep, Receiving
        <4>2. cause' = cause
          BY <3>4 DEF FinishConnection, ConnDropped
        <4>3. QED
          BY <1>2, <4>1, <4>2 DEF Place, Receiving
      <3>5. QED
        BY <1>7, <3>1, <3>2, <3>3, <3>4 DEF ConnectionStep
    <2>3. CASE Place(c)' = Place(c)
      <3>1. PlaceOf' = PlaceOf
        BY <1>1, <2>3, SamePlaces DEF Place
      <3>2. QED
        BY <1>3, <2>1, <3>1 DEF PlaceOf
    <2>4. CASE Place(c) = "in" /\ Place(c)' = "out"
      <3>1. PlaceOf' = [PlaceOf EXCEPT ![c] = "out"]
        BY <1>1, <2>4, OnePlaceMoves
      <3>2. Broadcast!Leave(c)
        BY <1>3, <2>1, <2>4, <3>1 DEF PlaceOf
      <3>3. QED
        BY <3>2
    <2>5. QED
      BY <2>2, <2>3, <2>4
  <1>8. QED
    BY <1>4, <1>5, <1>6, <1>7

(* The fanout refines CommandBroadcast, for any clients, callers and       *)
(* channel size: dispatch sends, admit_connection joins, and a connection  *)
(* task delivers the next retained command, cuts its client off or leaves. *)
THEOREM FanoutImplementsBroadcast == Spec => ImplementsBroadcast
  <1>1. FanoutInv /\ [Next]_vars => [Broadcast!BroadcastNext]_Broadcast!broadcastVars
    <2> SUFFICES ASSUME FanoutInv, [Next]_vars
                 PROVE  [Broadcast!BroadcastNext]_Broadcast!broadcastVars
      OBVIOUS
    <2>1. CASE \E c \in Conns : ConnectionStep(c)
      BY <2>1, ConnectionBroadcasts DEF Broadcast!BroadcastNext
    <2>2. CASE UNCHANGED <<channelVars, connVars>>
      BY <2>2 DEF channelVars, connVars, Broadcast!broadcastVars, Place
    <2>3. CASE \E d \in Callers : DispatchSends(d)
      BY <2>3 DEF DispatchSends, Dispatch, connVars, Broadcast!BroadcastNext, Broadcast!Send,
                  Broadcast!broadcastVars, Place
    <2>4. QED
      BY <2>1, <2>2, <2>3
         DEF Next, ServerStep, HandleStep, WaitCalled, WaitReads, WaitWakes, WaitTimesOut, Wait,
             DispatchReadsCause, DispatchReadsStatus, DispatchRereadsCause, Dispatch, Finished,
             vars, channelVars
  <1>2. QED
    BY <1>1, InitIsBroadcastInit, FanoutInvariant, PTL
       DEF Spec, ImplementsBroadcast, Broadcast!BroadcastSpec
===============================================================================
