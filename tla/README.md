# Formal model of shared-ws

TLA+ specifications of `shared-ws`, model-checked with
TLC on small instances and proved with TLAPS for every value of their constants.
`PROJECT.json` maps each definition to the source lines it stands for and lists
the runs, mutants, findings, hazards and theorems.

## The system

| Part | State | Operations | Talks to |
| --- | --- | --- | --- |
| server task (`ws/server/runtime.rs`) | failure count, backoff, origin, accepted, `JoinSet` | bind, accept, admit, reap, retry, drain, abort | connection tasks, `ServerShared` |
| connection task (`run_connection`) | its place, its `ConnectionSlot` | handshake, events, close | handler, peer, shutdown watch, command broadcast |
| server handle (`handle.rs`) | status watch, terminal `OnceLock`, shutdown watch, budget | dispatch, wait, shutdown, drop | server task |
| managed client loop (`ws/managed.rs`) | authenticated, pending commands, is_reconnect | connect, authenticate, replay, serve, reconnect | command channel, handler, transport, reconnect strategy |
| loop handle | command sender, status cell, join handle | send, shutdown, drop | client loop |
| health-checked loop | as above, `ping_sleep` | as above, ping, staleness | monitor, ping strategy |
| health monitor (`core/health.rs`) | clocks, counters, error logs, histogram | record, reset, is_stale | health-checked loop |
| ping strategies (`core/ping.rs`) | last ping and pong, pending keys | create_ping, handle_inbound, is_stale, reset | health-checked loop |
| circuit breaker, backoff (`core/connection_policy.rs`, `core/reconnect.rs`) | circuit state, counters, current delay | can_proceed, record, next_delay, reset | whoever connects |
| fixture recorder and policy (`fixture.rs`, `fixture_policy.rs`) | files, a process-wide registry | write, register, validate, allow | tungstenite transport |
| transports (`transport/`, `client.rs`, `testing.rs`) | channels or a split socket, identifiers | connect, accept, read, write, drop | the loops, tests |

What makes it hard: the server task, its connections and the handle run on
different threads and meet in two watches, a write-once cell, an atomic counter
and a `JoinSet`; aborts land at whatever await a task is in; the client loop
keeps commands and subscriptions across connections that break at any write;
`select!` may look at the shutdown flag, a timer or a socket in any order; results
reach the breaker after it has changed state; and fixture files are replaced while
the policy reads them one by one.

What should be true, in one line each: the connection budget is exact; no
connection outlives the server task; the server publishes one end state and its
cause first; a shutdown or a drop ends the task; commands reach the wire in order
and at most once; nothing is written before authentication; the peer's
subscriptions agree with the manager's; status and notifications are truthful;
a silent peer is noticed in time; a live websocket needs complete captures; every
transport delivers frames in order and ends only when drained.

`docs/architecture/*.md` describe an earlier actor-based design (delegated
requests, ingress, latency policy, a writer actor). Only its data types are left
in the source, so there is nothing to model; where those documents speak of
behaviour the loop still has, they are compared with it (below).

## Modules

**`ServerLifecycle`** is what the holder of a server handle may rely on: the order
of the statuses, the cause retained before `Terminal` is published, no shutdown
while the handle is held, and final statuses that stay.

**`ManagedServer`** models `run_server`, `run_accept_loop`, `admit_connection`,
`run_connection` with its event loop, `drain_clients`, `abort_clients`,
`ConnectionSlot`, and the handle's shutdown and drop. `pc` is where the server
task is, `phase[c]` where the task of socket `c` is. A step is what a task does
between two accesses to shared state, so `set_terminal` is two steps
(`StoreTerminal`, `PublishTerminal`), the biased `select!` reads the flag and the
`JoinSet` (`PollListener`) before the listener, and `Drop` is two. A task that
returns, panics or is aborted drops its slot (`released`) a moment before it can
be joined (`finished`); at most `Workers` tasks are between the two. What a
connection reads and writes is abstracted to `busy`, `open` and `closing`: which
command or frame an event carries belongs to `ServerFanout`.

**`ServerFanout`** puts `dispatch`, `wait_for_status`, the broadcast channel and the
event loop of each connection on top of `ServerLifecycle`, the specification that
`ManagedServer` is proved to implement. A command is its position in the channel:
`tail` is how many were sent, `next[c]` the cursor of a receiver, and a receiver lags
when its slot was overwritten (`next + Capacity < tail`). `dispatch` is one step per
access to shared state (cause, status, cause again, send). A connection waits
(`open`), has called its handler (`handling`), writes the frames of a reply or a pong
one by one (`writing`), or goes through `finish_connection` (`closing`, `closed`).
`wire[c]` says whose close frame the stream took: the handler's (its `Close` action, or a
`WsFrame::Close` among the frames of a reply, after which the loop goes on), the server's
own, or a bare one. The stream refuses every write after the first of them (`Refuses`),
so a later write fails and ends the loop as a transport error, and a later close frame is
lost. `Capacity` is the channel's own: tokio rounds
`retained_commands_per_client` up to a power of two, which `FanoutAssumption` states.

**`CommandBroadcast`** is what the handlers of a server's connections may rely on: whoever
joined gets the commands sent since, each once, in order and only while it is retained,
or is cut off. `ServerFanout` implements it with a connection's phase mapped to its
`Place` (outside, in, lagged, out); statuses, replies, frames and the callers are its own.

**`ManagedClient`** models `run_managed_ws_loop` and `ManagedWsLoopHandle`. The
channel is a growing `log` with `recvd` as the loop's position; `pending` and
`delivered` hold positions in it, which makes order and loss statements about
numbers. `desired` is what the subscription manager would replay, `live` what the
peer has in force on this connection. `Disconnect` is the common tail of every
failure: store the status, classify, ask the strategy, notify, then return, start
over at once, or wait. The handler, the strategy, the transport and the peer may
answer anything in `Classify`, `RetryAnswers`, `Delays`.

**`HealthCheckedClient`** has `run_health_checked_managed_ws_loop`. The source repeats the
managed loop with additions, and so does the module: each action is written from the
health-checked loop's own lines, and only what the two share in the source (channel,
handle, `reconnect_delay`, `replay_subscriptions`, `apply_command`,
`command_requires_auth`) is taken from `ManagedClient`. That the loop nevertheless
behaves like the managed one is `ImplementsManagedLoop`. Instants are ages; `stalled`
counts the time the loop was held up in a write or late for its timer. Strategies:
`ProtocolPingPong` and `ServerDrivenProtocolPingPong`.

**`ApplicationPing`** is the third strategy, `WsApplicationPingPong`, as the ping and
reader branches of the same loop call it: `pending` is the map from keys to ages,
`oldest` the cached instant. A round is `is_stale` (`NotStale`), `create_ping` with its
`cleanup_stale` (`CreatePing`, `PingSkipped`) and the write (`PingWritten`); the clock
may run between any two of them. The keys are the caller's: never repeated while
pending, or repeated freely.

**`ConnectionPolicy`** has `WsCircuitBreaker` and `ExponentialBackoffReconnect`. The
caller may have several attempts under way (`inflight`), so that a result is reported
to a circuit that has opened or half opened since. `until` is the time left; a factor
is a fraction, with denominator 0 for one that is not finite; products are rounded to
whole units, as `from_secs_f64` rounds to nanoseconds. `streak`, `wins`, `sinceTrip`
and `lastDelay` are history, kept independently of the code's counters.

**`HealthMonitor`** has the part of `WsHealthMonitor` that belongs to one connection:
messages, errors, the two `CircularBuffer`s and the latency histogram. The histogram
is external: the values recorded, a refusal outside its bounds, and a percentile that is
the top of a bucket of `Width` values. `serverLog`, `internalLog` and `rtts` are
history.

**`FixtureGate`** has `WsFixture::write`, the registry, `ensure_live_ws_allowed` and
`validate_required_ws_contracts`. A check goes through its inventory file by file;
a live check holds the registry's mutex while it does, and `Register` waits for it. A
file is `present` and holds a fixture or nothing readable: `WriteBegins` truncates it,
`WriteEnds` fills it, `WriteDies` leaves it. The environment may change between two
calls, so each read of a flag may answer either way. A text is the JSON text of a `core`
under any number of layers, quotes outside and escapes (`inner`) inside: `write` undoes
up to four layers of quotes and `read` up to four more of either kind, and an object
that `write` gets to see is laid out anew. `captured`, `admitted` and `clean` are history.

**`FrameStreams`** is what the users of a connection may rely on, whichever transport
made it: each direction is a stream whose reader gets the written frames in order, then
perhaps the end, and nothing after it. On a socket the library's answers stand among the
written frames, each to a Ping or a Close that its side has read, and a side that has
sent or read a Close takes no more frames of its user.

**`Transports`** has the three implementations of `WsTransport` and their peers. A
connection is two channels; `tx` and `rx` are the ends that live, `chan` the frames in
flight. What keeps an end alive differs: a `MockTransport` and the futures of its
`connect` hold a sender, the halves of a split socket hold each other (`SenderUp`).
`ReconnectableMockTransport::connect` is two steps, the identifier and the connection.
The socket is the library's and keeps order until the network cuts it (`Cut`). Reading a
Ping or a Close leaves an answer waiting (`owed`), one at a time: a newer answer or a Pong
of the user replaces it, a Close of the user makes it moot, and it goes out when a half
is polled (`Reply`). After a Close no write is accepted (`Active`), and the accepting side
sees the end once it has answered (`Finished`), while the connecting side waits for the
other to hang up. A close frame stands for one whose code the wire allows; with another
code the peer's library ends the connection, as a cut does. A call
that the gate refuses is one of the failures of `ConnectSocketFails`. As an
implementation of `FrameStreams` it shows what was taken (`sent`), handed out (`got`) and
seen to end (`ended`); the frames in flight, the waiting answers and the ends of the channels are its own.

**`MC*`** modules are what TLC is run on; **`*Proofs`** modules hold theorems only.

Modelling assumptions: a subscription manager changes its set only through
`update_subscriptions`, whose messages bring the peer from the old set to the new;
frames the handler itself asks to write (`WsMessageAction::Send`) are not commands;
a write that fails half-way ends the connection, so what it left at the peer is not
recorded; no other thread looks at the client's status between the two statements
`notify_disconnect` and `status.store` (they come in either order in the code, with
no await between them). `SessionBreaks` covers every frame, read error or handler error that
breaks the session, a failing ping or pong write and `InvalidPong` included.
`session_mode()` is taken to answer the same on every connection of a loop. The code
asks again each time; a handler that changed its answer from AuthGated to Public would
have commands that were deferred on one connection written after newer ones on the next,
and `InOrder` would not hold.

## Runs

| Run | Checks | Instance |
| --- | --- | --- |
| `server` | `SlotAccounting` `JoinSetBounded` `NoOrphans` `RetryBudget` `ImplementsLifecycle` `ShutdownEndsTask` `HandleGoneFreesSlots` | 4 clients, 1 slot, 3 attempts, fault after 3 sockets, fair |
| `client` | `AuthGate` `SubscriptionsConverge` `InOrder` `StatusTruthful` `LifecycleReports` `LossIsAccounted` `StopEndsLoop` `DropEndsLoop` | 1 subscription, 2 commands, both modes, 2 authentications, every answer of handler and strategy, fair |
| `fanout` | `GapFree` `CloseTellsCause` `DispatchNeverStopped` `WaiterInformed` `ImplementsBroadcast` | 2 clients, 1 dispatcher, 1 waiter, capacity 1, 2 commands |
| `ping` | `OverdueEndsSession` `UniqueKeysNeverStaleByMistake` | 4 keys, both key policies, at most 3 pending, interval 1, timeout 4, one unit of hold-up |
| `health` | `SilenceBounded` `UnansweredBounded` `ImplementsManagedLoop` | interval 1, timeout 0, threshold 2, one unit of hold-up, saturation at 2 |
| `policy` | `BreakerCounts` `DelaysGrow` `ChangesForCause` `OpenEnds` | 3 attempts at once, thresholds 3 and 2, cool-down 2, saturation at 3, durations 0, 1, 5, factors 2, 1/2 and infinity, fair |
| `monitor` | `RingsHoldLatest` `StatsConsistent` | rings of 2, 3 errors of each kind, histogram 1 to 4 in buckets of 2, 3 round trips inside and outside of it |
| `gate` | `GateSound` `RefusedForCause` `RoundTrip` `CheckEnds` | 2 checkers, 2 files, 2 inventories, a capture, a synthesized fixture and one that is refused, fair |
| `transports` | `EndMeansDrained` `NoSharedConnection` `AcceptOrder` `ImplementsStreams` `DropIsSeen` | 3 transports, 2 calls, 2 connections, 2 frames and their answers, 2 drops, fair |

Bounds and why they are enough. Server: more clients
than slots make a rejection, a reuse of a slot and a drain of several tasks happen;
four of them exceed the bound of three on the `JoinSet` when reaping is skipped;
three attempts give two waits (2, 4) and the exhaustion. Client:
`MaxCommands` caps what the application issues (the owner's own `Shutdown`s come on
top), two allow a deferred command and one that follows or breaks a write; `MaxReplays` caps how often the peer confirms authentication on one
connection; connections are not bounded, since a reconnect returns to an earlier
state. Health: times are in units of the model; the values make the timeout shorter
than the interval and let the data clock, the ping clock and a hold-up overlap.
Fanout: the default capacity of one makes a client lag with the second command;
`MaxCommands` is the last command whose dispatch may begin; one client can lag, be in
its handshake or be closed while the other is served. With a capacity of one nothing is
rounded up; that a client is closed beyond the capacity of the channel, and so up to
nearly twice `retained_commands_per_client` behind, is left to the proofs, which have any
`Retained`. A second waiter or dispatcher
adds nothing that one does not meet, since callers share no state but the channel.
Ping: the timeout spans several rounds, so that the map fills, and its oldest entry
expires, is answered or is replaced while younger ones are pending.
Policy: three attempts are enough for one to open the circuit while two are out, of
which one half opens it and the other reports late; the counters reach saturation.
Monitor: a third error evicts; `MaxErrors`, `MaxSamples` and `MaxAge` bound one
connection, and a reset returns to the start.
Gate: one inventory asks for an error file and one does not, and they name the files in
opposite order, so that a check over a swapped registry would mix them. The capture is
an object under as many quotes as `write` undoes; the synthesized text has escapes under
more quotes than both sides undo; the third is a text that `write` refuses.
Transports: `MaxConnects`, `MaxFrames` and `MaxDrops` bound connections, frames
and dropped handles or cuts. Two of each let a second call overlap the first, two
frames change places, and a handle be dropped on each side of a connection. The frames
are a Ping, a Close whose reason is not text, and the Text of `into_ws_frame`, with the
library's Pong and Close in answer; the other types are carried like these.
The theorems below remove these bounds for the properties they name. Deadlock is
checked in every run but `transports`, where all handles may be dropped and nothing
is left to do; elsewhere `Finished`, or a file and a registry that may always change,
keeps the model going.

Symmetry is used in `fanout`, over clients, which are interchangeable in
the model and in its properties; all of them are safety properties.

### Fairness

Server: weak fairness of the server task, of aborted connection tasks, of a
finished task being marked so, and of the second half of `Drop`. tokio polls a
woken task and fires its timers; an aborted task is dropped where it waits. Nothing
is assumed of peers or handlers, which may never return.

Client: weak fairness of leaving the top of the loop, of an abort at an await the loop
stays in, and of the second half of `Drop`; strong fairness of receiving, and of an abort
at the `select!`s. `select!` picks its branches at random, so a command that waits is
taken in the end although frames keep arriving; a task that stays at an await is pending
there, and one that comes back to a `select!` over and over is made to yield by the
runtime's budget. `connect`, authentication, replay and flush have no timeout: nothing says
that they return, nor that they are ever pending. (The write of a command just received
is one step with its receipt and is taken to return.) `StopEndsLoop` therefore
speaks of loops that keep coming back to a `select!`, whatever happens between; a loop in
a connect that hangs does not see its `Shutdown`, nor does one that reconnects with a
zero delay for ever, since `wait_reconnect_delay_or_shutdown` then returns without polling
the channel. `DropEndsLoop` covers the loop that hangs, because drop aborts, and excludes
only `Spins`: attempt after attempt without reaching a `select!`, where an abort lands
only if some connect is pending, which nothing guarantees. `StopEndsLoop` is
written as "again and again, a stop that is requested has been heeded"; a request
stands until the loop has ended (`StopIsKept`, proved), so this says that every
request is heeded. `DropIsSeen` has the same form, with `WaitOnlyDrains` (proved).

Policy: time goes on, an attempt comes to an end, and a caller that may ask does so
(weak fairness of each); without a caller nothing leaves Open, since `can_proceed` is
what looks at the clock. Gate: a call that has begun goes on, being a thread of its
own. Transports: whoever holds a receiver goes on polling it (weak fairness of receiving
or seeing the end, per channel); nothing is assumed of writers, drops or the library's
answers. On a socket `DropIsSeen` also takes it that a hang-up or a cut reaches the
reader; a partition in which nothing arrives is what the health-checked loop is for.

### Where the documents and the code differ

Each is a run in which TLC violates what the document says.

* `server_doc_shutdown`: a shutdown requested while the last permitted bind fails,
  or while an injected fault trips, ends in `Terminal`; `types.rs` says it never does.
* `client_doc_reported`: the three `Shutdown` exits skip `on_connection_disconnected`,
  "Called whenever an established connection disconnects".
* `ping_doc_stale`: with a key that is used again while pending, `oldest_pending` keeps
  the instant of a ping that is no longer in the map, and `is_stale` is true without an
  overdue ping; `pluggable_pingpong.md` says it is the oldest pending ping that counts.

Met while modelling, plain in the code and not given runs of their own:

* an aborted connection is dropped at an await, so its handler never sees `Closed`,
  "Final event for every connection" (`types.rs`);
* `finish_connection` discards the action a handler returns for `Closed` with its close
  frame, which the same comment exempts;
* `ensure_live_ws_allowed` also lets through `SHARED_WS_ALLOW_LIVE_WITHOUT_FIXTURES`, where
  the repository's README names fixture-capture mode as the only exception (`GateSound`
  speaks of calls that neither flag let through), and the connect functions of
  `client.rs` do not ask the policy.

## Proofs

Assumptions: `ConfigAssumption` (what the two `validate` functions enforce, and at
least one worker), `ClientAssumption`, `HealthAssumption` and `PingAssumption` (types
of the constants, finitely many keys), `FanoutAssumption` (types, and what the channel
makes of the configured capacity), `PolicyAssumption` and `TransportAssumption` (types),
`MonitorAssumption` (types, and an error counter wide enough to count both rings),
`GateAssumption` (types). No bound on clients, commands, subscriptions or times is assumed.

**`ManagedServerProofs`.** `SlotInv` adds to the slot and `JoinSet` bounds how many
tasks are released, that the listener is polled only with no finished task left
(so `JoinSet` is at most slots plus workers there, and admission adds one), and that a
task is done only with an empty `JoinSet`. Every step moves at most one connection
along one of a few edges (`OneConnectionAtATime`), so cardinalities are argued once
per edge. `Published` ties `pc` to the status, the cause and the ownership of the
handle: it is what makes "exactly one end" inductive and gives the refinement
(`LifecycleStep`: each step is a lifecycle step or a stutter). `ShutdownOnlyAdvances` is
the measure behind `ShutdownEndsTask`: with a shutdown requested every step takes the
task, a connection or the handle closer to its end and none further away
(`TaskAdvances`, `ConnectionAdvances`), so the retry and accept loops are left for good.
`AbortReachesAll` is why the last joins wait for nobody who was not told to abort.
Proved: `TypeOK`, `SlotAccounting`, `JoinSetBounded`, `NoOrphans`, `ExactlyOneEnd`,
`RetryBudget`, `ImplementsLifecycle`, `FinalStatusStays`, `ShutdownOnlyAdvances`,
`AbortReachesAll`.

**`ClientLoopProofs`**, the managed loop. `GateInv` (a flush or an authenticated
AuthGated session has been confirmed on this connection), `ConvergeInv` (nothing is in force before
the replay; flushing keeps agreement), `ReportInv` (flags and status at each `pc`),
`OrderInv` (pending and delivered positions increase, everything delivered is older
than everything pending, an authenticated session has nothing pending),
`ChannelInv`. A Shutdown at the head of the queue can only be received by a step that
ends the loop (`ShutdownReceivedEnds`), and every other receive leaves it in its place:
this is `StopIsKept`, which also has that senders, a pending abort and the end of the
loop do not come back. Proved: `TypeOK`, `AuthGate`, `SubscriptionsConverge`,
`StatusTruthful`, `LifecycleReports`, `InOrder`, `LossIsAccounted`, `StopIsKept`.

The same module, the health-checked loop. Group by group its steps are shown to be steps
of the managed loop, or to leave its state alone: the common end is a `Disconnect`
(`EndIsDisconnect`), opening is an attempt, a command taken or awaited is a receive, a
frame is a flush or a break, a failing ping is a break (`HealthStepIsLoopStep`). With
`ChannelInv`, that the channel holds commands, this is the refinement, and all of the
above carries over (`HealthLoopKeepsPromises`). `ClockInv` bounds silence plus
the time left of `ping_sleep`, which is what survives the passing of time;
`PingInv` says a ping counted as unanswered is the strategy's; `CountInv` follows
the counters through the wait. `UnansweredBounded` assumes a timeout below the interval;
with a longer one each ping overwrites the last before it can be found stale, and nothing
is claimed. Proved: `ImplementsManagedLoop`, `HealthTypeOK`,
`SilenceBounded`, `UnansweredBounded`, `CountersConsistent`.

**`ServerFanoutProofs`.** `HandleInv` is why `dispatch` never says `Stopped`: a call in
progress borrows the handle, a shutdown begins only without it, and `Terminal` is
published after its cause; it also keeps a settled server settled, and a waiter asleep
only while its last read is current or a change is there to wake it. `TaskInv` follows
the close frame: until a task has ended only its handler can have sent one, and has when
it asked to close; what `finish_connection` adds is taken only by a stream that has none.
`CursorInv` has the cursors behind the channel and `GapFree` itself; it needs that a
task which has not finished its handshake has read nothing. The refinement goes
connection by connection: a step changes the place of at most one of them
(`OnePlaceMoves`), and `CursorInv` makes its cursor the command the abstract subscriber
is to get next (`CursorIsUpcoming`), so that "overwritten" is "behind by more than is
kept". Proved: `FanoutTypeOK`, `GapFree`, `ServedFresh`, `CloseTellsCause`,
`DispatchNeverStopped`, `WaiterInformed`, `ImplementsBroadcast`.

**`ApplicationPingProofs`.** `Cached` says what survives of "the minimum of the map": the
cached instant is as old as every ping, and with unique keys it is one of theirs.
`RoundInv` bounds its age by the time since the last check or cleanup. That the minimum
of a nonempty map exists is `GreatestExists`, from well-foundedness of the naturals.
Proved: `PingTypeOK`, `PendingBounded`, `OverdueEndsSession`,
`UniqueKeysNeverStaleByMistake`.

**`ConnectionPolicyProofs`.** The counters' invariant is inductive once the thresholds are
known to lie within `MaxU32`: below its threshold a counter has not saturated, so it
equals the history. `ChangesForCause` follows from it action by action. For the delays,
`ScaledGrows` shows that a product with a factor above 1, rounded, is not smaller.
`CoolDownOnlyRuns` is the step behind `OpenEnds`. Proved: `PolicyTypeOK`, `BreakerCounts`,
`ChangesForCause`, `DelaysGrow`, `CoolDownOnlyRuns`.

**`FixtureGateProofs`.** `GateInv`: a readable capture is in `captured`, which only grows
(`FilesInv`); a checker in its loop has captured every item before the current one, and
a live one holds the lock, which pins the registry (`LoopInv`); it enters the loop as a
fresh call (`EntryInv`). `TextInv` says that what a file holds, or a recorder
is about to put there, reads back without its eight outermost layers, for any number of
them (`EightLayers`: four undone by `write` and four by `read` are eight).
Two facts behind `CheckEnds`: the holder of the registry's mutex is on its way through
the inventory (`LockIsBusy`; `BusyInv` adds that its place is within the inventory), and
what a checker has before it there falls with each of its steps and with nobody else's
(`CheckOnlyAdvances`; the inventory in use is pinned while it is read).
Proved: `GateTypeOK`, `GateSound`, `RefusedForCause`, `RoundTrip`, `LockIsBusy`,
`CheckOnlyAdvances`.

**`TransportsProofs`.** `ConnInv`: identifiers in use are distinct and at most `conn_seq`,
and a mock's receiver is taken once.
`OwedInv`: an answer waits only on a socket whose direction has no Close yet, and answers
a frame that was read. `FrameInv`: what was received and what is in flight together are a prefix of what was
put (`Fits`), and lack frames at the end only once nothing more can be added
(`Complete`), which is why a frame appended to the channel stands at the right place.
`LineInv`: the accepted and then the waiting connections form a line in which nobody
stands before a connection that was open when their own call took its identifier. What
a call found open stays counted as open (`OpenedStays`), and the connection that joins at
the end was not open before, so nobody ahead of it has found it.
`AcceptInv`: while the server lives what is open is in the line, and after the `None` of
`accept_connection` nothing can join it. `EndInv`: a channel that was seen to end is
empty, and unless it was cut it is `Silent`: no sender can come back, or a Close was sent
on it, after which neither user nor library adds anything; this needs that ends
are made only for connections no earlier call has. The refinement (`StreamStep`) takes
`FrameInv` for what a reader gets and `EndInv` for what follows an end. Behind
`DropIsSeen`: the two ends a `WsClient` holds of a socket go together (`PairInv`), so a
reader whose sender was dropped is kept from the end by nobody else (`EndIsAhead`); and
since senders are made only for new connections, it has ever fewer frames before the end
(`WaitOnlyDrains`). Proved:
`TransportTypeOK`, `NoSharedConnection`, `FramesArriveInOrder`, `AcceptOrder`,
`EndMeansDrained`, `ImplementsStreams`, `EndIsAhead`, `WaitOnlyDrains`.

**`HealthMonitorProofs`.** `PushKeepsLatest`: pushing on a ring that holds the latest of a
history gives the latest of the longer history, for every capacity, 0 included.
`RankIsReached`: every recorded value is within the bounds, so the upper bound reaches
every rank and a least value that does exists (`LeastExists`, from well-foundedness of
the naturals); `PercentilesOrdered`: whatever reaches rank 99 reaches rank 50.
`MonitorInv` adds that the histogram has one value for each round trip, since `Clamped`
brings every value within the bounds. Proved: `MonitorTypeOK`, `RingsHoldLatest`,
`StatsConsistent`.

Every invariant, action property and refinement that a run checks is proved. Only
model-checked: the seven liveness properties, since fairness and `ENABLED` are outside the
prover. What they rest on is proved, for every value of the constants: that the
progress made is not undone.

| Liveness (TLC) | Progress that is never undone (TLAPS) |
| --- | --- |
| `ShutdownEndsTask`, `HandleGoneFreesSlots` | `ShutdownOnlyAdvances`, `AbortReachesAll` |
| `StopEndsLoop`, `DropEndsLoop` | `StopIsKept` |
| `OpenEnds` | `CoolDownOnlyRuns` |
| `CheckEnds` | `CheckOnlyAdvances`, `LockIsBusy` |
| `DropIsSeen` | `WaitOnlyDrains`, `EndIsAhead` |

## Not modelled

* TLS set-up, buffer limits and the library's opening handshake: configuration and I/O.
* Close codes that the wire does not allow, and fragments: the library's.
* The limits of `f64` and `Duration` in the backoff (`Duration::MAX`, products beyond it):
  delays are naturals.
* The JSON-RPC endpoint of `testing.rs`, a byte scanner for tests.
* The variants of the mocks' receive and accept with a timeout, which answer `None` both
  for a timeout and for the end.
* `jitter_delay` (a random factor that nothing in the crate calls), `time_until_retry`, and
  the methods of `CircularBuffer` that have no caller.
* The delegated request types (`ws/delegated.rs`): data whose actor is not in the source.
* Validation of the configurations, beyond what `ConfigAssumption` takes from it, the
  benches and the examples.
* `ApplicationPing` is not a third strategy of `HealthCheckedClient`: its bounds hold of
  the two branches of the loop that call it.
* Liveness of delivery to a client of the fanout: the biased `select!` serves inbound
  frames first, so the code promises none to a client that keeps sending.
