------------------------------- MODULE Transports -------------------------------
(***************************************************************************)
(* The transports behind WsTransport::connect and the handles of their     *)
(* peers: MockTransport with MockServer, ReconnectableMockTransport with   *)
(* its server and per-connection handles, and TungsteniteTransport against *)
(* a WsClient.  The mocks are unbounded in-memory channels.  The socket is *)
(* the library's: it keeps order, may be cut at any time, answers a Ping   *)
(* and a Close by itself, and takes nothing once the closing handshake has *)
(* begun.  A close frame stands for one whose code the wire allows.        *)
(*                                                                         *)
(* A connection has two channels: "out" from the writer to the peer, "in"  *)
(* from the peer to the reader.  A call is one future of connect, which    *)
(* holds what the transport holds until it has run.                        *)
(***************************************************************************)
EXTENDS Integers, Sequences

CONSTANTS
    Kinds,           \* transports to look at: "Mock", "Reconnectable", "Socket"
    Calls,
    Frames,          \* frames that callers build themselves
    Raw,             \* payloads that callers pass to into_ws_frame
    MaxConnects,     \* bound: connections opened
    MaxFrames,       \* bound: frames written, all together
    MaxDrops         \* bound: handles dropped and connections cut, all together

Payloads == {"utf8", "bytes", "empty"}
WsFrame ==
    {f \in [type : {"Text", "Binary", "Ping", "Pong", "Close"}, payload : Payloads] :
        f.type = "Text" => f.payload # "bytes"}

ASSUME TransportAssumption ==
    /\ Kinds \subseteq {"Mock", "Reconnectable", "Socket"}
    /\ Frames \subseteq WsFrame /\ Raw \subseteq Payloads
    /\ MaxConnects \in Nat \ {0} /\ {MaxFrames, MaxDrops} \subseteq Nat

VARIABLES
    kind,
    connSeq,                 \* conn_seq: identifiers handed out
    pc, id,                  \* per call
    slot,                    \* MockTransport.inbound_rx is there to take
    transportUp, serverUp,   \* a transport lives; ReconnectableMockServer lives
    backlog,                 \* connections sent to the server, not accepted
    tx, rx,                  \* channels whose sending, receiving end lives
    chan,                    \* frames in flight, per channel
    owed,                    \* the library's answer that waits to go out on a channel
    cut,                     \* connections that the network has cut
    frames, drops,           \* frames and drops so far, for the bounds
    accepted, acceptEnded,   \* history: connections accepted; accept returned None
    before,                  \* history: connections open when this one was begun
    sent, got, ended         \* history: frames taken, handed out; ends seen

callVars == <<connSeq, pc, id, before>>
serverVars == <<slot, serverUp, backlog, accepted, acceptEnded>>
endVars == <<tx, rx, cut, drops>>
frameVars == <<chan, owed, sent, got, frames, ended>>
vars == <<kind, transportUp, callVars, serverVars, endVars, frameVars>>

ConnIds == 1 .. MaxConnects
Channels == ConnIds \X {"out", "in"}
Out(c) == <<c, "out">>
In(c) == <<c, "in">>
Other(ch) == IF ch[2] = "out" THEN In(ch[1]) ELSE Out(ch[1])

-----------------------------------------------------------------------------
(* Frames *)

IntoWsFrame(payload) ==
    [type |-> IF payload = "bytes" THEN "Binary" ELSE "Text", payload |-> payload]

FrameToMsgUnchecked(f) == f

(* frame_to_msg: a close reason that is not UTF-8 is left out. *)
FrameToMsg(f) ==
    IF f.type = "Close" /\ f.payload = "bytes" THEN [f EXCEPT !.payload = "empty"] ELSE f

(* msg_to_frame; the library never hands out a raw frame when it reads. *)
MsgToFrame(m) == m

Carried(f) == IF kind = "Socket" THEN MsgToFrame(FrameToMsg(f)) ELSE f

-----------------------------------------------------------------------------
(* Who holds the ends of a channel *)

Held == transportUp \/ \E k \in Calls : pc[k] \in {"Started", "Claimed"}

SenderUpWhileHeld(ch) ==
    /\ ch[1] \notin cut
    /\ ch \in tx \/ (kind = "Mock" /\ Held)

(* MockTransport keeps a sender of its own; the halves of a split socket,  *)
(* and the two directions of a WsClient, keep each other open.             *)
SenderUp(ch) ==
    /\ ch[1] \notin cut
    /\ \/ ch \in tx
       \/ kind = "Mock" /\ ch[2] = "out" /\ Held
       \/ kind = "Socket" /\ Other(ch) \in rx

ReceiverUp(ch) == ch \in rx \/ (kind = "Mock" /\ ch = In(1) /\ slot /\ Held)

(* The server side of a connection is in the hands of its user. *)
PeerHeld(c) == kind = "Mock" \/ \E i \in 1 .. Len(accepted) : accepted[i] = c

InHand(ch) == ch \in rx /\ (ch[2] = "out" => PeerHeld(ch[1]))

-----------------------------------------------------------------------------
(* connect *)

Begin(k) ==
    /\ pc[k] = "Idle" /\ transportUp
    /\ pc' = [pc EXCEPT ![k] = "Started"]
    /\ UNCHANGED <<kind, transportUp, connSeq, id, before, serverVars, endVars, frameVars>>

(* The future is dropped before it is polled. *)
Abandon(k) ==
    /\ pc[k] = "Started"
    /\ pc' = [pc EXCEPT ![k] = "Failed"]
    /\ UNCHANGED <<kind, transportUp, connSeq, id, before, serverVars, endVars, frameVars>>

Opened == {id[k] : k \in {j \in Calls : pc[j] = "Open"}}

Number(k) ==
    /\ connSeq < MaxConnects
    /\ connSeq' = connSeq + 1 /\ id' = [id EXCEPT ![k] = connSeq + 1]
    /\ before' = [before EXCEPT ![connSeq + 1] = Opened]

ClaimRead(k) ==
    /\ kind = "Reconnectable" /\ pc[k] = "Started" /\ connSeq < MaxConnects
    /\ \E n \in {connSeq, connSeq + 1} \ {0} :
          /\ connSeq' = n /\ id' = [id EXCEPT ![k] = n]
          /\ before' = [before EXCEPT ![n] = Opened]
    /\ pc' = [pc EXCEPT ![k] = "Claimed"]
    /\ UNCHANGED <<kind, transportUp, serverVars, endVars, frameVars>>

(* ReconnectableMockTransport: the identifier first, then the connection.  *)
(* Two calls on two threads may be between the two at once.                *)
Claim(k) ==
    /\ kind = "Reconnectable" /\ pc[k] = "Started"
    /\ Number(k)
    /\ pc' = [pc EXCEPT ![k] = "Claimed"]
    /\ UNCHANGED <<kind, transportUp, serverVars, endVars, frameVars>>

Ends(c) == {Out(c), In(c)}

AnnounceFirst(k) ==
    /\ pc[k] = "Claimed" /\ serverUp
    /\ backlog' = <<id[k]>> \o backlog /\ pc' = [pc EXCEPT ![k] = "Open"]
    /\ tx' = tx \cup Ends(id[k]) /\ rx' = rx \cup Ends(id[k])
    /\ UNCHANGED <<kind, transportUp, connSeq, id, before, slot, serverUp, accepted,
                   acceptEnded, cut, drops, frameVars>>

Announce(k) ==
    /\ pc[k] = "Claimed" /\ serverUp
    /\ backlog' = Append(backlog, id[k]) /\ pc' = [pc EXCEPT ![k] = "Open"]
    /\ tx' = tx \cup Ends(id[k]) /\ rx' = rx \cup Ends(id[k])
    /\ UNCHANGED <<kind, transportUp, connSeq, id, before, slot, serverUp, accepted,
                   acceptEnded, cut, drops, frameVars>>

(* The server is gone: the identifier is used up. *)
AnnounceFails(k) ==
    /\ pc[k] = "Claimed" /\ ~serverUp
    /\ pc' = [pc EXCEPT ![k] = "Failed"]
    /\ UNCHANGED <<kind, transportUp, connSeq, id, before, serverVars, endVars, frameVars>>

(* MockTransport: the first call takes the receiver for good. *)
TakeMock(k) ==
    /\ kind = "Mock" /\ pc[k] = "Started" /\ slot
    /\ slot' = FALSE
    /\ pc' = [pc EXCEPT ![k] = "Open"] /\ id' = [id EXCEPT ![k] = 1]
    /\ tx' = tx \cup {Out(1)} /\ rx' = rx \cup {In(1)}
    /\ UNCHANGED <<kind, transportUp, connSeq, before, serverUp, backlog, accepted,
                   acceptEnded, cut, drops, frameVars>>

TakeMockFails(k) ==
    /\ kind = "Mock" /\ pc[k] = "Started" /\ ~slot
    /\ pc' = [pc EXCEPT ![k] = "Failed"]
    /\ UNCHANGED <<kind, transportUp, connSeq, id, before, serverVars, endVars, frameVars>>

(* TungsteniteTransport, and accept_async at the other side *)
ConnectSocket(k) ==
    /\ kind = "Socket" /\ pc[k] = "Started"
    /\ Number(k)
    /\ pc' = [pc EXCEPT ![k] = "Open"]
    /\ tx' = tx \cup Ends(connSeq + 1) /\ rx' = rx \cup Ends(connSeq + 1)
    /\ accepted' = Append(accepted, connSeq + 1)
    /\ UNCHANGED <<kind, transportUp, slot, serverUp, backlog, acceptEnded, cut, drops, frameVars>>

(* The fixture policy (module FixtureGate) or the network refuses. *)
ConnectSocketFails(k) ==
    /\ kind = "Socket" /\ pc[k] = "Started"
    /\ pc' = [pc EXCEPT ![k] = "Failed"]
    /\ UNCHANGED <<kind, transportUp, connSeq, id, before, serverVars, endVars, frameVars>>

-----------------------------------------------------------------------------
(* The server's side *)

Accept ==
    /\ serverUp /\ backlog # <<>>
    /\ accepted' = Append(accepted, Head(backlog)) /\ backlog' = Tail(backlog)
    /\ UNCHANGED <<kind, transportUp, callVars, slot, serverUp, acceptEnded, endVars, frameVars>>

(* accept_connection returns None once every sender is gone. *)
AcceptEnds ==
    /\ kind = "Reconnectable" /\ serverUp /\ backlog = <<>> /\ ~Held
    /\ acceptEnded' = TRUE
    /\ UNCHANGED <<kind, transportUp, callVars, slot, serverUp, backlog, accepted, endVars, frameVars>>

Dropped == drops < MaxDrops /\ drops' = drops + 1

(* The connections that wait in the channel go with the server. *)
DropServer ==
    /\ kind = "Reconnectable" /\ serverUp /\ Dropped
    /\ serverUp' = FALSE /\ backlog' = <<>>
    /\ tx' = tx \ {In(backlog[i]) : i \in 1 .. Len(backlog)}
    /\ rx' = rx \ {Out(backlog[i]) : i \in 1 .. Len(backlog)}
    /\ UNCHANGED <<kind, transportUp, callVars, slot, accepted, acceptEnded, cut, frameVars>>

(* drop_socket of the two mocks *)
DropSocket(c) ==
    /\ kind # "Socket" /\ PeerHeld(c) /\ In(c) \in tx /\ Dropped
    /\ tx' = tx \ {In(c)}
    /\ UNCHANGED <<kind, transportUp, callVars, serverVars, rx, cut, frameVars>>

DropPeer(c) ==
    /\ PeerHeld(c) /\ Out(c) \in rx /\ Dropped
    /\ tx' = tx \ {In(c)} /\ rx' = rx \ {Out(c)}
    /\ UNCHANGED <<kind, transportUp, callVars, serverVars, cut, frameVars>>

(* The client's side *)
DropReader(c) ==
    /\ In(c) \in rx /\ Dropped
    /\ rx' = rx \ {In(c)}
    /\ UNCHANGED <<kind, transportUp, callVars, serverVars, tx, cut, frameVars>>

DropWriter(c) ==
    /\ Out(c) \in tx /\ Dropped
    /\ tx' = tx \ {Out(c)}
    /\ UNCHANGED <<kind, transportUp, callVars, serverVars, rx, cut, frameVars>>

DropTransport ==
    /\ transportUp /\ Dropped
    /\ transportUp' = FALSE
    /\ UNCHANGED <<kind, callVars, serverVars, tx, rx, cut, frameVars>>

(* The network gives up a connection and what is on the way last. *)
Cut(c) ==
    /\ kind = "Socket" /\ c \in Opened \ cut /\ Dropped
    /\ cut' = cut \cup {c}
    /\ \E n \in 0 .. Len(chan[Out(c)]), m \in 0 .. Len(chan[In(c)]) :
          chan' = [chan EXCEPT ![Out(c)] = SubSeq(@, 1, n), ![In(c)] = SubSeq(@, 1, m)]
    /\ UNCHANGED <<kind, transportUp, callVars, serverVars, tx, rx, owed, sent, got, frames, ended>>

-----------------------------------------------------------------------------
(* Frames on their way *)

HasClose(s) == \E i \in 1 .. Len(s) : s[i].type = "Close"

(* The library at the end that writes on ch has neither sent nor read a    *)
(* close frame, nor met the end.                                           *)
Active(ch) == ~HasClose(sent[ch]) /\ ~HasClose(got[Other(ch)]) /\ Other(ch) \notin ended

(* A write to a mock fails, and leaves nothing, when the receiver is gone; *)
(* to a socket, once the closing handshake has begun.                      *)
Accepts(ch) ==
    /\ ch \in tx /\ (ch[2] = "in" => PeerHeld(ch[1]))
    /\ IF kind = "Socket" THEN Active(ch) ELSE ReceiverUp(ch)

(* A socket takes a frame that will not arrive. *)
Reaches(ch) == ReceiverUp(ch) /\ ch[1] \notin cut

Put(ch, f) ==
    /\ sent' = [sent EXCEPT ![ch] = Append(@, f)]
    /\ chan' = IF Reaches(ch) THEN [chan EXCEPT ![ch] = Append(@, Carried(f))] ELSE chan

(* A Pong of the user takes the place of the library's; an answer that     *)
(* goes out behind the user's Close is not read.                           *)
Write(ch, f) ==
    /\ frames < MaxFrames /\ Accepts(ch)
    /\ Put(ch, f) /\ frames' = frames + 1
    /\ owed' = IF f.type \in {"Pong", "Close"} THEN [owed EXCEPT ![ch] = {}] ELSE owed
    /\ UNCHANGED <<kind, transportUp, callVars, serverVars, endVars, got, ended>>

AnswerTo(f) == [f EXCEPT !.type = IF f.type = "Ping" THEN "Pong" ELSE "Close"]

(* The answer waits until either half is polled again, behind a full write *)
(* buffer also longer; a newer one takes its place.                        *)
Owe(ch, f) ==
    owed' = IF kind = "Socket" /\ f.type \in {"Ping", "Close"} /\ Active(ch)
            THEN [owed EXCEPT ![ch] = {AnswerTo(f)}] ELSE owed

(* poll_next, recv_outbound, WsClient::next *)
Receive(ch) ==
    /\ InHand(ch) /\ chan[ch] # <<>>
    /\ got' = [got EXCEPT ![ch] = Append(@, Head(chan[ch]))]
    /\ chan' = [chan EXCEPT ![ch] = Tail(@)]
    /\ Owe(Other(ch), Head(chan[ch]))
    /\ UNCHANGED <<kind, transportUp, callVars, serverVars, endVars, sent, frames, ended>>

(* The library sends what it owes when a half is polled. *)
Reply(ch) ==
    /\ SenderUp(ch)
    /\ \E f \in owed[ch] : Put(ch, f)
    /\ owed' = [owed EXCEPT ![ch] = {}]
    /\ UNCHANGED <<kind, transportUp, callVars, serverVars, endVars, got, frames, ended>>

(* The accepting side of a socket is through with it once it has read and  *)
(* answered a Close; the connecting side waits for the other to hang up.   *)
Finished(ch) ==
    kind = "Socket" /\ ch[2] = "out" /\ HasClose(got[ch]) /\ owed[Other(ch)] = {}

SeeEndUndrained(ch) ==
    /\ InHand(ch) /\ ch \notin ended /\ ~SenderUp(ch)
    /\ ended' = ended \cup {ch}
    /\ UNCHANGED <<kind, transportUp, callVars, serverVars, endVars, chan, owed, sent, got, frames>>

(* They return None, a socket perhaps after an error. *)
SeeEnd(ch) ==
    /\ InHand(ch) /\ ch \notin ended /\ chan[ch] = <<>> /\ (~SenderUp(ch) \/ Finished(ch))
    /\ ended' = ended \cup {ch}
    /\ UNCHANGED <<kind, transportUp, callVars, serverVars, endVars, chan, owed, sent, got, frames>>

-----------------------------------------------------------------------------
Init ==
    /\ kind \in Kinds
    /\ connSeq = 0 /\ pc = [k \in Calls |-> "Idle"] /\ id = [k \in Calls |-> 0]
    /\ before = [c \in ConnIds |-> {}]
    /\ slot = (kind = "Mock") /\ serverUp = (kind = "Reconnectable")
    /\ transportUp = TRUE /\ backlog = <<>> /\ accepted = <<>> /\ acceptEnded = FALSE
    /\ tx = IF kind = "Mock" THEN {In(1)} ELSE {}
    /\ rx = IF kind = "Mock" THEN {Out(1)} ELSE {}
    /\ cut = {} /\ frames = 0 /\ drops = 0 /\ ended = {}
    /\ chan = [ch \in Channels |-> <<>>] /\ owed = [ch \in Channels |-> {}]
    /\ sent = [ch \in Channels |-> <<>>] /\ got = [ch \in Channels |-> <<>>]

CallStep(k) ==
    \/ Begin(k) \/ Abandon(k)
    \/ Claim(k) \/ Announce(k) \/ AnnounceFails(k)
    \/ TakeMock(k) \/ TakeMockFails(k)
    \/ ConnectSocket(k) \/ ConnectSocketFails(k)

DropStep(c) == DropSocket(c) \/ DropPeer(c) \/ DropReader(c) \/ DropWriter(c) \/ Cut(c)

Next ==
    \/ \E k \in Calls : CallStep(k)
    \/ Accept \/ AcceptEnds \/ DropServer \/ DropTransport
    \/ \E c \in ConnIds : DropStep(c)
    \/ \E ch \in Channels :
          \/ \E f \in Frames \cup {IntoWsFrame(p) : p \in Raw} : Write(ch, f)
          \/ Receive(ch) \/ Reply(ch) \/ SeeEnd(ch)

Spec == Init /\ [][Next]_vars

(* Whoever holds a receiver goes on polling it. *)
FairSpec == Spec /\ \A ch \in Channels : WF_vars(Receive(ch) \/ SeeEnd(ch))

-----------------------------------------------------------------------------
(* Every variable has its type; in particular no Text frame anywhere holds *)
(* bytes that are not UTF-8, which from_bytes_unchecked relies on.         *)
TransportTypeOK ==
    /\ kind \in Kinds /\ connSeq \in 0 .. MaxConnects
    /\ pc \in [Calls -> {"Idle", "Started", "Claimed", "Open", "Failed"}]
    /\ id \in [Calls -> 0 .. MaxConnects] /\ before \in [ConnIds -> SUBSET ConnIds]
    /\ {slot, transportUp, serverUp, acceptEnded} \subseteq BOOLEAN
    /\ backlog \in Seq(ConnIds) /\ accepted \in Seq(ConnIds)
    /\ tx \subseteq Channels /\ rx \subseteq Channels /\ ended \subseteq Channels
    /\ cut \subseteq ConnIds /\ frames \in 0 .. MaxFrames /\ drops \in 0 .. MaxDrops
    /\ {chan, sent, got} \subseteq [Channels -> Seq(WsFrame)]
    /\ owed \in [Channels -> SUBSET WsFrame]

(* The frame the reader must get for a frame that was put: a close reason  *)
(* that is not text must not reach a socket.                               *)
Same(g, f) ==
    g = IF kind = "Socket" /\ f.type = "Close" /\ f.payload = "bytes"
        THEN [type |-> "Close", payload |-> "empty"] ELSE f

(* A receiver gets the frames that were put on its own connection, those   *)
(* of the user and the answers of the library, in order, each once and     *)
(* unaltered but for a close reason that is not text, whatever else is     *)
(* dropped, reconnected or written meanwhile.                              *)
FramesArriveInOrder ==
    \A ch \in Channels :
        LET all == got[ch] \o chan[ch] IN
        /\ Len(all) =< Len(sent[ch])
        /\ \A i \in 1 .. Len(all) : Same(all[i], sent[ch][i])

(* What the two users of a connection see is a pair of streams: whatever   *)
(* is dropped, reconnected or cut, the frames that were taken are handed   *)
(* out in order, nothing is handed out after the end, and nothing is taken *)
(* that a reader who has seen the end would miss.  On a socket a reader    *)
(* also gets the library's answers, each to a Ping or Close that the other *)
(* side has read, and nothing follows a Close.                             *)
Streams ==
    INSTANCE FrameStreams WITH
        Stream <- Channels, Reverse <- Other, Frame <- WsFrame, socket <- kind = "Socket",
        written <- sent, read <- got, over <- ended,
        broken <- {ch \in Channels : ch[1] \in cut}

ImplementsStreams == Streams!StreamsSpec

(* The end of a stream comes after all of its frames: None from a receiver *)
(* means that every accepted frame was handed out, unless the network cut  *)
(* it, and None from accept_connection that no connection waits.           *)
EndMeansDrained ==
    /\ \A ch \in ended : ch[1] \notin cut => Len(got[ch]) = Len(sent[ch])
    /\ acceptEnded /\ serverUp =>
          \A k \in Calls : pc[k] = "Open" => \E i \in 1 .. Len(accepted) : accepted[i] = id[k]

(* No two calls of connect ever return the same connection: a              *)
(* MockTransport connects once, conn_id is unique across threads.          *)
NoSharedConnection ==
    \A j, k \in Calls : pc[j] = "Open" /\ pc[k] = "Open" /\ id[j] = id[k] => j = k

(* The server accepts connections in the order of the calls wherever one   *)
(* call returned before the other began; calls that overlap may come in    *)
(* either order, also against their identifiers.                           *)
AcceptOrder ==
    LET line == accepted \o backlog IN
    \A i, j \in 1 .. Len(line) : i < j => line[j] \notin before[line[i]]

(* The sender is dropped and the reader has yet to see the end: the reader *)
(* of a connection, or the peer of a reconnectable mock.                   *)
Waits(ch) ==
    /\ ch \in rx \ (tx \cup ended)
    /\ ch[2] = "out" => kind = "Reconnectable" /\ InHand(ch)

(* A reader that goes on polling sees the end after the peer has dropped   *)
(* the socket, also while the transport lives on, and a peer of a          *)
(* reconnectable mock sees the end after the writer is dropped: on no      *)
(* connection does a reader wait for ever.                                 *)
DropIsSeen == \A c \in ConnIds : []<>(\A ch \in Ends(c) : ~Waits(ch))

(* What DropIsSeen rests on.  Nobody but the reader keeps it from the end: *)
(* where it waits, nothing else holds the sender, not even the other half  *)
(* of a split socket.                                                      *)
EndIsAhead == \A ch \in Channels : Waits(ch) => InHand(ch) /\ ~SenderUp(ch)

(* A sender, once dropped, does not come back: a reader that waits has     *)
(* ever fewer frames before the end, until it sees it or is dropped        *)
(* itself, whatever connects, is accepted, written or cut meanwhile.       *)
WaitOnlyDrains ==
    [][\A ch \in Channels :
         Waits(ch) =>
           \/ ch \notin rx' \/ ch \in ended'
           \/ Waits(ch)' /\ Len(chan'[ch]) =< Len(chan[ch])]_vars
================================================================================
