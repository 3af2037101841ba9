------------------------------ MODULE FrameStreams ------------------------------
(***************************************************************************)
(* What WsTransport promises to the two users of a connection, so that     *)
(* "different websocket implementations can be swapped": Reader is a       *)
(* Stream of the frames that the peer's Writer, a Sink, has taken, and on  *)
(* a socket of the answers that the peer's library puts among them.  The   *)
(* reader gets them each once and in order; then, if ever, it sees the     *)
(* end, and nothing after it.  The end comes only after the last frame,    *)
(* and nothing is taken for a stream that has ended, unless the stream     *)
(* broke.  Transports implements this specification.                       *)
(***************************************************************************)
EXTENDS Integers, Sequences

CONSTANTS
    Stream,          \* the directions of all connections
    Reverse(_),      \* the other direction of the same connection
    Frame            \* [type, payload] records

VARIABLES
    socket,          \* the wire is a socket: closes carry text, the library answers
    written, read,   \* frames put on, read from each stream
    over,            \* streams whose reader has seen the end
    broken           \* streams that may lose what is on the way

streamVars == <<socket, written, read, over, broken>>

StreamsInit ==
    /\ socket \in BOOLEAN
    /\ written = [s \in Stream |-> <<>>] /\ read = [s \in Stream |-> <<>>]
    /\ over = {} /\ broken = {}

(* A close reason that is not text is lost where reasons travel as text. *)
Arrives(f, g) ==
    g = IF socket /\ f.type = "Close" /\ f.payload = "bytes"
        THEN [type |-> "Close", payload |-> "empty"] ELSE f

HasClose(s) == \E i \in 1 .. Len(s) : s[i].type = "Close"

Add(s, f) ==
    /\ UNCHANGED <<socket, read, over, broken>>
    /\ s \in over => s \in broken
    /\ socket => ~HasClose(written[s])
    /\ written' = [written EXCEPT ![s] = Append(@, f)]

(* A socket takes no frame of the user after either side's Close. *)
Put(s) ==
    /\ socket => ~HasClose(read[Reverse(s)])
    /\ \E f \in Frame : Add(s, f)

(* The library answers what its own side has read, and ends with a Close. *)
Answer(s) ==
    /\ socket
    /\ \E i \in 1 .. Len(read[Reverse(s)]) :
          LET f == read[Reverse(s)][i] IN
          \/ f.type = "Ping" /\ Add(s, [f EXCEPT !.type = "Pong"])
          \/ f.type = "Close" /\ Add(s, f)

Take(s) ==
    /\ UNCHANGED <<socket, written, over, broken>>
    /\ s \notin over /\ Len(read[s]) < Len(written[s])
    /\ \E g \in Frame : /\ Arrives(written[s][Len(read[s]) + 1], g)
                       /\ read' = [read EXCEPT ![s] = Append(@, g)]

End(s) ==
    /\ UNCHANGED <<socket, written, read, broken>>
    /\ s \notin over
    /\ Len(read[s]) = Len(written[s]) \/ s \in broken
    /\ over' = over \cup {s}

Break ==
    /\ UNCHANGED <<socket, written, read, over>>
    /\ broken \subseteq broken' /\ broken' \subseteq Stream

StreamsNext == Break \/ \E s \in Stream : Put(s) \/ Answer(s) \/ Take(s) \/ End(s)

StreamsSpec == StreamsInit /\ [][StreamsNext]_streamVars
=================================================================================
