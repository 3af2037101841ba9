--------------------------- MODULE CommandBroadcast ---------------------------
(***************************************************************************)
(* What the command fanout of a managed server promises to the handlers of *)
(* its connections: "a lagging client is closed rather than served stale   *)
(* frames".  Whoever joined gets the commands sent since, each once and in *)
(* order, and each only while it is retained; whoever would have to resume *)
(* from a gap is cut off instead.                                          *)
(* ServerFanout implements this specification.                             *)
(***************************************************************************)
EXTENDS Integers, Sequences

CONSTANTS
    Subscriber,      \* the connections
    Keep             \* how many commands are retained

VARIABLES
    sent,            \* number of commands sent
    since,           \* how many had been sent when each subscriber joined
    got,             \* the commands each subscriber was given
    place            \* "outside", "in", "lagged" or "out"

broadcastVars == <<sent, since, got, place>>

BroadcastInit ==
    /\ sent = 0
    /\ since = [s \in Subscriber |-> 0] /\ got = [s \in Subscriber |-> <<>>]
    /\ place = [s \in Subscriber |-> "outside"]

(* The command a subscriber is to get next, and how many it is behind. *)
Upcoming(s) == since[s] + Len(got[s])
Behind(s) == sent - Upcoming(s)

Move(s, to) == place' = [place EXCEPT ![s] = to]

Send == sent' = sent + 1 /\ UNCHANGED <<since, got, place>>

Join(s) ==
    /\ place[s] = "outside" /\ Move(s, "in")
    /\ since' = [since EXCEPT ![s] = sent]
    /\ UNCHANGED <<sent, got>>

Deliver(s) ==
    /\ place[s] = "in" /\ Behind(s) \in 1 .. Keep
    /\ got' = [got EXCEPT ![s] = Append(@, Upcoming(s))]
    /\ UNCHANGED <<sent, since, place>>

CutOff(s) ==
    /\ place[s] = "in" /\ Behind(s) > Keep
    /\ Move(s, "lagged")
    /\ UNCHANGED <<sent, since, got>>

Leave(s) ==
    /\ place[s] = "in" /\ Move(s, "out")
    /\ UNCHANGED <<sent, since, got>>

(* Most steps of a server concern no subscriber. *)
Elsewhere == UNCHANGED broadcastVars

BroadcastNext ==
    Elsewhere \/ Send \/ \E s \in Subscriber : Join(s) \/ Deliver(s) \/ CutOff(s) \/ Leave(s)

BroadcastSpec == BroadcastInit /\ [][BroadcastNext]_broadcastVars
===============================================================================
