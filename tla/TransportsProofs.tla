---------------------------- MODULE TransportsProofs ----------------------------
(* What the transports guarantee for any number of calls, connections,      *)
(* frames and drops: connections are not shared, they are accepted in the   *)
(* order of the calls, frames arrive in order on the connection they were   *)
(* written to, and an end is an end.  Together: a connection is a pair of   *)
(* streams.                                                                 *)
EXTENDS Transports, TLAPS

Numbered == {"Claimed", "Open"}

(* An identifier belongs to one call; a mock's receiver is taken once. *)
ConnInv ==
    /\ connSeq \in Nat /\ id \in [Calls -> Nat]
    /\ pc \in [Calls -> {"Idle", "Started", "Claimed", "Open", "Failed"}]
    /\ \A k \in Calls : pc[k] = "Claimed" => kind = "Reconnectable"
    /\ kind # "Mock" =>
          /\ \A k \in Calls : pc[k] \in Numbered => id[k] \in 1 .. connSeq
          /\ \A j, k \in Calls : pc[j] \in Numbered /\ pc[k] \in Numbered /\ id[j] = id[k] => j = k
    /\ kind = "Mock" =>
          /\ slot => \A k \in Calls : pc[k] # "Open"
          /\ \A j, k \in Calls : pc[j] = "Open" /\ pc[k] = "Open" => j = k

LEMMA ConnInit == Init => ConnInv
  BY DEF Init, ConnInv, Numbered

LEMMA ConnStep == ConnInv /\ [Next]_vars => ConnInv'
  <1> SUFFICES ASSUME ConnInv, [Next]_vars PROVE ConnInv'
    OBVIOUS
  <1> USE DEF ConnInv, Numbered
  <1>1. ASSUME NEW k \in Calls, Begin(k) \/ Abandon(k) PROVE ConnInv'
    BY <1>1 DEF Begin, Abandon, serverVars
  <1>2. ASSUME NEW k \in Calls, Claim(k) PROVE ConnInv'
    BY <1>2 DEF Claim, Number, serverVars
  <1>3. ASSUME NEW k \in Calls, Announce(k) \/ AnnounceFails(k) PROVE ConnInv'
    BY <1>3 DEF Announce, AnnounceFails, serverVars
  <1>4. ASSUME NEW k \in Calls, TakeMock(k) PROVE ConnInv'
    BY <1>4 DEF TakeMock
  <1>5. ASSUME NEW k \in Calls, TakeMockFails(k) \/ ConnectSocketFails(k) PROVE ConnInv'
    BY <1>5 DEF TakeMockFails, ConnectSocketFails, serverVars
  <1>6. ASSUME NEW k \in Calls, ConnectSocket(k) PROVE ConnInv'
    BY <1>6 DEF ConnectSocket, Number
  <1>7. CASE UNCHANGED <<kind, callVars, slot>>
    BY <1>7 DEF callVars
  <1>8. ASSUME Accept \/ AcceptEnds \/ DropServer \/ DropTransport PROVE ConnInv'
    BY <1>7, <1>8 DEF Accept, AcceptEnds, DropServer, DropTransport, serverVars
  <1>9. ASSUME NEW c \in ConnIds, DropStep(c) PROVE ConnInv'
    BY <1>7, <1>9 DEF DropStep, DropSocket, DropPeer, DropReader, DropWriter, Cut, serverVars
  <1>10. ASSUME NEW ch \in Channels,
                (\E f : Write(ch, f)) \/ Receive(ch) \/ Reply(ch) \/ SeeEnd(ch)
         PROVE  ConnInv'
    BY <1>7, <1>10 DEF Write, Receive, Reply, SeeEnd, serverVars
  <1>11. CASE UNCHANGED vars
    BY <1>7, <1>11 DEF vars, serverVars
  <1> QED
    BY <1>1, <1>2, <1>3, <1>4, <1>5, <1>6, <1>8, <1>9, <1>10, <1>11 DEF Next, CallStep

(* ReconnectableMockTransport, MockTransport and TungsteniteTransport hand *)
(* out a connection once, for any number of concurrent connect calls.      *)
THEOREM ConnectionsNotShared == Spec => []NoSharedConnection
  <1>1. ConnInv => NoSharedConnection
    BY DEF ConnInv, NoSharedConnection, Numbered
  <1> QED
    BY <1>1, ConnInit, ConnStep, PTL DEF Spec

-----------------------------------------------------------------------------
(* Sequences *)

(* What a receiver has got and what is on its way to it *)
Line(g, c) == g \o c

LEMMA LineType ==
    ASSUME NEW S, NEW g \in Seq(S), NEW c \in Seq(S)
    PROVE  Line(g, c) \in Seq(S) /\ Len(Line(g, c)) \in Nat
  BY DEF Line

LEMMA LineEmpty == Len(Line(<<>>, <<>>)) = 0 /\ Len(<<>>) = 0
  BY DEF Line

LEMMA HandOver ==
    ASSUME NEW S, NEW g \in Seq(S), NEW c \in Seq(S), c # <<>>
    PROVE  /\ Append(g, Head(c)) \in Seq(S) /\ Tail(c) \in Seq(S)
           /\ Line(Append(g, Head(c)), Tail(c)) = Line(g, c)
  BY DEF Line

LEMMA TakeOn ==
    ASSUME NEW S, NEW g \in Seq(S), NEW c \in Seq(S), NEW f \in S
    PROVE  /\ Append(c, f) \in Seq(S)
           /\ Len(Line(g, Append(c, f))) = Len(Line(g, c)) + 1
           /\ \A i \in 1 .. Len(Line(g, c)) : Line(g, Append(c, f))[i] = Line(g, c)[i]
           /\ Line(g, Append(c, f))[Len(Line(g, c)) + 1] = f
  BY DEF Line

LEMMA GiveUp ==
    ASSUME NEW S, NEW g \in Seq(S), NEW c \in Seq(S), NEW n \in 0 .. Len(c)
    PROVE  /\ SubSeq(c, 1, n) \in Seq(S)
           /\ Len(Line(g, SubSeq(c, 1, n))) =< Len(Line(g, c))
           /\ \A i \in 1 .. Len(Line(g, SubSeq(c, 1, n))) : Line(g, SubSeq(c, 1, n))[i] = Line(g, c)[i]
  BY DEF Line

LEMMA Grows ==
    ASSUME NEW S, NEW s \in Seq(S), NEW f \in S
    PROVE  /\ Append(s, f) \in Seq(S) /\ Len(Append(s, f)) = Len(s) + 1
           /\ Append(s, f)[Len(s) + 1] = f
           /\ \A i \in 1 .. Len(s) : Append(s, f)[i] = s[i]
  OBVIOUS

LEMMA Written ==
    ASSUME NEW p \in Raw
    PROVE  IntoWsFrame(p) \in WsFrame
  BY TransportAssumption DEF IntoWsFrame, WsFrame, Payloads

LEMMA CarriedSame ==
    ASSUME NEW f \in WsFrame
    PROVE  Carried(f) \in WsFrame /\ Same(Carried(f), f)
  BY DEF Carried, MsgToFrame, FrameToMsg, Same, WsFrame, Payloads

-----------------------------------------------------------------------------
(* Frames *)

Fits(g, c, s) ==
    /\ Len(Line(g, c)) =< Len(s)
    /\ \A i \in 1 .. Len(Line(g, c)) : Same(Line(g, c)[i], s[i])

Whole(ch) == Len(Line(got[ch], chan[ch])) = Len(sent[ch])

FrameTypes ==
    /\ chan \in [Channels -> Seq(WsFrame)] /\ sent \in [Channels -> Seq(WsFrame)]
    /\ got \in [Channels -> Seq(WsFrame)] /\ owed \in [Channels -> SUBSET WsFrame]

(* A channel lacks frames at its end only once nothing can be added to it:  *)
(* the next frame then lands where it was written.                          *)
Complete ==
    /\ connSeq \in Nat
    /\ kind # "Socket" => cut = {} /\ \A ch \in Channels : Whole(ch)
    /\ kind = "Socket" =>
          \A ch \in Channels :
             /\ ch \in rx /\ ch[1] \notin cut => Whole(ch)
             /\ ch[1] > connSeq => ch \notin tx \cup rx /\ Whole(ch)

FrameInv == FrameTypes /\ Complete /\ \A ch \in Channels : Fits(got[ch], chan[ch], sent[ch])

(* An answer is owed for a frame that was read, and before any Close. *)
OwedInv ==
    \A ch \in Channels : \A f \in owed[ch] :
        /\ kind = "Socket" /\ ~HasClose(sent[ch])
        /\ \E i \in 1 .. Len(got[Other(ch)]) :
              got[Other(ch)][i].type \in {"Ping", "Close"} /\ f = AnswerTo(got[Other(ch)][i])

LEMMA FrameInit == Init => FrameInv
  <1> SUFFICES ASSUME Init PROVE FrameInv
    OBVIOUS
  <1>1. FrameTypes
    BY DEF Init, FrameTypes
  <1>2. ASSUME NEW ch \in Channels PROVE chan[ch] = <<>> /\ sent[ch] = <<>> /\ got[ch] = <<>>
    BY DEF Init
  <1>3. ASSUME NEW ch \in Channels PROVE Whole(ch) /\ Fits(got[ch], chan[ch], sent[ch])
    BY <1>2, LineEmpty DEF Whole, Fits
  <1>4. connSeq = 0 /\ cut = {} /\ (kind = "Socket" => tx = {} /\ rx = {})
    BY DEF Init
  <1>5. Complete
    BY <1>3, <1>4 DEF Complete
  <1> QED
    BY <1>1, <1>3, <1>5 DEF FrameInv

(* Steps that move no frame *)
LEMMA StillStep ==
    ASSUME FrameInv, UNCHANGED <<chan, owed, sent, got, kind, cut>>, connSeq' \in Nat, connSeq' >= connSeq,
           kind = "Socket" => rx' \subseteq rx \cup Ends(connSeq + 1),
           kind = "Socket" /\ connSeq' = connSeq => tx' \subseteq tx /\ rx' \subseteq rx,
           kind = "Socket" => tx' \subseteq tx \cup Ends(connSeq + 1)
    PROVE  FrameInv'
  <1>1. \A ch \in Channels : Whole(ch)' <=> Whole(ch)
    BY DEF Whole
  <1>2. \A ch \in Channels : Fits(got[ch], chan[ch], sent[ch])'
    BY DEF FrameInv, Fits, Same
  <1>3. \A ch \in Ends(connSeq + 1) : ch[1] = connSeq + 1
    BY DEF Ends, Out, In
  <1>4. \A ch \in Channels : ch[1] \in Int
    BY TransportAssumption DEF Channels, ConnIds
  <1>5. Complete'
    <2>1. CASE kind # "Socket"
      BY <1>1, <2>1 DEF FrameInv, Complete
    <2>2. CASE kind = "Socket"
      <3>1. ASSUME NEW ch \in Channels, ch \in rx', ch[1] \notin cut PROVE Whole(ch)
        BY <1>3, <2>2, <3>1 DEF FrameInv, Complete
      <3>2. ASSUME NEW ch \in Channels, ch[1] > connSeq' PROVE ch \notin tx' \cup rx' /\ Whole(ch)
        BY <1>3, <1>4, <2>2, <3>2 DEF FrameInv, Complete
      <3> QED
        BY <1>1, <2>2, <3>1, <3>2 DEF Complete
    <2> QED
      BY <2>1, <2>2
  <1> QED
    BY <1>2, <1>5 DEF FrameInv, FrameTypes

(* The user's frames and the library's *)
LEMMA PutStep ==
    ASSUME FrameInv, NEW ch \in Channels, NEW f \in WsFrame, Put(ch, f),
           UNCHANGED <<kind, connSeq, tx, rx, cut, got>>, owed' \in [Channels -> SUBSET WsFrame],
           kind = "Socket" => ch[1] =< connSeq, kind # "Socket" => ReceiverUp(ch)
    PROVE  FrameInv'
  <1>1. UNCHANGED <<kind, connSeq, tx, rx, cut, got>> /\ owed' \in [Channels -> SUBSET WsFrame]
    OBVIOUS
  <1>2. /\ chan[ch] \in Seq(WsFrame) /\ sent[ch] \in Seq(WsFrame) /\ got[ch] \in Seq(WsFrame)
        /\ Fits(got[ch], chan[ch], sent[ch])
    BY DEF FrameInv, FrameTypes
  <1>3. \A x \in Channels \ {ch} : chan'[x] = chan[x] /\ sent'[x] = sent[x]
    BY DEF Put, Reaches, FrameInv, FrameTypes
  <1>4. /\ sent'[ch] = Append(sent[ch], f) /\ Append(sent[ch], f) \in Seq(WsFrame)
        /\ Len(sent'[ch]) = Len(sent[ch]) + 1 /\ sent'[ch][Len(sent[ch]) + 1] = f
        /\ \A i \in 1 .. Len(sent[ch]) : sent'[ch][i] = sent[ch][i]
    BY <1>2, Grows DEF Put, Reaches, FrameInv, FrameTypes
  <1>5. sent' \in [Channels -> Seq(WsFrame)]
    BY <1>4 DEF Put, Reaches, FrameInv, FrameTypes
  <1>6. \A x \in Channels \ {ch} :
           /\ Fits(got[x], chan[x], sent[x])'
           /\ Whole(x)' <=> Whole(x)
    BY <1>1, <1>3 DEF FrameInv, Fits, Same, Whole
  <1>7. Len(Line(got[ch], chan[ch])) \in Nat /\ Len(sent[ch]) \in Nat
    BY <1>2, LineType
  <1>8. CASE ReceiverUp(ch) /\ ch[1] \notin cut
    <2>1. chan'[ch] = Append(chan[ch], Carried(f)) /\ chan' \in [Channels -> Seq(WsFrame)]
      <3>1. chan' = [chan EXCEPT ![ch] = Append(chan[ch], Carried(f))]
        BY <1>8 DEF Put, Reaches
      <3>2. Append(chan[ch], Carried(f)) \in Seq(WsFrame)
        BY <1>2, CarriedSame, TakeOn
      <3> QED
        BY <3>1, <3>2 DEF FrameInv, FrameTypes
    <2>2. Whole(ch)
      BY <1>8 DEF FrameInv, Complete, ReceiverUp
    <2>3. /\ Len(Line(got'[ch], chan'[ch])) = Len(sent[ch]) + 1
          /\ Line(got'[ch], chan'[ch])[Len(sent[ch]) + 1] = Carried(f)
          /\ \A i \in 1 .. Len(sent[ch]) : Line(got'[ch], chan'[ch])[i] = Line(got[ch], chan[ch])[i]
      <3>1. Carried(f) \in WsFrame /\ got'[ch] = got[ch]
        BY <1>1, CarriedSame
      <3>2. /\ Len(Line(got[ch], Append(chan[ch], Carried(f)))) = Len(Line(got[ch], chan[ch])) + 1
            /\ \A i \in 1 .. Len(Line(got[ch], chan[ch])) :
                  Line(got[ch], Append(chan[ch], Carried(f)))[i] = Line(got[ch], chan[ch])[i]
            /\ Line(got[ch], Append(chan[ch], Carried(f)))[Len(Line(got[ch], chan[ch])) + 1] = Carried(f)
        BY <1>2, <3>1, TakeOn, SMTT(30)
      <3>3. Len(Line(got[ch], chan[ch])) = Len(sent[ch])
        BY <2>2 DEF Whole
      <3>4. Line(got'[ch], chan'[ch]) = Line(got[ch], Append(chan[ch], Carried(f)))
        BY <2>1, <3>1
      <3> QED
        BY <3>2, <3>3, <3>4
    <2>4. Whole(ch)'
      BY <1>4, <2>3 DEF Whole
    <2>5. Fits(got[ch], chan[ch], sent[ch])'
      <3>1. ASSUME NEW i \in 1 .. Len(sent[ch]) + 1
            PROVE  Same(Line(got'[ch], chan'[ch])[i], sent'[ch][i])
        <4>1. CASE i = Len(sent[ch]) + 1
          BY <1>4, <2>3, <4>1, CarriedSame
        <4>2. CASE i \in 1 .. Len(sent[ch])
          BY <1>2, <1>4, <2>2, <2>3, <4>2 DEF Fits, Whole
        <4> QED
          BY <1>7, <4>1, <4>2
      <3>2. Len(Line(got'[ch], chan'[ch])) = Len(sent[ch]) + 1 /\ Len(sent'[ch]) = Len(sent[ch]) + 1
        BY <1>4, <2>3
      <3> QED
        BY <1>1, <1>7, <3>1, <3>2 DEF Fits, Same
    <2>6. Complete'
      BY <1>1, <1>6, <2>4 DEF FrameInv, Complete
    <2> QED
      BY <1>1, <1>5, <1>6, <2>1, <2>5, <2>6, Zenon DEF FrameInv, FrameTypes
  <1>9. CASE ~(ReceiverUp(ch) /\ ch[1] \notin cut)
    <2>1. chan' = chan
      BY <1>9 DEF Put, Reaches
    <2>2. Fits(got[ch], chan[ch], sent[ch])'
      BY <1>1, <1>2, <1>4, <1>7, <2>1 DEF Fits, Same
    <2>3. kind = "Socket" /\ ~(ch \in rx /\ ch[1] \notin cut) /\ ~(ch[1] > connSeq)
      <3>1. connSeq \in Nat /\ ch[1] \in Int
        BY TransportAssumption DEF FrameInv, Complete, Channels, ConnIds
      <3> QED
        BY <1>9, <3>1 DEF FrameInv, Complete, ReceiverUp
    <2>4. Complete'
      BY <1>1, <1>6, <2>3 DEF FrameInv, Complete
    <2> QED
      BY <1>1, <1>5, <1>6, <2>1, <2>2, <2>4 DEF FrameInv, FrameTypes
  <1> QED
    BY <1>8, <1>9

(* The end that writes on ch belongs to a connection that was opened. *)
LEMMA EndNumbered ==
    ASSUME FrameInv, NEW ch \in Channels, kind = "Socket", ch \in tx \/ Other(ch) \in rx
    PROVE  ch[1] =< connSeq
  <1>1. connSeq \in Nat /\ ch[1] \in Int
    BY TransportAssumption DEF FrameInv, Complete, Channels, ConnIds
  <1>2. Other(ch) \in Channels /\ Other(ch)[1] = ch[1]
    BY DEF Other, Out, In, Channels
  <1> QED
    BY <1>1, <1>2 DEF FrameInv, Complete

LEMMA WriteStep ==
    ASSUME FrameInv, NEW ch \in Channels, NEW f \in WsFrame, Write(ch, f)
    PROVE  FrameInv'
  <1>1. /\ UNCHANGED <<kind, connSeq, tx, rx, cut, got>> /\ Put(ch, f) /\ ch \in tx
        /\ kind # "Socket" => ReceiverUp(ch)
    BY DEF Write, Accepts, endVars, callVars
  <1>2. owed' \in [Channels -> SUBSET WsFrame]
    BY DEF Write, FrameInv, FrameTypes
  <1> QED
    BY <1>1, <1>2, EndNumbered, PutStep, Zenon

LEMMA ReplyStep ==
    ASSUME FrameInv, NEW ch \in Channels, OwedInv, Reply(ch)
    PROVE  FrameInv'
  <1>1. PICK f \in owed[ch] : Put(ch, f)
    BY DEF Reply
  <1>2. /\ UNCHANGED <<kind, connSeq, tx, rx, cut, got>> /\ SenderUp(ch)
        /\ owed' = [owed EXCEPT ![ch] = {}]
    BY DEF Reply, endVars, callVars
  <1>3. f \in WsFrame /\ owed' \in [Channels -> SUBSET WsFrame]
    BY <1>1, <1>2 DEF FrameInv, FrameTypes
  <1>4. kind = "Socket"
    BY <1>1 DEF OwedInv
  <1>5. ch \in tx \/ Other(ch) \in rx
    BY <1>2, <1>4 DEF SenderUp
  <1> QED
    BY <1>1, <1>2, <1>3, <1>4, <1>5, EndNumbered, PutStep, Zenon

LEMMA ReceiveStep ==
    ASSUME FrameInv, NEW ch \in Channels, Receive(ch)
    PROVE  FrameInv'
  <1>1. UNCHANGED <<kind, connSeq, tx, rx, cut, sent>>
    BY DEF Receive, endVars, callVars
  <1>2. /\ chan[ch] \in Seq(WsFrame) /\ got[ch] \in Seq(WsFrame) /\ chan[ch] # <<>>
        /\ chan' = [chan EXCEPT ![ch] = Tail(chan[ch])]
        /\ got' = [got EXCEPT ![ch] = Append(got[ch], Head(chan[ch]))]
    BY DEF Receive, FrameInv, FrameTypes
  <1>3. /\ Append(got[ch], Head(chan[ch])) \in Seq(WsFrame) /\ Tail(chan[ch]) \in Seq(WsFrame)
        /\ Line(Append(got[ch], Head(chan[ch])), Tail(chan[ch])) = Line(got[ch], chan[ch])
    BY <1>2, HandOver
  <1>4. FrameTypes'
    <2>1. Head(chan[ch]) \in WsFrame
      BY <1>2
    <2>2. Head(chan[ch]).type \in {"Ping", "Close"} => AnswerTo(Head(chan[ch])) \in WsFrame
      BY <2>1 DEF AnswerTo, WsFrame, Payloads
    <2>3. owed' \in [Channels -> SUBSET WsFrame]
      BY <2>2, Zenon DEF Receive, Owe, FrameInv, FrameTypes
    <2> QED
      BY <1>1, <1>2, <1>3, <2>3, Zenon DEF FrameInv, FrameTypes
  <1>5. \A x \in Channels : Line(got'[x], chan'[x]) = Line(got[x], chan[x])
    BY <1>2, <1>3 DEF FrameInv, FrameTypes
  <1>6. \A x \in Channels : Fits(got[x], chan[x], sent[x])'
    BY <1>1, <1>5 DEF FrameInv, Fits, Same
  <1>7. Complete'
    BY <1>1, <1>5 DEF FrameInv, Complete, Whole
  <1> QED
    BY <1>4, <1>6, <1>7 DEF FrameInv

LEMMA CutStep ==
    ASSUME FrameInv, ConnInv, NEW c \in ConnIds, Cut(c)
    PROVE  FrameInv'
  <1>1. /\ UNCHANGED <<kind, connSeq, tx, rx, owed, sent, got>> /\ kind = "Socket"
        /\ cut' = cut \cup {c} /\ c \in Opened
    BY DEF Cut, callVars
  <1>2. Out(c) \in Channels /\ In(c) \in Channels /\ Out(c) # In(c)
    BY DEF Out, In, Channels
  <1>3. PICK n \in 0 .. Len(chan[Out(c)]), m \in 0 .. Len(chan[In(c)]) :
           chan' = [chan EXCEPT ![Out(c)] = SubSeq(chan[Out(c)], 1, n),
                                ![In(c)] = SubSeq(chan[In(c)], 1, m)]
    BY <1>2, Zenon DEF Cut, FrameInv, FrameTypes
  <1>4. ASSUME NEW x \in Channels
        PROVE  /\ chan'[x] \in Seq(WsFrame) /\ Fits(got[x], chan[x], sent[x])'
               /\ x[1] # c => chan'[x] = chan[x]
    <2>1. /\ chan[x] \in Seq(WsFrame) /\ got[x] \in Seq(WsFrame) /\ sent[x] \in Seq(WsFrame)
          /\ Fits(got[x], chan[x], sent[x])
      BY DEF FrameInv, FrameTypes
    <2>2. \/ chan'[x] = chan[x]
          \/ x[1] = c /\ \E l \in 0 .. Len(chan[x]) : chan'[x] = SubSeq(chan[x], 1, l)
      <3>1. CASE x = Out(c)
        BY <1>2, <1>3, <3>1, Zenon DEF Out, FrameInv, FrameTypes
      <3>2. CASE x = In(c)
        BY <1>2, <1>3, <3>2, Zenon DEF In, FrameInv, FrameTypes
      <3>3. CASE x # Out(c) /\ x # In(c)
        BY <1>2, <1>3, <3>3 DEF FrameInv, FrameTypes
      <3> QED
        BY <3>1, <3>2, <3>3
    <2>3. CASE chan'[x] = chan[x]
      BY <1>1, <2>1, <2>3 DEF Fits, Same
    <2>4. ASSUME NEW l \in 0 .. Len(chan[x]), chan'[x] = SubSeq(chan[x], 1, l)
          PROVE  chan'[x] \in Seq(WsFrame) /\ Fits(got[x], chan[x], sent[x])'
      <3>1. /\ chan'[x] \in Seq(WsFrame)
            /\ Len(Line(got[x], chan'[x])) =< Len(Line(got[x], chan[x]))
            /\ \A i \in 1 .. Len(Line(got[x], chan'[x])) :
                  Line(got[x], chan'[x])[i] = Line(got[x], chan[x])[i]
        <4>1. /\ SubSeq(chan[x], 1, l) \in Seq(WsFrame)
              /\ Len(Line(got[x], SubSeq(chan[x], 1, l))) =< Len(Line(got[x], chan[x]))
              /\ \A i \in 1 .. Len(Line(got[x], SubSeq(chan[x], 1, l))) :
                    Line(got[x], SubSeq(chan[x], 1, l))[i] = Line(got[x], chan[x])[i]
          BY <2>1, GiveUp
        <4> QED
          BY <2>4, <4>1
      <3>2. /\ Len(Line(got[x], chan'[x])) \in Nat /\ Len(Line(got[x], chan[x])) \in Nat
            /\ Len(sent[x]) \in Nat
        BY <2>1, <3>1, LineType, SMTT(30)
      <3>3. ASSUME NEW i \in 1 .. Len(Line(got[x], chan'[x]))
            PROVE  Same(Line(got[x], chan'[x])[i], sent[x][i])
        BY <2>1, <3>1, <3>2, SMTT(30) DEF Fits
      <3>4. Len(Line(got[x], chan'[x])) =< Len(sent[x])
        BY <2>1, <3>1, <3>2 DEF Fits
      <3> QED
        BY <1>1, <3>1, <3>3, <3>4 DEF Fits, Same
    <2> QED
      BY <2>2, <2>3, <2>4
  <1>5. FrameTypes'
    BY <1>1, <1>3, <1>4, Zenon DEF FrameInv, FrameTypes
  <1>6. c \in 1 .. connSeq
    BY <1>1 DEF ConnInv, Opened, Numbered
  <1>7. \A x \in Channels : x[1] # c => (Whole(x)' <=> Whole(x))
    BY <1>1, <1>4 DEF Whole
  <1>8. Complete'
    BY <1>1, <1>6, <1>7 DEF FrameInv, Complete
  <1> QED
    BY <1>4, <1>5, <1>8 DEF FrameInv

LEMMA FitsAt ==
    ASSUME NEW g \in Seq(WsFrame), NEW c \in Seq(WsFrame), NEW s \in Seq(WsFrame), Fits(g, c, s),
           NEW i \in 1 .. Len(Line(g, c))
    PROVE  i \in 1 .. Len(s) /\ s[i] \in WsFrame /\ Same(Line(g, c)[i], s[i])
  <1>1. Len(Line(g, c)) \in Nat /\ Len(s) \in Nat
    BY LineType
  <1>2. Len(Line(g, c)) =< Len(s) /\ Same(Line(g, c)[i], s[i])
    BY DEF Fits
  <1>3. i \in 1 .. Len(s)
    BY <1>1, <1>2
  <1>4. s[i] \in WsFrame
    BY <1>3
  <1> QED
    BY <1>2, <1>3, <1>4

LEMMA FrameStep == FrameInv /\ OwedInv /\ ConnInv /\ [Next]_vars => FrameInv'
  <1> SUFFICES ASSUME FrameInv, OwedInv, ConnInv, [Next]_vars PROVE FrameInv'
    OBVIOUS
  <1>0. connSeq \in Nat
    BY DEF ConnInv
  <1> USE DEF callVars, endVars, frameVars
  <1>1. CASE UNCHANGED <<chan, owed, sent, got, kind, cut, connSeq>>
             /\ (kind = "Socket" => tx' \subseteq tx /\ rx' \subseteq rx)
    BY <1>0, <1>1, StillStep
  <1>2. ASSUME NEW k \in Calls, CallStep(k) PROVE FrameInv'
    <2>1. CASE Claim(k)
      <3>1. /\ UNCHANGED <<chan, owed, sent, got, kind, cut, tx, rx>> /\ connSeq' = connSeq + 1
            /\ kind = "Reconnectable"
        BY <2>1 DEF Claim, Number
      <3> QED
        BY <1>0, <3>1, StillStep
    <2>2. CASE ConnectSocket(k)
      <3>1. /\ UNCHANGED <<chan, owed, sent, got, kind, cut>> /\ connSeq' = connSeq + 1
            /\ tx' = tx \cup Ends(connSeq + 1) /\ rx' = rx \cup Ends(connSeq + 1)
        BY <2>2 DEF ConnectSocket, Number
      <3> QED
        BY <1>0, <3>1, StillStep
    <2>3. CASE Announce(k)
      <3>1. UNCHANGED <<chan, owed, sent, got, kind, cut, connSeq>> /\ pc[k] = "Claimed"
        BY <2>3 DEF Announce
      <3>2. kind # "Socket"
        BY <3>1 DEF ConnInv
      <3> QED
        BY <1>1, <3>1, <3>2
    <2>4. CASE TakeMock(k)
      BY <1>1, <2>4 DEF TakeMock
    <2>5. CASE Begin(k) \/ Abandon(k) \/ AnnounceFails(k) \/ TakeMockFails(k) \/ ConnectSocketFails(k)
      BY <1>1, <2>5 DEF Begin, Abandon, AnnounceFails, TakeMockFails, ConnectSocketFails
    <2> QED
      BY <1>2, <2>1, <2>2, <2>3, <2>4, <2>5 DEF CallStep
  <1>3. ASSUME Accept \/ AcceptEnds \/ DropServer \/ DropTransport PROVE FrameInv'
    BY <1>1, <1>3 DEF Accept, AcceptEnds, DropServer, DropTransport
  <1>4. ASSUME NEW c \in ConnIds, DropStep(c) PROVE FrameInv'
    BY <1>1, <1>4, CutStep DEF DropStep, DropSocket, DropPeer, DropReader, DropWriter
  <1>5. ASSUME NEW ch \in Channels, NEW f \in Frames \cup {IntoWsFrame(p) : p \in Raw}, Write(ch, f)
        PROVE  FrameInv'
    <2>1. f \in WsFrame
      BY Written, TransportAssumption
    <2> QED
      BY <1>5, <2>1, WriteStep
  <1>6. ASSUME NEW ch \in Channels, SeeEnd(ch) PROVE FrameInv'
    BY <1>1, <1>6, Zenon DEF SeeEnd
  <1>7. CASE UNCHANGED vars
    BY <1>1, <1>7 DEF vars
  <1> QED
    BY <1>2, <1>3, <1>4, <1>5, <1>6, <1>7, ReceiveStep, ReplyStep DEF Next

LEMMA OwedInit == Init => OwedInv
  BY DEF Init, OwedInv

LEMMA OwedStep == OwedInv /\ FrameInv /\ [Next]_vars => OwedInv'
  <1> SUFFICES ASSUME OwedInv, FrameInv, [Next]_vars PROVE OwedInv'
    OBVIOUS
  <1> USE DEF callVars, serverVars, endVars, frameVars
  <1>0. FrameTypes /\ \A ch \in Channels : Other(ch) \in Channels
    BY DEF FrameInv, Other, Out, In, Channels
  <1>1. CASE UNCHANGED <<owed, sent, got, kind>>
    BY <1>1 DEF OwedInv, HasClose
  <1>2. ASSUME NEW k \in Calls, CallStep(k) PROVE OwedInv'
    BY <1>1, <1>2, Zenon DEF CallStep, Begin, Abandon, Claim, Announce, AnnounceFails, TakeMock,
       TakeMockFails, ConnectSocket, ConnectSocketFails
  <1>3. ASSUME Accept \/ AcceptEnds \/ DropServer \/ DropTransport PROVE OwedInv'
    BY <1>1, <1>3 DEF Accept, AcceptEnds, DropServer, DropTransport
  <1>4. ASSUME NEW c \in ConnIds, DropStep(c) PROVE OwedInv'
    BY <1>1, <1>4 DEF DropStep, DropSocket, DropPeer, DropReader, DropWriter, Cut
  <1>5. ASSUME NEW ch \in Channels, NEW f \in WsFrame, Put(ch, f), UNCHANGED <<got, kind>>,
               owed' = [owed EXCEPT ![ch] = {}] \/ (owed' = owed /\ f.type # "Close")
        PROVE  OwedInv'
    <2>1. \A x \in Channels : owed'[x] \subseteq owed[x]
      BY <1>0, <1>5, Zenon DEF FrameTypes
    <2>2. ASSUME NEW x \in Channels, owed'[x] # {}, ~HasClose(sent[x]) PROVE ~HasClose(sent'[x])
      <3>1. CASE x # ch
        BY <1>0, <1>5, <2>2, <3>1 DEF Put, FrameTypes
      <3>2. CASE x = ch
        <4>1. f.type # "Close" /\ sent[ch] \in Seq(WsFrame) /\ sent'[ch] = Append(sent[ch], f)
          BY <1>0, <1>5, <2>2, <3>2 DEF Put, FrameTypes
        <4>2. /\ Len(sent'[ch]) = Len(sent[ch]) + 1 /\ sent'[ch][Len(sent[ch]) + 1] = f
              /\ \A i \in 1 .. Len(sent[ch]) : sent'[ch][i] = sent[ch][i]
              /\ Len(sent[ch]) \in Nat
          BY <4>1, Grows
        <4> QED
          BY <2>2, <3>2, <4>1, <4>2 DEF HasClose
      <3> QED
        BY <3>1, <3>2
    <2>3. ASSUME NEW x \in Channels, NEW g \in owed'[x]
          PROVE  /\ kind' = "Socket" /\ ~HasClose(sent'[x])
                 /\ \E i \in 1 .. Len(got'[Other(x)]) :
                       /\ got'[Other(x)][i].type \in {"Ping", "Close"}
                       /\ g = AnswerTo(got'[Other(x)][i])
      <3>1. g \in owed[x]
        BY <2>1
      <3>2. ~HasClose(sent'[x])
        BY <2>2, <3>1 DEF OwedInv
      <3> QED
        BY <1>5, <3>1, <3>2, Zenon DEF OwedInv
    <2> QED
      BY <2>3, Zenon DEF OwedInv
  <1>6. ASSUME NEW ch \in Channels, NEW f \in Frames \cup {IntoWsFrame(p) : p \in Raw}, Write(ch, f)
        PROVE  OwedInv'
    <2>1. f \in WsFrame
      BY Written, TransportAssumption
    <2> QED
      BY <1>5, <1>6, <2>1 DEF Write
  <1>7. ASSUME NEW ch \in Channels, Reply(ch) PROVE OwedInv'
    <2>1. PICK f \in owed[ch] : Put(ch, f)
      BY <1>7 DEF Reply
    <2>2. f \in WsFrame
      BY <1>0, <2>1 DEF FrameTypes
    <2> QED
      BY <1>5, <1>7, <2>1, <2>2, Zenon DEF Reply
  <1>8. ASSUME NEW ch \in Channels, Receive(ch) PROVE OwedInv'
    <2> DEFINE f == Head(chan[ch])
    <2>1. /\ UNCHANGED <<kind, sent>> /\ f \in WsFrame
          /\ got' = [got EXCEPT ![ch] = Append(got[ch], f)]
      BY <1>0, <1>8 DEF Receive, FrameTypes
    <2>2. \/ owed' = owed
          \/ /\ kind = "Socket" /\ f.type \in {"Ping", "Close"} /\ Active(Other(ch))
             /\ owed' = [owed EXCEPT ![Other(ch)] = {AnswerTo(f)}]
      BY <1>8 DEF Receive, Owe
    <2> HIDE DEF f
    <2>3. /\ Len(got'[ch]) = Len(got[ch]) + 1 /\ got'[ch][Len(got[ch]) + 1] = f
          /\ \A i \in 1 .. Len(got[ch]) : got'[ch][i] = got[ch][i]
          /\ Len(got[ch]) \in Nat
      <3>1. got[ch] \in Seq(WsFrame) /\ got'[ch] = Append(got[ch], f)
        BY <1>0, <2>1 DEF FrameTypes
      <3> QED
        BY <2>1, <3>1, Grows
    <2>4. \A x \in Channels : x # ch => got'[x] = got[x]
      BY <1>0, <2>1 DEF FrameTypes
    <2>5. Other(Other(ch)) = ch
      BY DEF Other, Out, In, Channels
    <2>6. ASSUME NEW x \in Channels, NEW g \in owed'[x]
          PROVE  /\ kind' = "Socket" /\ ~HasClose(sent'[x])
                 /\ \E i \in 1 .. Len(got'[Other(x)]) :
                       /\ got'[Other(x)][i].type \in {"Ping", "Close"}
                       /\ g = AnswerTo(got'[Other(x)][i])
      <3>1. CASE g \in owed[x]
        <4>1. PICK i \in 1 .. Len(got[Other(x)]) :
                 got[Other(x)][i].type \in {"Ping", "Close"} /\ g = AnswerTo(got[Other(x)][i])
          BY <3>1 DEF OwedInv
        <4>2. i \in 1 .. Len(got'[Other(x)]) /\ got'[Other(x)][i] = got[Other(x)][i]
          BY <1>0, <2>3, <2>4, <4>1
        <4>3. kind' = "Socket" /\ ~HasClose(sent'[x])
          BY <2>1, <3>1 DEF OwedInv, HasClose
        <4> QED
          BY <4>1, <4>2, <4>3
      <3>2. CASE g \notin owed[x]
        <4>1. /\ kind = "Socket" /\ f.type \in {"Ping", "Close"} /\ ~HasClose(sent[Other(ch)])
              /\ x = Other(ch) /\ g = AnswerTo(f)
          BY <1>0, <2>2, <2>6, <3>2 DEF FrameTypes, Active
        <4>2. Len(got[ch]) + 1 \in 1 .. Len(got'[ch])
          BY <2>3
        <4> QED
          BY <2>1, <2>3, <2>5, <4>1, <4>2 DEF HasClose
      <3> QED
        BY <3>1, <3>2
    <2> QED
      BY <2>6, Zenon DEF OwedInv
  <1>9. ASSUME NEW ch \in Channels, SeeEnd(ch) PROVE OwedInv'
    BY <1>1, <1>9 DEF SeeEnd
  <1>10. CASE UNCHANGED vars
    BY <1>1, <1>10 DEF vars
  <1> QED
    BY <1>2, <1>3, <1>4, <1>6, <1>7, <1>8, <1>9, <1>10 DEF Next

(* Every receiver of the three transports gets a prefix of what was put on  *)
(* its own connection, the user's frames and on a socket the answers of the *)
(* library, in order and unaltered but for a close reason that is not       *)
(* UTF-8, for any number of connections, frames and drops.                  *)
THEOREM FramesKeepOrder == Spec => []FramesArriveInOrder
  <1>1. FrameInv => FramesArriveInOrder
    BY Zenon DEF FrameInv, Fits, Line, FramesArriveInOrder
  <1> QED
    BY <1>1, ConnInit, ConnStep, FrameInit, FrameStep, OwedInit, OwedStep, PTL DEF Spec

-----------------------------------------------------------------------------
(* The line of connections before the server *)

LEMMA LineAppends ==
    ASSUME NEW S, NEW g \in Seq(S), NEW f \in S
    PROVE  Line(Append(g, f), <<>>) = Line(g, Append(<<>>, f))
  BY DEF Line

LEMMA LineNoBacklog ==
    ASSUME NEW S, NEW g \in Seq(S)
    PROVE  Line(g, <<>>) = g
  BY DEF Line

LEMMA LineCovers ==
    ASSUME NEW S, NEW g \in Seq(S), NEW c \in Seq(S)
    PROVE  /\ Len(g) =< Len(Line(g, c)) /\ Len(g) \in Nat
           /\ \A i \in 1 .. Len(g) : Line(g, c)[i] = g[i]
  BY SMTT(30) DEF Line

InLine(c) == \E i \in 1 .. Len(Line(accepted, backlog)) : Line(accepted, backlog)[i] = c

(* A connection is behind every connection that was open when it began:     *)
(* what a call found open stays open, so a connection that joins the line   *)
(* later was not among what any connection ahead of it found.               *)
LineInv ==
    /\ accepted \in Seq(Nat) /\ backlog \in Seq(Nat) /\ connSeq =< MaxConnects
    /\ before \in [ConnIds -> SUBSET Nat] /\ \A c \in ConnIds : before[c] \subseteq Opened
    /\ \A i \in 1 .. Len(Line(accepted, backlog)) :
          kind # "Mock" /\ Line(accepted, backlog)[i] \in 1 .. connSeq
    /\ kind # "Reconnectable" => backlog = <<>>
    /\ \A i, j \in 1 .. Len(Line(accepted, backlog)) :
          i < j => Line(accepted, backlog)[j] \notin before[Line(accepted, backlog)[i]]

(* The numbers of calls: what is open stays open, a claimed number is not   *)
(* open yet, and the next one is new.                                       *)
LEMMA OpenedStays == ConnInv /\ [Next]_vars => Opened \subseteq Opened'
  <1> SUFFICES ASSUME ConnInv, [Next]_vars, NEW k \in Calls, pc[k] = "Open"
               PROVE  pc'[k] = "Open" /\ id'[k] = id[k]
    BY DEF Opened
  <1> USE DEF ConnInv, callVars
  <1>1. ASSUME NEW j \in Calls, CallStep(j) PROVE pc'[k] = "Open" /\ id'[k] = id[k]
    BY <1>1 DEF CallStep, Begin, Abandon, Claim, Number, Announce, AnnounceFails, TakeMock,
                TakeMockFails, ConnectSocket, ConnectSocketFails
  <1>2. CASE UNCHANGED callVars
    BY <1>2
  <1>3. CASE Accept \/ AcceptEnds \/ DropServer \/ DropTransport \/ UNCHANGED vars
    BY <1>2, <1>3 DEF Accept, AcceptEnds, DropServer, DropTransport, vars
  <1>4. ASSUME NEW c \in ConnIds, DropStep(c) PROVE pc'[k] = "Open" /\ id'[k] = id[k]
    BY <1>2, <1>4 DEF DropStep, DropSocket, DropPeer, DropReader, DropWriter, Cut
  <1>5. ASSUME NEW ch \in Channels, (\E f : Write(ch, f)) \/ Receive(ch) \/ Reply(ch) \/ SeeEnd(ch)
        PROVE  pc'[k] = "Open" /\ id'[k] = id[k]
    BY <1>2, <1>5 DEF Write, Receive, Reply, SeeEnd
  <1> QED
    BY <1>1, <1>3, <1>4, <1>5 DEF Next

LEMMA OpenedNumbers ==
    ASSUME ConnInv, kind # "Mock"
    PROVE  /\ Opened \subseteq 1 .. connSeq /\ connSeq + 1 \notin Opened
           /\ \A k \in Calls : pc[k] = "Claimed" => id[k] \notin Opened /\ id[k] \in 1 .. connSeq
  BY DEF ConnInv, Opened, Numbered

(* Steps after which the same connections, or fewer at the end, wait *)
LEMMA LineKept ==
    ASSUME LineInv, Opened \subseteq Opened', UNCHANGED <<kind, connSeq, before>>,
           accepted' \in Seq(Nat), backlog' \in Seq(Nat), kind # "Reconnectable" => backlog' = <<>>,
           Len(Line(accepted, backlog)') =< Len(Line(accepted, backlog)),
           \A i \in 1 .. Len(Line(accepted, backlog)') :
              Line(accepted, backlog)'[i] = Line(accepted, backlog)[i]
    PROVE  LineInv'
  <1>1. Len(Line(accepted, backlog)) \in Nat /\ Len(Line(accepted, backlog)') \in Nat
    BY LineType DEF LineInv
  <1> DEFINE l == Line(accepted, backlog)
             n == Line(accepted, backlog)'
  <1>2. \A i \in 1 .. Len(n) : i \in 1 .. Len(l) /\ n[i] = l[i]
    BY <1>1
  <1> HIDE DEF l, n
  <1>3. \A i \in 1 .. Len(n) : kind' # "Mock" /\ n[i] \in 1 .. connSeq'
    BY <1>2 DEF LineInv, l
  <1>4. \A i, j \in 1 .. Len(n) : i < j => n[j] \notin before'[n[i]]
    BY <1>2, Zenon DEF LineInv, l
  <1> QED
    BY <1>3, <1>4 DEF LineInv, n

(* Steps after which one more connection waits, which nothing in line found open *)
LEMMA LineGrows ==
    ASSUME LineInv, ConnInv, Opened \subseteq Opened', kind' = kind, kind # "Mock",
           NEW c \in Nat, c \notin Opened, connSeq' \in connSeq .. MaxConnects, c \in 1 .. connSeq',
           before' \in [ConnIds -> SUBSET Nat],
           \A b \in ConnIds : before'[b] \subseteq Opened,
           \A b \in 1 .. connSeq : before'[b] = before[b],
           accepted' \in Seq(Nat), backlog' \in Seq(Nat), kind # "Reconnectable" => backlog' = <<>>,
           Line(accepted, backlog)' = Line(accepted, Append(backlog, c))
    PROVE  LineInv'
  <1> DEFINE l == Line(accepted, backlog)
             n == Line(accepted, backlog)'
  <1>1. /\ Len(l) \in Nat /\ Len(n) = Len(l) + 1 /\ n[Len(l) + 1] = c
        /\ \A i \in 1 .. Len(l) : n[i] = l[i]
    <2>1. accepted \in Seq(Nat) /\ backlog \in Seq(Nat) /\ n = Line(accepted, Append(backlog, c))
      BY DEF LineInv
    <2> HIDE DEF n
    <2>2. Len(l) \in Nat
      BY <2>1, LineType
    <2>3. \A f \in Nat :
             /\ Len(Line(accepted, Append(backlog, f))) = Len(l) + 1
             /\ \A i \in 1 .. Len(l) : Line(accepted, Append(backlog, f))[i] = l[i]
             /\ Line(accepted, Append(backlog, f))[Len(l) + 1] = f
      BY <2>1, TakeOn
    <2> HIDE DEF l
    <2> QED
      BY <2>1, <2>2, <2>3
  <1> HIDE DEF l, n
  <1>2. \A i \in 1 .. Len(l) : l[i] \in 1 .. connSeq /\ l[i] \in ConnIds
    BY TransportAssumption, SMTT(30) DEF LineInv, ConnInv, ConnIds, l
  <1>3. \A i, j \in 1 .. Len(l) : i < j => l[j] \notin before[l[i]]
    BY DEF LineInv, l
  <1>4. ASSUME NEW i \in 1 .. Len(n) PROVE n[i] \in 1 .. connSeq'
    <2>1. i \in 1 .. Len(l) \/ i = Len(l) + 1
      BY <1>1
    <2>2. connSeq \in Nat /\ connSeq' \in Nat /\ connSeq =< connSeq'
      BY DEF ConnInv
    <2>3. CASE i \in 1 .. Len(l)
      <3>1. n[i] \in 1 .. connSeq
        BY <1>1, <1>2, <2>3
      <3> QED
        BY <2>2, <3>1
    <2>4. CASE i = Len(l) + 1
      BY <1>1, <2>4
    <2> QED
      BY <2>1, <2>3, <2>4
  <1>5. ASSUME NEW i \in 1 .. Len(n), NEW j \in 1 .. Len(n), i < j PROVE n[j] \notin before'[n[i]]
    <2>1. i \in 1 .. Len(l) /\ n[i] = l[i] /\ before'[n[i]] = before[l[i]]
      BY <1>1, <1>2, <1>5
    <2>2. CASE j \in 1 .. Len(l)
      BY <1>1, <1>3, <1>5, <2>1, <2>2
    <2>3. CASE j = Len(l) + 1
      BY <1>1, <1>2, <2>1, <2>3
    <2> QED
      BY <1>1, <2>2, <2>3
  <1>6. connSeq' =< MaxConnects
    BY DEF ConnInv
  <1> QED
    BY <1>4, <1>5, <1>6 DEF LineInv, n

LEMMA LineInit == Init => LineInv
  <1> SUFFICES ASSUME Init PROVE LineInv
    OBVIOUS
  <1>1. accepted = <<>> /\ backlog = <<>> /\ connSeq = 0 /\ before = [c \in ConnIds |-> {}]
    BY DEF Init
  <1> QED
    BY <1>1, LineEmpty, TransportAssumption DEF LineInv

LEMMA LineStep == LineInv /\ ConnInv /\ [Next]_vars => LineInv'
  <1> SUFFICES ASSUME LineInv, ConnInv, [Next]_vars PROVE LineInv'
    OBVIOUS
  <1>0. /\ Opened \subseteq Opened' /\ connSeq \in Nat /\ accepted \in Seq(Nat) /\ backlog \in Seq(Nat)
        /\ Len(Line(accepted, backlog)) \in Nat
    BY OpenedStays, LineType DEF ConnInv, LineInv
  <1>1. CASE UNCHANGED <<kind, connSeq, before, accepted, backlog>>
    BY <1>0, <1>1, LineKept DEF LineInv
  <1> USE DEF callVars, serverVars
  <1>2. ASSUME NEW k \in Calls, CallStep(k) PROVE LineInv'
    <2>1. CASE Claim(k)
      <3>1. /\ UNCHANGED <<kind, accepted, backlog>> /\ connSeq' = connSeq + 1 /\ kind # "Mock"
            /\ before' = [before EXCEPT ![connSeq + 1] = Opened] /\ connSeq < MaxConnects
        BY <2>1 DEF Claim, Number
      <3>2. Opened \subseteq 1 .. connSeq
        BY <3>1, OpenedNumbers
      <3>3. before' \in [ConnIds -> SUBSET Nat] /\ \A c \in ConnIds : before'[c] \subseteq Opened
        <4>1. \A c \in ConnIds : before'[c] = IF c = connSeq + 1 THEN Opened ELSE before[c]
          BY <3>1 DEF LineInv
        <4>2. Opened \in SUBSET Nat
          BY <3>2
        <4> QED
          BY <3>1, <4>1, <4>2, Zenon DEF LineInv
      <3>4. \A c \in 1 .. connSeq : before'[c] = before[c]
        BY <1>0, <3>1, TransportAssumption DEF LineInv, ConnIds
      <3> DEFINE l == Line(accepted, backlog)
      <3>5. Line(accepted, backlog)' = l
        BY <3>1
      <3>6. \A i \in 1 .. Len(l) : l[i] \in 1 .. connSeq
        BY DEF LineInv
      <3>7. \A i, j \in 1 .. Len(l) : i < j => l[j] \notin before'[l[i]]
        BY <3>4, <3>6 DEF LineInv
      <3> HIDE DEF l
      <3>8. \A i \in 1 .. Len(l) : kind' # "Mock" /\ l[i] \in 1 .. connSeq'
        BY <1>0, <3>1, <3>6
      <3>9. connSeq' =< MaxConnects /\ (kind' # "Reconnectable" => backlog' = <<>>)
        BY <1>0, <3>1, TransportAssumption DEF LineInv
      <3> QED
        BY <1>0, <3>1, <3>3, <3>5, <3>7, <3>8, <3>9 DEF LineInv
    <2>2. CASE Announce(k)
      <3>1. /\ UNCHANGED <<kind, connSeq, before, accepted, id>> /\ pc[k] = "Claimed"
            /\ backlog' = Append(backlog, id[k])
        BY <2>2 DEF Announce
      <3>2. kind = "Reconnectable" /\ id[k] \in Nat
        BY <3>1 DEF ConnInv
      <3>3. id[k] \notin Opened /\ id[k] \in 1 .. connSeq
        BY <3>1, <3>2, OpenedNumbers
      <3>4. backlog' \in Seq(Nat) /\ Line(accepted, backlog)' = Line(accepted, Append(backlog, id[k]))
        BY <1>0, <3>1, <3>2, TakeOn
      <3>5. connSeq' \in connSeq .. MaxConnects
        BY <1>0, <3>1, TransportAssumption DEF LineInv
      <3>6. before' \in [ConnIds -> SUBSET Nat] /\ \A b \in ConnIds : before'[b] \subseteq Opened
        BY <3>1 DEF LineInv
      <3> QED
        BY <1>0, <3>1, <3>2, <3>3, <3>4, <3>5, <3>6, LineGrows
    <2>3. CASE ConnectSocket(k)
      <3>1. /\ UNCHANGED <<kind, backlog>> /\ connSeq' = connSeq + 1 /\ kind = "Socket"
            /\ before' = [before EXCEPT ![connSeq + 1] = Opened] /\ connSeq < MaxConnects
            /\ accepted' = Append(accepted, connSeq + 1)
        BY <2>3 DEF ConnectSocket, Number
      <3>2. Opened \subseteq 1 .. connSeq /\ connSeq + 1 \notin Opened
        BY <3>1, OpenedNumbers
      <3>3. before' \in [ConnIds -> SUBSET Nat] /\ \A c \in ConnIds : before'[c] \subseteq Opened
        <4>1. \A c \in ConnIds : before'[c] = IF c = connSeq + 1 THEN Opened ELSE before[c]
          BY <3>1 DEF LineInv
        <4>2. Opened \in SUBSET Nat
          BY <3>2
        <4> QED
          BY <3>1, <4>1, <4>2, Zenon DEF LineInv
      <3>4. \A c \in 1 .. connSeq : before'[c] = before[c]
        BY <1>0, <3>1, TransportAssumption DEF LineInv, ConnIds
      <3>5. backlog = <<>> /\ connSeq + 1 \in Nat
        BY <1>0, <3>1 DEF LineInv
      <3>6. accepted' \in Seq(Nat) /\ Line(accepted, backlog)' = Line(accepted, Append(backlog, connSeq + 1))
        BY <1>0, <3>1, <3>5, LineAppends, Grows
      <3>7. connSeq' \in connSeq .. MaxConnects /\ connSeq + 1 \in 1 .. connSeq'
        BY <1>0, <3>1, TransportAssumption
      <3> QED
        BY <1>0, <3>1, <3>2, <3>3, <3>4, <3>5, <3>6, <3>7, LineGrows, Zenon
    <2>4. CASE TakeMock(k)
      BY <1>1, <2>4 DEF TakeMock
    <2>5. CASE Begin(k) \/ Abandon(k) \/ AnnounceFails(k) \/ TakeMockFails(k) \/ ConnectSocketFails(k)
      BY <1>1, <2>5 DEF Begin, Abandon, AnnounceFails, TakeMockFails, ConnectSocketFails
    <2> QED
      BY <1>2, <2>1, <2>2, <2>3, <2>4, <2>5 DEF CallStep
  <1>3. CASE Accept
    <2>1. /\ UNCHANGED <<kind, connSeq, before>> /\ backlog # <<>>
          /\ accepted' = Append(accepted, Head(backlog)) /\ backlog' = Tail(backlog)
      BY <1>3 DEF Accept
    <2>2. accepted' \in Seq(Nat) /\ backlog' \in Seq(Nat) /\ Line(accepted, backlog)' = Line(accepted, backlog)
      BY <1>0, <2>1, HandOver
    <2>3. kind = "Reconnectable"
      BY <2>1 DEF LineInv
    <2> QED
      BY <1>0, <2>1, <2>2, <2>3, LineKept
  <1>4. CASE DropServer
    <2>1. UNCHANGED <<kind, connSeq, before, accepted>> /\ backlog' = <<>>
      BY <1>4 DEF DropServer
    <2>2. Line(accepted, backlog)' = accepted /\ backlog' \in Seq(Nat)
      BY <1>0, <2>1, LineNoBacklog
    <2> QED
      BY <1>0, <2>1, <2>2, LineKept, LineCovers
  <1>5. ASSUME AcceptEnds \/ DropTransport PROVE LineInv'
    BY <1>1, <1>5 DEF AcceptEnds, DropTransport
  <1>6. ASSUME NEW c \in ConnIds, DropStep(c) PROVE LineInv'
    BY <1>1, <1>6 DEF DropStep, DropSocket, DropPeer, DropReader, DropWriter, Cut
  <1>7. ASSUME NEW ch \in Channels, (\E f : Write(ch, f)) \/ Receive(ch) \/ Reply(ch) \/ SeeEnd(ch) PROVE LineInv'
    BY <1>1, <1>7 DEF Write, Receive, Reply, SeeEnd
  <1>8. CASE UNCHANGED vars
    BY <1>1, <1>8 DEF vars
  <1> QED
    BY <1>2, <1>3, <1>4, <1>5, <1>6, <1>7, <1>8 DEF Next

(* accept_connection hands out connections in the order of the calls that   *)
(* did not overlap, for any number of threads calling connect.              *)
THEOREM AcceptedInOrder == Spec => []AcceptOrder
  <1>1. LineInv => AcceptOrder
    BY DEF LineInv, Line, AcceptOrder
  <1> QED
    BY <1>1, ConnInit, ConnStep, LineInit, LineStep, PTL DEF Spec

-----------------------------------------------------------------------------
(* Ends *)

(* None from accept_connection: nothing can join the line any more.  While  *)
(* the server lives, what is open is in the line.                           *)
AcceptInv ==
    /\ kind = "Reconnectable" /\ serverUp => \A k \in Calls : pc[k] = "Open" => InLine(id[k])
    /\ acceptEnded => kind = "Reconnectable" /\ ~Held /\ backlog = <<>>

(* Nobody is left who could put a frame on the channel, or the close frame  *)
(* is on it.                                                                *)
Silent(ch) ==
    \/ ch \notin tx /\ (kind = "Socket" => Other(ch) \notin rx)
    \/ kind = "Socket" /\ HasClose(sent[ch])

(* None from a receiver: no sender is left, and none can come back, because *)
(* only a call that has not returned makes one, for a connection of its     *)
(* own; or the closing handshake is over.                                   *)
EndInv ==
    /\ ended \subseteq Channels
    /\ kind = "Mock" /\ Out(1) \in ended => ~Held
    /\ kind # "Mock" => \A ch \in tx \cup rx \cup ended : ch[1] \in Opened
    /\ \A ch \in ended :
          /\ chan[ch] = <<>>
          /\ ch[1] \notin cut => Silent(ch) /\ Len(got[ch]) = Len(sent[ch])

(* A transport and its calls, once gone, stay gone. *)
LEMMA HeldEnds == ConnInv /\ [Next]_vars /\ ~Held => ~Held' /\ \A k \in Calls : ~CallStep(k)
  <1> SUFFICES ASSUME ConnInv, [Next]_vars, ~Held PROVE ~Held' /\ \A k \in Calls : ~CallStep(k)
    OBVIOUS
  <1> USE DEF callVars
  <1>1. \A k \in Calls : ~CallStep(k)
    BY DEF Held, CallStep, Begin, Abandon, Claim, Announce, AnnounceFails, TakeMock, TakeMockFails,
           ConnectSocket, ConnectSocketFails
  <1>2. CASE UNCHANGED pc /\ (transportUp' => transportUp)
    BY <1>1, <1>2 DEF Held
  <1>3. CASE Accept \/ AcceptEnds \/ DropServer \/ DropTransport \/ UNCHANGED vars
    <2>1. UNCHANGED pc
      BY <1>3 DEF Accept, AcceptEnds, DropServer, DropTransport, vars
    <2>2. transportUp' = transportUp \/ ~transportUp'
      BY <1>3, Zenon DEF Accept, AcceptEnds, DropServer, DropTransport, vars
    <2> QED
      BY <1>2, <2>1, <2>2
  <1>4. ASSUME NEW c \in ConnIds, DropStep(c) PROVE ~Held'
    BY <1>2, <1>4 DEF DropStep, DropSocket, DropPeer, DropReader, DropWriter, Cut
  <1>5. ASSUME NEW ch \in Channels, (\E f : Write(ch, f)) \/ Receive(ch) \/ Reply(ch) \/ SeeEnd(ch) PROVE ~Held'
    BY <1>2, <1>5 DEF Write, Receive, Reply, SeeEnd
  <1> QED
    BY <1>1, <1>3, <1>4, <1>5 DEF Next

LEMMA AcceptInit == Init => AcceptInv
  BY DEF Init, AcceptInv

LEMMA AcceptStep == AcceptInv /\ LineInv /\ ConnInv /\ [Next]_vars => AcceptInv'
  <1> SUFFICES ASSUME AcceptInv, LineInv, ConnInv, [Next]_vars PROVE AcceptInv'
    OBVIOUS
  <1>0. accepted \in Seq(Nat) /\ backlog \in Seq(Nat) /\ Len(Line(accepted, backlog)) \in Nat
    BY LineType DEF LineInv
  <1> USE DEF callVars, serverVars
  <1>1. CASE /\ UNCHANGED <<kind, acceptEnded, serverUp>> /\ Line(accepted, backlog)' = Line(accepted, backlog)
             /\ \A k \in Calls : pc'[k] = "Open" => pc[k] = "Open" /\ id'[k] = id[k]
             /\ (backlog = <<>> => backlog' = <<>>)
    BY <1>1, HeldEnds DEF AcceptInv, InLine
  <1>2. ASSUME NEW k \in Calls, CallStep(k) PROVE AcceptInv'
    <2>0. ~acceptEnded
      BY <1>2, HeldEnds DEF AcceptInv
    <2>1. CASE Announce(k)
      <3>1. /\ UNCHANGED <<kind, acceptEnded, serverUp, id, accepted>> /\ pc[k] = "Claimed"
            /\ backlog' = Append(backlog, id[k]) /\ pc' = [pc EXCEPT ![k] = "Open"] /\ serverUp
        BY <2>1 DEF Announce
      <3>2. id[k] \in Nat /\ kind = "Reconnectable"
        BY <3>1 DEF ConnInv
      <3> DEFINE l == Line(accepted, backlog)
                 n == Line(accepted, backlog)'
      <3>3. n = Line(accepted, Append(backlog, id[k]))
        BY <3>1
      <3> HIDE DEF n
      <3>4. \A f \in Nat : /\ Len(Line(accepted, Append(backlog, f))) = Len(l) + 1
                           /\ \A i \in 1 .. Len(l) : Line(accepted, Append(backlog, f))[i] = l[i]
                           /\ Line(accepted, Append(backlog, f))[Len(l) + 1] = f
        BY <1>0, TakeOn
      <3>5. /\ Len(n) = Len(l) + 1 /\ n[Len(l) + 1] = id[k]
            /\ \A i \in 1 .. Len(l) : n[i] = l[i]
        BY <3>2, <3>3, <3>4
      <3>6. \A j \in Calls : pc[j] = "Open" => \E i \in 1 .. Len(l) : l[i] = id[j]
        BY <3>1, <3>2 DEF AcceptInv, InLine
      <3> HIDE DEF l
      <3>7. Len(l) \in Nat
        BY <1>0 DEF l
      <3>8. ASSUME NEW j \in Calls, pc'[j] = "Open" PROVE \E i \in 1 .. Len(n) : n[i] = id'[j]
        <4>1. CASE j = k
          BY <3>1, <3>5, <3>7, <4>1
        <4>2. CASE j # k
          <5>1. pc[j] = "Open"
            BY <3>1, <3>8, <4>2 DEF ConnInv
          <5>2. PICK i \in 1 .. Len(l) : l[i] = id[j]
            BY <3>6, <5>1
          <5>3. i \in 1 .. Len(n) /\ n[i] = id'[j]
            BY <3>1, <3>5, <3>7, <5>2
          <5> QED
            BY <5>3
        <4> QED
          BY <4>1, <4>2
      <3>9. \A j \in Calls : pc'[j] = "Open" => InLine(id[j])'
        BY <3>8 DEF InLine, n
      <3> QED
        BY <2>0, <3>1, <3>9 DEF AcceptInv
    <2>2. CASE TakeMock(k) \/ ConnectSocket(k)
      BY <2>0, <2>2 DEF TakeMock, ConnectSocket, AcceptInv
    <2>3. CASE Claim(k)
      BY <1>1, <2>3 DEF Claim, Number, ConnInv
    <2>4. CASE Begin(k) \/ Abandon(k) \/ AnnounceFails(k) \/ TakeMockFails(k) \/ ConnectSocketFails(k)
      BY <1>1, <2>4 DEF Begin, Abandon, AnnounceFails, TakeMockFails, ConnectSocketFails, ConnInv
    <2> QED
      BY <1>2, <2>1, <2>2, <2>3, <2>4 DEF CallStep
  <1>3. CASE Accept
    <2>1. /\ UNCHANGED <<kind, serverUp, acceptEnded, pc, id>> /\ backlog # <<>>
          /\ accepted' = Append(accepted, Head(backlog)) /\ backlog' = Tail(backlog)
      BY <1>3 DEF Accept
    <2>2. Line(accepted, backlog)' = Line(accepted, backlog)
      BY <1>0, <2>1, HandOver
    <2> QED
      BY <1>1, <2>1, <2>2
  <1>4. CASE AcceptEnds
    BY <1>4, HeldEnds DEF AcceptEnds, AcceptInv, InLine
  <1>5. CASE DropServer
    BY <1>5, HeldEnds DEF DropServer, AcceptInv
  <1>6. ASSUME DropTransport PROVE AcceptInv'
    BY <1>1, <1>6 DEF DropTransport
  <1>7. ASSUME NEW c \in ConnIds, DropStep(c) PROVE AcceptInv'
    BY <1>1, <1>7, Zenon DEF DropStep, DropSocket, DropPeer, DropReader, DropWriter, Cut
  <1>8. ASSUME NEW ch \in Channels, (\E f : Write(ch, f)) \/ Receive(ch) \/ Reply(ch) \/ SeeEnd(ch) PROVE AcceptInv'
    BY <1>1, <1>8, Zenon DEF Write, Receive, Reply, SeeEnd
  <1>9. CASE UNCHANGED vars
    BY <1>1, <1>9, Zenon DEF vars
  <1> QED
    BY <1>2, <1>3, <1>4, <1>5, <1>6, <1>7, <1>8, <1>9 DEF Next

LEMMA EndInit == Init => EndInv
  BY DEF Init, EndInv

(* Steps that write and hand out nothing on the channels that have ended *)
LEMMA EndKept ==
    ASSUME EndInv, UNCHANGED <<kind, ended>>, ~Held => ~Held', Opened \subseteq Opened', cut \subseteq cut',
           kind # "Mock" => \A ch \in (tx' \ tx) \cup (rx' \ rx) : ch[1] \in Opened',
           \A ch \in ended : chan[ch] = <<>> => chan'[ch] = <<>>,
           \A ch \in ended : ch[1] \notin cut' =>
              /\ (ch \in tx' => ch \in tx)
              /\ (kind = "Socket" /\ Other(ch) \in rx' => Other(ch) \in rx)
              /\ got'[ch] = got[ch] /\ sent'[ch] = sent[ch]
    PROVE  EndInv'
  <1>1. kind # "Mock" => \A ch \in tx' \cup rx' \cup ended : ch[1] \in Opened'
    BY DEF EndInv
  <1>2. \A ch \in ended :
           /\ chan'[ch] = <<>>
           /\ ch[1] \notin cut' => Silent(ch)' /\ Len(got'[ch]) = Len(sent'[ch])
    <2> SUFFICES ASSUME NEW ch \in ended
                 PROVE  /\ chan'[ch] = <<>>
                        /\ ch[1] \notin cut' => Silent(ch)' /\ Len(got'[ch]) = Len(sent'[ch])
      OBVIOUS
    <2>1. chan[ch] = <<>> /\ (ch[1] \notin cut => Silent(ch) /\ Len(got[ch]) = Len(sent[ch]))
      BY DEF EndInv
    <2>2. ASSUME ch[1] \notin cut' PROVE Silent(ch)' /\ Len(got'[ch]) = Len(sent'[ch])
      <3>1. Silent(ch) /\ Len(got[ch]) = Len(sent[ch])
        BY <2>1, <2>2
      <3>2. Silent(ch)'
        BY <2>2, <3>1 DEF Silent, HasClose
      <3> QED
        BY <2>2, <3>1, <3>2
    <2> QED
      BY <2>1, <2>2
  <1> QED
    BY <1>1, <1>2, Zenon DEF EndInv

LEMMA CutShrinks ==
    ASSUME FrameInv, NEW c \in ConnIds, Cut(c), NEW ch \in Channels, chan[ch] = <<>>
    PROVE  chan'[ch] = <<>>
  <1>1. Out(c) \in Channels /\ In(c) \in Channels /\ Out(c) # In(c)
    BY DEF Out, In, Channels
  <1>2. PICK n \in 0 .. Len(chan[Out(c)]), m \in 0 .. Len(chan[In(c)]) :
           chan' = [chan EXCEPT ![Out(c)] = SubSeq(chan[Out(c)], 1, n),
                                ![In(c)] = SubSeq(chan[In(c)], 1, m)]
    BY <1>1, Zenon DEF Cut, FrameInv, FrameTypes
  <1>3. SubSeq(<<>>, 1, 0) = <<>> /\ Len(<<>>) = 0
    OBVIOUS
  <1>4. CASE ch = Out(c)
    BY <1>1, <1>2, <1>3, <1>4 DEF FrameInv, FrameTypes
  <1>5. CASE ch = In(c)
    BY <1>1, <1>2, <1>3, <1>5 DEF FrameInv, FrameTypes
  <1>6. CASE ch # Out(c) /\ ch # In(c)
    BY <1>1, <1>2, <1>6 DEF FrameInv, FrameTypes
  <1> QED
    BY <1>4, <1>5, <1>6

(* A frame is put, and an answer given, only where somebody waits for it. *)
LEMMA NotSilent ==
    ASSUME OwedInv, NEW ch \in Channels, (\E f : Write(ch, f)) \/ Reply(ch)
    PROVE  ~Silent(ch)
  <1>1. ASSUME NEW f, Write(ch, f) PROVE ~Silent(ch)
    BY <1>1, Zenon DEF Write, Accepts, Active, Silent
  <1>2. ASSUME Reply(ch) PROVE ~Silent(ch)
    <2>1. PICK f \in owed[ch] : TRUE
      BY <1>2 DEF Reply
    <2>2. kind = "Socket" /\ ~HasClose(sent[ch])
      BY <2>1 DEF OwedInv
    <2> QED
      BY <1>2, <2>2 DEF Reply, SenderUp, Silent
  <1> QED
    BY <1>1, <1>2

(* What a reader has read was put: a close frame among it too. *)
LEMMA CloseWasSent ==
    ASSUME FrameInv, NEW ch \in Channels, HasClose(got[ch])
    PROVE  HasClose(sent[ch])
  <1>1. /\ got[ch] \in Seq(WsFrame) /\ chan[ch] \in Seq(WsFrame) /\ sent[ch] \in Seq(WsFrame)
        /\ Fits(got[ch], chan[ch], sent[ch])
    BY DEF FrameInv, FrameTypes
  <1>2. PICK i \in 1 .. Len(got[ch]) : got[ch][i].type = "Close"
    BY DEF HasClose
  <1>3. i \in 1 .. Len(Line(got[ch], chan[ch])) /\ Line(got[ch], chan[ch])[i] = got[ch][i]
    <2>1. Len(Line(got[ch], chan[ch])) \in Nat /\ Len(got[ch]) \in Nat
      BY <1>1, LineType
    <2>2. /\ Len(got[ch]) =< Len(Line(got[ch], chan[ch]))
          /\ \A j \in 1 .. Len(got[ch]) : Line(got[ch], chan[ch])[j] = got[ch][j]
      BY <1>1, LineCovers
    <2> QED
      BY <1>2, <2>1, <2>2
  <1>4. i \in 1 .. Len(sent[ch]) /\ Same(got[ch][i], sent[ch][i])
    BY <1>1, <1>3, FitsAt
  <1>5. sent[ch][i].type = "Close"
    BY <1>2, <1>4 DEF Same
  <1> QED
    BY <1>4, <1>5 DEF HasClose

LEMMA EndStep == EndInv /\ FrameInv /\ OwedInv /\ ConnInv /\ [Next]_vars => EndInv'
  <1> SUFFICES ASSUME EndInv, FrameInv, OwedInv, ConnInv, [Next]_vars PROVE EndInv'
    OBVIOUS
  <1>0. Opened \subseteq Opened' /\ (~Held => ~Held' /\ \A k \in Calls : ~CallStep(k))
    BY OpenedStays, HeldEnds
  <1> USE DEF callVars, serverVars, endVars, frameVars
  <1>1. CASE UNCHANGED <<kind, cut, frameVars>> /\ tx' \subseteq tx /\ rx' \subseteq rx
    BY <1>0, <1>1, EndKept
  <1>2. ASSUME NEW k \in Calls, CallStep(k) PROVE EndInv'
    <2>1. ASSUME NEW c \in Nat, kind # "Mock", c \notin Opened, c \in Opened',
                 UNCHANGED <<kind, cut, frameVars>>,
                 tx' = tx \cup Ends(c), rx' = rx \cup Ends(c)
          PROVE  EndInv'
      <3>1. \A ch \in Ends(c) : ch[1] = c
        BY DEF Ends, Out, In
      <3>2. \A ch \in ended : ch \notin Ends(c) /\ Other(ch) \notin Ends(c)
        BY <2>1, <3>1 DEF EndInv, Other, Out, In
      <3> QED
        BY <1>0, <2>1, <3>1, <3>2, EndKept
    <2>2. CASE Announce(k)
      <3>1. /\ UNCHANGED <<kind, cut, frameVars, id>> /\ pc[k] = "Claimed"
            /\ pc' = [pc EXCEPT ![k] = "Open"]
            /\ tx' = tx \cup Ends(id[k]) /\ rx' = rx \cup Ends(id[k])
        BY <2>2, Zenon DEF Announce
      <3>2. kind # "Mock" /\ id[k] \in Nat /\ id[k] \in Opened'
        BY <3>1 DEF ConnInv, Opened
      <3>3. id[k] \notin Opened
        BY <3>1, <3>2, OpenedNumbers
      <3> QED
        BY <2>1, <3>1, <3>2, <3>3
    <2>3. CASE ConnectSocket(k)
      <3>1. /\ UNCHANGED <<kind, cut, frameVars>> /\ kind = "Socket"
            /\ pc' = [pc EXCEPT ![k] = "Open"] /\ id' = [id EXCEPT ![k] = connSeq + 1]
            /\ tx' = tx \cup Ends(connSeq + 1) /\ rx' = rx \cup Ends(connSeq + 1)
        BY <2>3 DEF ConnectSocket, Number
      <3>2. connSeq + 1 \in Nat /\ connSeq + 1 \in Opened'
        <4>1. connSeq + 1 \in Nat /\ pc'[k] = "Open" /\ id'[k] = connSeq + 1
          BY <3>1 DEF ConnInv
        <4> QED
          BY <4>1 DEF Opened
      <3>3. connSeq + 1 \notin Opened
        BY <3>1, OpenedNumbers
      <3> QED
        BY <2>1, <3>1, <3>2, <3>3
    <2>4. CASE TakeMock(k)
      <3>1. /\ UNCHANGED <<kind, cut, frameVars>> /\ kind = "Mock"
            /\ tx' = tx \cup {Out(1)}
        BY <2>4 DEF TakeMock
      <3>2. Out(1) \notin ended
        BY <1>0, <1>2, <3>1 DEF EndInv
      <3> QED
        BY <1>0, <3>1, <3>2, EndKept
    <2>5. CASE Begin(k) \/ Abandon(k) \/ Claim(k) \/ AnnounceFails(k) \/ TakeMockFails(k)
               \/ ConnectSocketFails(k)
      BY <1>1, <2>5 DEF Begin, Abandon, Claim, AnnounceFails, TakeMockFails, ConnectSocketFails
    <2> QED
      BY <1>2, <2>2, <2>3, <2>4, <2>5 DEF CallStep
  <1>3. ASSUME Accept \/ AcceptEnds \/ DropServer \/ DropTransport PROVE EndInv'
    BY <1>1, <1>3 DEF Accept, AcceptEnds, DropServer, DropTransport
  <1>4. ASSUME NEW c \in ConnIds, DropStep(c) PROVE EndInv'
    <2>1. CASE Cut(c)
      <3>1. /\ UNCHANGED <<kind, ended, tx, rx, got, sent>> /\ cut' = cut \cup {c}
        BY <2>1 DEF Cut
      <3>2. \A ch \in ended : chan[ch] = <<>> => chan'[ch] = <<>>
        BY <2>1, CutShrinks DEF EndInv
      <3> QED
        BY <1>0, <3>1, <3>2, EndKept, Zenon DEF EndInv
    <2> QED
      BY <1>1, <1>4, <2>1 DEF DropStep, DropSocket, DropPeer, DropReader, DropWriter
  <1>5. ASSUME NEW ch \in Channels, NEW f, Write(ch, f) \/ Reply(ch) PROVE EndInv'
    <2>1. /\ UNCHANGED <<kind, ended, tx, rx, cut, got>>
          /\ \A x \in Channels : x # ch => chan'[x] = chan[x] /\ sent'[x] = sent[x]
          /\ ch[1] \in cut => chan' = chan
      <3>1. UNCHANGED <<kind, ended, tx, rx, cut, got>> /\ \E g : Put(ch, g)
        BY <1>5, Zenon DEF Write, Reply
      <3> QED
        BY <3>1 DEF Put, Reaches, FrameInv, FrameTypes
    <2>2. ~Silent(ch) \/ ch[1] \in cut
      BY <1>5, NotSilent
    <2>3. \A x \in ended : x \in Channels /\ (x[1] \notin cut => x # ch)
      BY <2>2 DEF EndInv
    <2> QED
      BY <1>0, <2>1, <2>3, EndKept
  <1>6. ASSUME NEW ch \in Channels, Receive(ch) PROVE EndInv'
    <2>1. /\ UNCHANGED <<kind, ended, tx, rx, cut, sent>> /\ chan[ch] # <<>>
          /\ \A x \in Channels : x # ch => chan'[x] = chan[x] /\ got'[x] = got[x]
      BY <1>6 DEF Receive, FrameInv, FrameTypes
    <2>2. \A x \in ended : x \in Channels /\ x # ch
      BY <2>1, Zenon DEF EndInv
    <2> QED
      BY <1>0, <2>1, <2>2, EndKept, Zenon
  <1>7. ASSUME NEW ch \in Channels, SeeEnd(ch) PROVE EndInv'
    <2>1. /\ UNCHANGED <<kind, tx, rx, cut, chan, sent, got, callVars, transportUp>>
          /\ ended' = ended \cup {ch} /\ ch \in rx /\ chan[ch] = <<>>
          /\ ~SenderUp(ch) \/ Finished(ch)
      BY <1>7, Zenon DEF SeeEnd, InHand
    <2>2. ch[1] \notin cut => Silent(ch) /\ Whole(ch)
      <3>1. CASE ~SenderUp(ch)
        BY <2>1, <3>1, Zenon DEF SenderUp, Silent, FrameInv, Complete
      <3>2. CASE Finished(ch)
        <4>1. kind = "Socket" /\ HasClose(sent[ch])
          BY <3>2, CloseWasSent DEF Finished
        <4> QED
          BY <2>1, <4>1, Zenon DEF Silent, FrameInv, Complete
      <3> QED
        BY <2>1, <3>1, <3>2, Zenon
    <2>3. Whole(ch) => Len(got[ch]) = Len(sent[ch])
      BY <2>1, LineNoBacklog DEF Whole, FrameInv, FrameTypes
    <2>4. kind = "Mock" /\ ch = Out(1) => ~Held
      <3>1. SUFFICES ASSUME kind = "Mock", ch = Out(1) PROVE ~Held
        OBVIOUS
      <3>2. cut = {} /\ ch[2] = "out"
        BY <3>1 DEF FrameInv, Complete, Out
      <3> QED
        BY <2>1, <3>1, <3>2 DEF SenderUp, Finished
    <2>5. Held' <=> Held
      BY <2>1 DEF Held
    <2>6. \A x \in Channels : Silent(x)' <=> Silent(x)
      BY <2>1 DEF Silent, HasClose
    <2> QED
      BY <1>0, <2>1, <2>2, <2>3, <2>4, <2>5, <2>6, Zenon DEF EndInv
  <1>8. CASE UNCHANGED vars
    BY <1>1, <1>8 DEF vars
  <1> QED
    BY <1>2, <1>3, <1>4, <1>5, <1>6, <1>7, <1>8 DEF Next

(* The end of a stream, and None from accept_connection, come after all     *)
(* that was accepted for it, for any number of connections, frames, drops   *)
(* and threads.                                                             *)
THEOREM EndsAfterAll == Spec => []EndMeansDrained
  <1>1. EndInv /\ AcceptInv /\ LineInv => EndMeansDrained
    <2> SUFFICES ASSUME EndInv, AcceptInv, LineInv PROVE EndMeansDrained
      OBVIOUS
    <2>1. ASSUME acceptEnded, serverUp, NEW k \in Calls, pc[k] = "Open"
          PROVE  \E i \in 1 .. Len(accepted) : accepted[i] = id[k]
      <3>1. Line(accepted, backlog) = accepted
        BY <2>1, LineNoBacklog DEF AcceptInv, LineInv
      <3> QED
        BY <2>1, <3>1 DEF AcceptInv, InLine
    <2> QED
      BY <2>1 DEF EndInv, EndMeansDrained
  <1> QED
    BY <1>1, ConnInit, ConnStep, FrameInit, FrameStep, OwedInit, OwedStep, LineInit, LineStep, AcceptInit, AcceptStep,
       EndInit, EndStep, PTL DEF Spec

-----------------------------------------------------------------------------
(* Waiting for the end *)

LEMMA ChannelEnds ==
    ASSUME NEW ch \in Channels
    PROVE  /\ ch[1] \in ConnIds /\ ch[2] \in {"out", "in"}
           /\ ch[2] = "out" => ch = Out(ch[1])
           /\ ch[2] = "in" => ch = In(ch[1])
  BY DEF Channels, Out, In

LEMMA EndsDiffer ==
    \A c, d : /\ In(c) # Out(d) /\ Out(d) # In(c)
              /\ (In(c) = In(d) <=> c = d) /\ (Out(c) = Out(d) <=> c = d)
              /\ (In(c) \in Ends(d) <=> c = d) /\ (Out(c) \in Ends(d) <=> c = d)
  BY DEF In, Out, Ends

(* A WsClient is dropped as a whole: its two ends of a socket go together. *)
PairInv == kind = "Socket" => \A c \in ConnIds : In(c) \in tx <=> Out(c) \in rx

LEMMA PairInit == Init => PairInv
  BY DEF Init, PairInv

LEMMA PairStep == PairInv /\ ConnInv /\ [Next]_vars => PairInv'
  <1> SUFFICES ASSUME PairInv, ConnInv, [Next]_vars, kind' = "Socket", NEW c \in ConnIds
               PROVE  (In(c) \in tx <=> Out(c) \in rx)'
    BY DEF PairInv
  <1> DEFINE Pair == (In(c) \in tx <=> Out(c) \in rx)'
  <1> USE DEF callVars, serverVars, endVars
  <1>1. CASE UNCHANGED <<kind, tx, rx>>
    BY <1>1 DEF PairInv
  <1>2. ASSUME NEW k \in Calls, CallStep(k) PROVE Pair
    <2>1. CASE ConnectSocket(k)
      BY <2>1, EndsDiffer, Zenon DEF ConnectSocket, PairInv
    <2>2. ~Announce(k) /\ ~TakeMock(k)
      BY DEF Announce, TakeMock, ConnInv
    <2> QED
      BY <1>1, <1>2, <2>1, <2>2 DEF CallStep, Begin, Abandon, Claim, AnnounceFails, TakeMockFails,
         ConnectSocketFails
  <1>3. ASSUME Accept \/ AcceptEnds \/ DropServer \/ DropTransport PROVE Pair
    BY <1>1, <1>3 DEF Accept, AcceptEnds, DropServer, DropTransport
  <1>4. ASSUME NEW d \in ConnIds, DropStep(d) PROVE Pair
    <2>1. CASE DropPeer(d)
      BY <2>1, EndsDiffer DEF DropPeer, PairInv
    <2>2. CASE DropReader(d)
      BY <2>2, EndsDiffer DEF DropReader, PairInv
    <2>3. CASE DropWriter(d)
      BY <2>3, EndsDiffer DEF DropWriter, PairInv
    <2> QED
      BY <1>1, <1>4, <2>1, <2>2, <2>3 DEF DropStep, DropSocket, Cut
  <1>5. ASSUME NEW ch \in Channels, (\E f : Write(ch, f)) \/ Receive(ch) \/ Reply(ch) \/ SeeEnd(ch) PROVE Pair
    BY <1>1, <1>5 DEF Write, Receive, Reply, SeeEnd
  <1>6. CASE UNCHANGED vars
    BY <1>1, <1>6 DEF vars
  <1> QED
    BY <1>2, <1>3, <1>4, <1>5, <1>6 DEF Next

LEMMA NobodyElse == PairInv => EndIsAhead
  <1> SUFFICES ASSUME PairInv, NEW ch \in Channels, Waits(ch)
               PROVE  InHand(ch) /\ ~SenderUp(ch)
    BY DEF EndIsAhead
  <1>1. CASE ch[2] = "out"
    BY <1>1 DEF Waits, SenderUp
  <1>2. CASE ch[2] = "in"
    <2>1. ch = In(ch[1]) /\ ch[1] \in ConnIds
      BY <1>2, ChannelEnds
    <2>2. kind = "Socket" => Out(ch[1]) \notin rx
      BY <2>1 DEF PairInv, Waits
    <2> QED
      BY <1>2, <2>2 DEF Waits, InHand, SenderUp, Other
  <1> QED
    BY <1>1, <1>2, ChannelEnds

(* A reader whose sender was dropped waits for nobody: drop_socket and the  *)
(* end of a peer are all it takes, whatever else lives on.                  *)
THEOREM NothingHoldsTheEnd == Spec => []EndIsAhead
  BY NobodyElse, ConnInit, ConnStep, PairInit, PairStep, PTL DEF Spec

(* A step keeps a reader waiting that does not bring its sender back, add   *)
(* to its channel, or take an accepted connection from the server.          *)
LEMMA StillWaits ==
    ASSUME NEW ch \in Channels, Waits(ch), UNCHANGED kind, ch \in rx', ch \notin ended',
           ch \notin tx', PeerHeld(ch[1]) => PeerHeld(ch[1])'
    PROVE  Waits(ch)'
  BY DEF Waits, InHand

LEMMA AcceptedStays ==
    ASSUME LineInv, ConnInv, [Next]_vars, NEW c, PeerHeld(c)
    PROVE  PeerHeld(c)'
  <1> USE DEF callVars, serverVars, endVars
  <1>1. ASSUME NEW d \in Nat, accepted' = Append(accepted, d), kind' = kind PROVE PeerHeld(c)'
    <2>1. accepted \in Seq(Nat)
      BY DEF LineInv
    <2>2. /\ Len(accepted) \in Nat /\ Len(accepted') = Len(accepted) + 1
          /\ \A i \in 1 .. Len(accepted) : accepted'[i] = accepted[i]
      BY ONLY <2>1, accepted' = Append(accepted, d), d \in Nat
    <2>3. ASSUME NEW i \in 1 .. Len(accepted) PROVE i \in 1 .. Len(accepted')
      BY ONLY <2>2, i \in 1 .. Len(accepted)
    <2> QED
      BY <1>1, <2>2, <2>3, Zenon DEF PeerHeld
  <1>2. CASE UNCHANGED <<kind, accepted>>
    BY <1>2 DEF PeerHeld
  <1>3. CASE Accept
    <2>1. Head(backlog) \in Nat
      BY <1>3 DEF Accept, LineInv
    <2> QED
      BY <1>1, <1>3, <2>1 DEF Accept
  <1>4. ASSUME NEW k \in Calls, CallStep(k) PROVE PeerHeld(c)'
    <2>1. CASE ConnectSocket(k)
      BY <1>1, <2>1 DEF ConnectSocket, ConnInv
    <2> QED
      BY <1>2, <1>4, <2>1 DEF CallStep, Begin, Abandon, Claim, Announce, AnnounceFails, TakeMock,
         TakeMockFails, ConnectSocketFails
  <1>5. CASE AcceptEnds \/ DropServer \/ DropTransport \/ UNCHANGED vars
    BY <1>2, <1>5 DEF AcceptEnds, DropServer, DropTransport, vars
  <1>6. ASSUME NEW d \in ConnIds, DropStep(d) PROVE PeerHeld(c)'
    BY <1>2, <1>6 DEF DropStep, DropSocket, DropPeer, DropReader, DropWriter, Cut
  <1>7. ASSUME NEW ch \in Channels, (\E f : Write(ch, f)) \/ Receive(ch) \/ Reply(ch) \/ SeeEnd(ch)
        PROVE  PeerHeld(c)'
    BY <1>2, <1>7 DEF Write, Receive, Reply, SeeEnd
  <1> QED
    BY <1>3, <1>4, <1>5, <1>6, <1>7 DEF Next

(* No step makes a channel longer that has no sender. *)
LEMMA CutShortens ==
    ASSUME NEW q \in Seq(WsFrame), NEW n \in 0 .. Len(q)
    PROVE  Len(SubSeq(q, 1, n)) =< Len(q)
  OBVIOUS

LEMMA CutDrains ==
    ASSUME FrameInv, NEW c \in ConnIds, Cut(c), NEW ch \in Channels
    PROVE  Len(chan'[ch]) =< Len(chan[ch])
  <1>1. Out(c) \in Channels /\ In(c) \in Channels /\ Out(c) # In(c)
    BY DEF Out, In, Channels
  <1>2. PICK n \in 0 .. Len(chan[Out(c)]), m \in 0 .. Len(chan[In(c)]) :
           chan' = [chan EXCEPT ![Out(c)] = SubSeq(chan[Out(c)], 1, n),
                                ![In(c)] = SubSeq(chan[In(c)], 1, m)]
    BY <1>1, Zenon DEF Cut, FrameInv, FrameTypes
  <1>3. chan \in [Channels -> Seq(WsFrame)] /\ chan[ch] \in Seq(WsFrame)
    BY DEF FrameInv, FrameTypes
  <1>4. CASE ch = Out(c)
    <2>1. chan'[ch] = SubSeq(chan[ch], 1, n) /\ n \in 0 .. Len(chan[ch])
      BY <1>1, <1>2, <1>3, <1>4
    <2> QED
      BY <1>3, <2>1, CutShortens
  <1>5. CASE ch = In(c)
    <2>1. chan'[ch] = SubSeq(chan[ch], 1, m) /\ m \in 0 .. Len(chan[ch])
      BY <1>1, <1>2, <1>3, <1>5
    <2> QED
      BY <1>3, <2>1, CutShortens
  <1>6. CASE ch # Out(c) /\ ch # In(c)
    BY <1>1, <1>2, <1>3, <1>6
  <1> QED
    BY <1>4, <1>5, <1>6

(* A dropped sender does not come back, and what a waiting reader has       *)
(* before the end only gets less, for any number of connections, frames,    *)
(* drops and threads.                                                       *)
THEOREM WaitingOnlyDrains == Spec => WaitOnlyDrains
  <1>1. ASSUME EndInv, FrameInv, PairInv, LineInv, ConnInv, [Next]_vars, NEW ch \in Channels, Waits(ch),
               ch \in rx', ch \notin ended'
        PROVE  Waits(ch)' /\ Len(chan'[ch]) =< Len(chan[ch])
    <2>1. /\ ch \in rx /\ ch \notin tx /\ chan \in [Channels -> Seq(WsFrame)]
          /\ Len(chan[ch]) \in Nat
      BY <1>1 DEF Waits, FrameInv, FrameTypes
    <2>2. PeerHeld(ch[1]) => PeerHeld(ch[1])'
      BY <1>1, AcceptedStays
    <2>3. CASE UNCHANGED <<kind, chan>> /\ ch \notin tx'
      <3>1. Waits(ch)'
        BY <1>1, <2>2, <2>3, StillWaits, Zenon
      <3> QED
        BY <2>1, <2>3, <3>1
    <2> USE DEF callVars, serverVars, endVars, frameVars
    <2>4. ASSUME NEW k \in Calls, CallStep(k)
          PROVE  UNCHANGED <<kind, chan>> /\ ch \notin tx'
      <3>1. ASSUME NEW c, kind # "Mock", c \notin Opened, tx' = tx \cup Ends(c)
            PROVE  ch \notin tx'
        <4>1. \A e \in Ends(c) : e[1] = c
          BY DEF Ends, Out, In
        <4> QED
          BY <1>1, <2>1, <3>1, <4>1, Zenon DEF EndInv
      <3>2. CASE Announce(k)
        BY <1>1, <3>1, <3>2, OpenedNumbers DEF Announce, ConnInv
      <3>3. CASE ConnectSocket(k)
        BY <1>1, <3>1, <3>3, OpenedNumbers DEF ConnectSocket
      <3>4. CASE TakeMock(k)
        <4>1. ch # Out(1)
          <5>1. kind # "Reconnectable" /\ Out(1)[2] = "out"
            BY <3>4 DEF TakeMock, Out
          <5> QED
            BY <1>1, <5>1 DEF Waits
        <4> QED
          BY <2>1, <3>4, <4>1 DEF TakeMock
      <3> QED
        BY <2>1, <2>4, <3>2, <3>3, <3>4 DEF CallStep, Begin, Abandon, Claim, AnnounceFails,
           TakeMockFails, ConnectSocketFails
    <2>5. CASE Accept \/ AcceptEnds \/ DropServer \/ DropTransport \/ UNCHANGED vars
      BY <2>1, <2>3, <2>5 DEF Accept, AcceptEnds, DropServer, DropTransport, vars
    <2>6. ASSUME NEW c \in ConnIds, DropStep(c)
          PROVE  Waits(ch)' /\ Len(chan'[ch]) =< Len(chan[ch])
      <3>1. CASE Cut(c)
        <4>1. tx' = tx /\ kind' = kind
          BY <3>1 DEF Cut
        <4>2. Waits(ch)'
          BY <1>1, <2>1, <2>2, <4>1, StillWaits, Zenon
        <4> QED
          BY <1>1, <3>1, <4>2, CutDrains
      <3> QED
        BY <2>1, <2>3, <2>6, <3>1 DEF DropStep, DropSocket, DropPeer, DropReader, DropWriter
    <2>7. ASSUME NEW e \in Channels, (\E f : Write(e, f)) \/ Reply(e)
          PROVE  Waits(ch)' /\ Len(chan'[ch]) =< Len(chan[ch])
      <3>1. e # ch /\ tx' = tx /\ kind' = kind
        <4>1. ~SenderUp(ch)
          BY <1>1, NobodyElse DEF EndIsAhead
        <4>2. ASSUME NEW f, Write(e, f) PROVE e # ch /\ tx' = tx /\ kind' = kind
          BY <2>1, <4>2 DEF Write, Accepts
        <4>3. ASSUME Reply(e) PROVE e # ch /\ tx' = tx /\ kind' = kind
          BY <4>1, <4>3 DEF Reply
        <4> QED
          BY <2>7, <4>2, <4>3
      <3>2. chan'[ch] = chan[ch]
        <4>1. \E f : Put(e, f)
          BY <2>7, Zenon DEF Write, Reply
        <4> QED
          BY <2>1, <3>1, <4>1 DEF Put
      <3>3. Waits(ch)'
        BY <1>1, <2>1, <2>2, <3>1, StillWaits, Zenon
      <3>4. Len(chan'[ch]) =< Len(chan[ch])
        BY <2>1, <3>2
      <3> QED
        BY <3>3, <3>4
    <2>8. ASSUME NEW e \in Channels, Receive(e)
          PROVE  Waits(ch)' /\ Len(chan'[ch]) =< Len(chan[ch])
      <3>1. chan'[ch] = chan[ch] \/ (chan'[ch] = Tail(chan[ch]) /\ chan[ch] # <<>>)
        BY <2>1, <2>8 DEF Receive
      <3>2. Len(chan'[ch]) =< Len(chan[ch])
        BY <2>1, <3>1
      <3>3. tx' = tx /\ kind' = kind
        BY <2>8 DEF Receive
      <3>4. Waits(ch)'
        BY <1>1, <2>1, <2>2, <3>3, StillWaits, Zenon
      <3> QED
        BY <3>2, <3>4
    <2>9. ASSUME NEW e \in Channels, SeeEnd(e)
          PROVE  Waits(ch)' /\ Len(chan'[ch]) =< Len(chan[ch])
      BY <2>1, <2>3, <2>9 DEF SeeEnd
    <2> QED
      BY <1>1, <2>3, <2>4, <2>5, <2>6, <2>7, <2>8, <2>9 DEF Next
  <1>2. EndInv /\ FrameInv /\ PairInv /\ LineInv /\ ConnInv /\ [Next]_vars =>
          \A ch \in Channels :
             Waits(ch) =>
               \/ ch \notin rx' \/ ch \in ended'
               \/ Waits(ch)' /\ Len(chan'[ch]) =< Len(chan[ch])
    BY <1>1, Zenon
  <1> QED
    BY <1>2, ConnInit, ConnStep, FrameInit, FrameStep, OwedInit, OwedStep, LineInit, LineStep,
       EndInit, EndStep, PairInit, PairStep, PTL DEF Spec, WaitOnlyDrains

-----------------------------------------------------------------------------
(* Types *)

(* All but the frames; a call that has its identifier has one in bounds. *)
CallTypes ==
    /\ kind \in Kinds /\ connSeq \in 0 .. MaxConnects
    /\ pc \in [Calls -> {"Idle", "Started", "Claimed", "Open", "Failed"}]
    /\ id \in [Calls -> 0 .. MaxConnects] /\ before \in [ConnIds -> SUBSET ConnIds]
    /\ \A k \in Calls : pc[k] \in Numbered => id[k] \in ConnIds

ServerTypes ==
    /\ slot \in BOOLEAN /\ transportUp \in BOOLEAN /\ serverUp \in BOOLEAN
    /\ acceptEnded \in BOOLEAN
    /\ backlog \in Seq(ConnIds) /\ accepted \in Seq(ConnIds)

EndTypes ==
    /\ tx \subseteq Channels /\ rx \subseteq Channels /\ ended \subseteq Channels
    /\ cut \subseteq ConnIds /\ frames \in 0 .. MaxFrames /\ drops \in 0 .. MaxDrops

HandleTypes == CallTypes /\ ServerTypes /\ EndTypes

LEMMA TypeInit == Init => HandleTypes
  <1> SUFFICES ASSUME Init PROVE HandleTypes
    OBVIOUS
  <1>1. 1 \in ConnIds /\ {0, MaxConnects, MaxFrames, MaxDrops} \subseteq Nat
    BY TransportAssumption DEF ConnIds
  <1>2. In(1) \in Channels /\ Out(1) \in Channels
    BY <1>1 DEF In, Out, Channels
  <1>3. EndTypes
    BY <1>1, <1>2 DEF Init, EndTypes
  <1>4. slot \in BOOLEAN /\ serverUp \in BOOLEAN /\ transportUp \in BOOLEAN /\ acceptEnded \in BOOLEAN
    BY Zenon DEF Init
  <1>5. ServerTypes
    BY <1>4 DEF Init, ServerTypes
  <1>6. CallTypes
    BY <1>1 DEF Init, CallTypes, Numbered
  <1> QED
    BY <1>3, <1>5, <1>6 DEF HandleTypes

LEMMA CallKeepsTypes ==
    ASSUME HandleTypes, NEW k \in Calls, CallStep(k)
    PROVE  HandleTypes'
  <1>1. 1 \in ConnIds /\ 1 \in 0 .. MaxConnects
    BY TransportAssumption DEF ConnIds
  <1>2. \A c \in ConnIds : Ends(c) \subseteq Channels /\ Out(c) \in Channels /\ In(c) \in Channels
    BY DEF Ends, Out, In, Channels
  <1>3. connSeq < MaxConnects => connSeq + 1 \in ConnIds /\ connSeq + 1 \in 0 .. MaxConnects
    BY TransportAssumption DEF HandleTypes, CallTypes, ConnIds
  <1>4. Opened \subseteq ConnIds
    BY DEF HandleTypes, CallTypes, Opened, Numbered
  <1>5. CallTypes /\ ServerTypes /\ EndTypes
    BY DEF HandleTypes
  <1> USE DEF callVars, serverVars, endVars, frameVars
  <1>6. CASE Claim(k)
    <2>1. CallTypes'
      BY <1>3, <1>4, <1>5, <1>6 DEF Claim, Number, CallTypes, Numbered
    <2>2. ServerTypes' /\ EndTypes'
      BY <1>5, <1>6 DEF Claim, ServerTypes, EndTypes
    <2> QED
      BY <2>1, <2>2 DEF HandleTypes
  <1>7. CASE Announce(k)
    <2>1. id[k] \in ConnIds
      BY <1>5, <1>7 DEF Announce, CallTypes, Numbered
    <2>2. CallTypes'
      BY <1>5, <1>7, <2>1 DEF Announce, CallTypes, Numbered
    <2>3. ServerTypes'
      BY <1>5, <1>7, <2>1 DEF Announce, ServerTypes
    <2>4. EndTypes'
      BY <1>2, <1>5, <1>7, <2>1 DEF Announce, EndTypes
    <2> QED
      BY <2>2, <2>3, <2>4 DEF HandleTypes
  <1>8. CASE TakeMock(k)
    <2>1. CallTypes'
      BY <1>1, <1>5, <1>8 DEF TakeMock, CallTypes, Numbered
    <2>2. ServerTypes'
      BY <1>5, <1>8, Zenon DEF TakeMock, ServerTypes
    <2>3. EndTypes'
      BY <1>1, <1>2, <1>5, <1>8 DEF TakeMock, EndTypes
    <2> QED
      BY <2>1, <2>2, <2>3 DEF HandleTypes
  <1>9. CASE ConnectSocket(k)
    <2>1. connSeq + 1 \in ConnIds
      BY <1>3, <1>9 DEF ConnectSocket, Number
    <2>2. CallTypes'
      BY <1>3, <1>4, <1>5, <1>9 DEF ConnectSocket, Number, CallTypes, Numbered
    <2>3. ServerTypes'
      BY <1>5, <1>9, <2>1 DEF ConnectSocket, ServerTypes
    <2>4. EndTypes'
      BY <1>2, <1>5, <1>9, <2>1 DEF ConnectSocket, EndTypes
    <2> QED
      BY <2>2, <2>3, <2>4 DEF HandleTypes
  <1>10. CASE Begin(k) \/ Abandon(k) \/ AnnounceFails(k) \/ TakeMockFails(k) \/ ConnectSocketFails(k)
    <2>1. /\ UNCHANGED <<kind, transportUp, connSeq, id, before, serverVars, endVars, frameVars>>
          /\ pc' = [pc EXCEPT ![k] = "Started"] \/ pc' = [pc EXCEPT ![k] = "Failed"]
      BY <1>10 DEF Begin, Abandon, AnnounceFails, TakeMockFails, ConnectSocketFails
    <2>2. CallTypes'
      BY <1>5, <2>1 DEF CallTypes, Numbered
    <2>3. ServerTypes' /\ EndTypes'
      BY <1>5, <2>1 DEF ServerTypes, EndTypes
    <2> QED
      BY <2>2, <2>3 DEF HandleTypes
  <1> QED
    BY <1>6, <1>7, <1>8, <1>9, <1>10 DEF CallStep

LEMMA TypeStep == HandleTypes /\ [Next]_vars => HandleTypes'
  <1> SUFFICES ASSUME HandleTypes, [Next]_vars PROVE HandleTypes'
    OBVIOUS
  <1>1. MaxFrames \in Nat /\ MaxDrops \in Nat
    BY TransportAssumption
  <1>2. CallTypes /\ ServerTypes /\ EndTypes
    BY DEF HandleTypes
  <1>3. UNCHANGED <<kind, callVars>> => CallTypes'
    BY <1>2 DEF CallTypes, callVars
  <1>4. UNCHANGED <<transportUp, serverVars>> => ServerTypes'
    BY <1>2 DEF ServerTypes, serverVars
  <1> USE DEF serverVars, endVars, frameVars
  <1>5. UNCHANGED <<endVars, frames, ended>> => EndTypes'
    BY <1>2 DEF EndTypes
  <1>6. Dropped => drops' \in 0 .. MaxDrops
    BY <1>1, <1>2 DEF Dropped, EndTypes
  <1>7. ASSUME Accept PROVE HandleTypes'
    <2>1. Head(backlog) \in ConnIds /\ Tail(backlog) \in Seq(ConnIds)
      BY <1>2, <1>7 DEF Accept, ServerTypes
    <2>2. ServerTypes'
      BY <1>2, <1>7, <2>1 DEF Accept, ServerTypes
    <2> QED
      BY <1>3, <1>5, <1>7, <2>2 DEF Accept, HandleTypes
  <1>8. ASSUME AcceptEnds PROVE HandleTypes'
    <2>1. ServerTypes'
      BY <1>2, <1>8 DEF AcceptEnds, ServerTypes
    <2> QED
      BY <1>3, <1>5, <1>8, <2>1 DEF AcceptEnds, HandleTypes
  <1>9. ASSUME DropServer PROVE HandleTypes'
    <2>1. ServerTypes'
      <3>1. /\ backlog' = <<>> /\ serverUp' = FALSE
            /\ UNCHANGED <<transportUp, slot, accepted, acceptEnded>>
        BY <1>9 DEF DropServer
      <3>2. backlog' \in Seq(ConnIds)
        BY <3>1
      <3> QED
        BY <1>2, <3>1, <3>2, Zenon DEF ServerTypes
    <2>2. EndTypes'
      BY <1>2, <1>6, <1>9 DEF DropServer, EndTypes
    <2> QED
      BY <1>3, <1>9, <2>1, <2>2 DEF DropServer, HandleTypes
  <1>10. ASSUME DropTransport PROVE HandleTypes'
    <2>1. ServerTypes' /\ EndTypes'
      BY <1>2, <1>6, <1>10, Zenon DEF DropTransport, ServerTypes, EndTypes
    <2> QED
      BY <1>3, <1>10, <2>1 DEF DropTransport, HandleTypes
  <1>11. ASSUME NEW c \in ConnIds, DropStep(c) PROVE HandleTypes'
    <2>1. /\ UNCHANGED <<kind, transportUp, callVars, serverVars, frames, ended>> /\ Dropped
          /\ tx' \subseteq tx /\ rx' \subseteq rx /\ cut' \subseteq cut \cup {c}
      BY <1>11 DEF DropStep, DropSocket, DropPeer, DropReader, DropWriter, Cut
    <2>2. EndTypes'
      BY <1>2, <1>6, <2>1 DEF EndTypes
    <2> QED
      BY <1>3, <1>4, <2>1, <2>2 DEF HandleTypes
  <1>12. ASSUME NEW ch \in Channels, NEW f, Write(ch, f) PROVE HandleTypes'
    <2>1. EndTypes'
      BY <1>1, <1>2, <1>12 DEF Write, EndTypes
    <2> QED
      BY <1>3, <1>4, <1>12, <2>1 DEF Write, HandleTypes
  <1>13. ASSUME NEW ch \in Channels, Receive(ch) \/ Reply(ch) \/ SeeEnd(ch) PROVE HandleTypes'
    <2>1. EndTypes'
      BY <1>2, <1>13 DEF Receive, Reply, SeeEnd, EndTypes
    <2> QED
      BY <1>3, <1>4, <1>13, <2>1 DEF Receive, Reply, SeeEnd, HandleTypes
  <1>14. CASE UNCHANGED vars
    BY <1>3, <1>4, <1>5, <1>14 DEF vars, HandleTypes
  <1> QED
    BY <1>7, <1>8, <1>9, <1>10, <1>11, <1>12, <1>13, <1>14, CallKeepsTypes DEF Next

(* Every variable of the transports keeps its type.  In particular no Text  *)
(* frame that is written, carried or handed out holds bytes that are not    *)
(* UTF-8, whatever callers pass to into_ws_frame.                           *)
THEOREM TransportTypeCorrect == Spec => []TransportTypeOK
  <1>1. HandleTypes /\ FrameInv => TransportTypeOK
    BY DEF HandleTypes, CallTypes, ServerTypes, EndTypes, FrameInv, FrameTypes, TransportTypeOK
  <1> QED
    BY <1>1, TypeInit, TypeStep, ConnInit, ConnStep, FrameInit, FrameStep, OwedInit, OwedStep, PTL DEF Spec

-----------------------------------------------------------------------------
(* Streams *)

LEMMA SameArrives ==
    ASSUME NEW f \in WsFrame, NEW g \in WsFrame, Same(g, f)
    PROVE  Streams!Arrives(f, g)
  BY DEF Same, WsFrame, Streams!Arrives

LEMMA NextOfLine ==
    ASSUME NEW S, NEW g \in Seq(S), NEW c \in Seq(S), c # <<>>
    PROVE  /\ Head(c) \in S /\ Len(g) \in Nat /\ Len(g) + 1 \in 1 .. Len(Line(g, c))
           /\ Line(g, c)[Len(g) + 1] = Head(c)
  BY DEF Line

(* Every step of a transport is a step of the streams, or none. *)
LEMMA StreamStep ==
    ASSUME FrameInv, OwedInv, EndInv, [Next]_vars
    PROVE  [Streams!StreamsNext]_(Streams!streamVars)
  <1> USE DEF callVars, serverVars, endVars, frameVars
  <1>1. CASE UNCHANGED <<kind, cut, sent, got, ended>>
    BY <1>1 DEF Streams!streamVars
  <1>2. ASSUME NEW k \in Calls, CallStep(k) PROVE UNCHANGED <<kind, cut, sent, got, ended>>
    BY <1>2, Zenon DEF CallStep, Begin, Abandon, Claim, Announce, AnnounceFails, TakeMock, TakeMockFails,
                ConnectSocket, ConnectSocketFails
  <1>3. ASSUME Accept \/ AcceptEnds \/ DropServer \/ DropTransport
        PROVE  UNCHANGED <<kind, cut, sent, got, ended>>
    BY <1>3 DEF Accept, AcceptEnds, DropServer, DropTransport
  <1>4. ASSUME NEW c \in ConnIds, DropStep(c) PROVE [Streams!StreamsNext]_(Streams!streamVars)
    <2>1. CASE Cut(c)
      <3>1. UNCHANGED <<kind, sent, got, ended>> /\ cut' = cut \cup {c}
        BY <2>1 DEF Cut
      <3>2. Streams!Break
        BY <3>1 DEF Streams!Break
      <3> QED
        BY <3>2 DEF Streams!StreamsNext
    <2> QED
      BY <1>1, <1>4, <2>1 DEF DropStep, DropSocket, DropPeer, DropReader, DropWriter
  <1>5. ASSUME NEW ch \in Channels, NEW f \in Frames \cup {IntoWsFrame(p) : p \in Raw}, Write(ch, f)
        PROVE  Streams!Put(ch)
    <2>1. f \in WsFrame
      BY Written, TransportAssumption
    <2>2. /\ UNCHANGED <<kind, cut, got, ended>> /\ (kind = "Socket" => Active(ch))
          /\ sent' = [sent EXCEPT ![ch] = Append(@, f)]
      BY <1>5 DEF Write, Put, Accepts
    <2>3. ch \in ended => ch[1] \in cut
      BY <1>5, NotSilent DEF EndInv
    <2>4. Streams!Add(ch, f)
      BY <2>2, <2>3, Zenon DEF Streams!Add, Streams!HasClose, Active, HasClose
    <2>5. kind = "Socket" => ~Streams!HasClose(got[Other(ch)])
      BY <2>2 DEF Streams!HasClose, Active, HasClose
    <2> QED
      BY <2>1, <2>4, <2>5, Zenon DEF Streams!Put
  <1>6. ASSUME NEW ch \in Channels, Receive(ch) PROVE Streams!Take(ch)
    <2>1. /\ UNCHANGED <<kind, cut, sent, ended>> /\ chan[ch] # <<>>
          /\ got' = [got EXCEPT ![ch] = Append(@, Head(chan[ch]))]
      BY <1>6 DEF Receive
    <2>2. ch \notin ended
      BY <2>1, Zenon DEF EndInv
    <2>3. /\ chan[ch] \in Seq(WsFrame) /\ got[ch] \in Seq(WsFrame) /\ sent[ch] \in Seq(WsFrame)
          /\ Fits(got[ch], chan[ch], sent[ch])
      BY DEF FrameInv, FrameTypes
    <2>4. /\ Head(chan[ch]) \in WsFrame /\ Len(got[ch]) \in Nat
          /\ Len(got[ch]) + 1 \in 1 .. Len(Line(got[ch], chan[ch]))
          /\ Line(got[ch], chan[ch])[Len(got[ch]) + 1] = Head(chan[ch])
      BY <2>1, <2>3, NextOfLine
    <2>5. /\ Len(got[ch]) + 1 \in 1 .. Len(sent[ch]) /\ sent[ch][Len(got[ch]) + 1] \in WsFrame
          /\ Same(Head(chan[ch]), sent[ch][Len(got[ch]) + 1])
      BY <2>3, <2>4, FitsAt, Zenon
    <2>6. Streams!Arrives(sent[ch][Len(got[ch]) + 1], Head(chan[ch]))
      BY <2>4, <2>5, SameArrives, Zenon
    <2> QED
      <3>1. Len(sent[ch]) \in Nat
        <4>1. sent[ch] \in Seq(WsFrame)
          BY <2>3
        <4> QED
          BY ONLY <4>1
      <3>2. Len(got[ch]) < Len(sent[ch])
        <4>1. Len(got[ch]) \in Nat /\ Len(got[ch]) + 1 \in 1 .. Len(sent[ch])
          BY <2>4, <2>5, Zenon
        <4> QED
          BY ONLY <3>1, <4>1
      <3> QED
        BY <2>1, <2>2, <2>4, <2>6, <3>2, Zenon DEF Streams!Take
  <1>7. ASSUME NEW ch \in Channels, SeeEnd(ch) PROVE Streams!End(ch)
    <2>1. /\ UNCHANGED <<kind, cut, chan, sent, got>> /\ ended' = ended \cup {ch}
          /\ ch \notin ended /\ ch \in rx /\ chan[ch] = <<>>
      BY <1>7 DEF SeeEnd, InHand
    <2>2. ch[1] \notin cut => Whole(ch)
      BY <2>1, Zenon DEF FrameInv, Complete
    <2>3. Whole(ch) => Len(got[ch]) = Len(sent[ch])
      BY <2>1, LineNoBacklog DEF Whole, FrameInv, FrameTypes
    <2> QED
      BY <2>1, <2>2, <2>3, Zenon DEF Streams!End
  <1>8. ASSUME NEW ch \in Channels, Reply(ch) PROVE Streams!Answer(ch)
    <2>1. PICK f \in owed[ch] : Put(ch, f)
      BY <1>8 DEF Reply
    <2>2. /\ UNCHANGED <<kind, cut, got, ended>>
          /\ sent' = [sent EXCEPT ![ch] = Append(@, f)]
      BY <1>8, <2>1, Zenon DEF Reply, Put
    <2>3. kind = "Socket" /\ ~HasClose(sent[ch])
      BY <2>1 DEF OwedInv
    <2>4. PICK i \in 1 .. Len(got[Other(ch)]) :
             got[Other(ch)][i].type \in {"Ping", "Close"} /\ f = AnswerTo(got[Other(ch)][i])
      BY <2>1 DEF OwedInv
    <2>5. ch \in ended => ch[1] \in cut
      BY <1>8, NotSilent DEF EndInv
    <2>6. Streams!Add(ch, f)
      BY <2>2, <2>3, <2>5 DEF Streams!Add, Streams!HasClose, HasClose
    <2>7. got[Other(ch)][i] \in WsFrame
      <3>1. Other(ch) \in Channels
        BY DEF Other, Out, In, Channels
      <3>2. got[Other(ch)] \in Seq(WsFrame)
        BY <3>1 DEF FrameInv, FrameTypes
      <3> QED
        BY ONLY <3>2, i \in 1 .. Len(got[Other(ch)])
    <2> DEFINE g == got[Other(ch)][i]
    <2>8. \/ g.type = "Ping" /\ f = [g EXCEPT !.type = "Pong"]
          \/ g.type = "Close" /\ f = g
      BY <2>4, <2>7 DEF AnswerTo, WsFrame
    <2> QED
      BY <2>3, <2>4, <2>6, <2>8, Zenon DEF Streams!Answer
  <1>9. CASE UNCHANGED vars
    BY <1>1, <1>9 DEF vars
  <1> QED
    BY <1>1, <1>2, <1>3, <1>4, <1>5, <1>6, <1>7, <1>8, <1>9 DEF Next, Streams!StreamsNext

(* The three transports implement the streams of FrameStreams: for any      *)
(* number of connections, frames, drops and cuts, and any interleaving of   *)
(* the calls, a user of connect or of a peer handle cannot tell them from   *)
(* streams.                                                                 *)
THEOREM TransportsImplementStreams == Spec => ImplementsStreams
  <1>1. Init => Streams!StreamsInit
    BY DEF Init, Streams!StreamsInit
  <1>2. FrameInv /\ OwedInv /\ EndInv /\ [Next]_vars => [Streams!StreamsNext]_(Streams!streamVars)
    BY StreamStep
  <1> QED
    BY <1>1, <1>2, ConnInit, ConnStep, FrameInit, FrameStep, OwedInit, OwedStep, EndInit, EndStep, PTL
       DEF Spec, ImplementsStreams, Streams!StreamsSpec
================================================================================
