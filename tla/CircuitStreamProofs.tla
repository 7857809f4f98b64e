------------------------- MODULE CircuitStreamProofs --------------------------
(***************************************************************************)
(* Delivery in order, no silent loss, the numbering and the window of a    *)
(* circuit, for any window sizes, any even sequence space, any losses and  *)
(* any timing, while the hosts open one circuit (OneStream).               *)
(*                                                                         *)
(* First the two ends between handlers: the opener and the end the peer's  *)
(* manager minted for its Connect Request stay joined (Joined) by each     *)
(* handler of either.  Where applications hang up only on open circuits    *)
(* (HangsUpOpen) they also part in agreement (Parted).                     *)
(*                                                                         *)
(* Then the managers: every step of CircuitManager is                      *)
(* such a handler, a loss, an answer of a manager without a circuit, or    *)
(* the minting of a new peer when the one before has closed without data   *)
(* (StreamInv).                                                            *)
(*                                                                         *)
(* OneStream is what the argument needs.  With a second circuit on a       *)
(* reused key CircuitMisrouted shows InOrderDelivery violated; reordering  *)
(* is left to the model checker (CircuitDuplex).                           *)
(***************************************************************************)
EXTENDS CircuitManagerProofs, NetRomStreamProofs

-----------------------------------------------------------------------------
(* The two ends between handlers *)

\* An end that has not sent or received any data.
Virgin(c) == /\ c.state \in {"Disconnected", "Connecting"}
             /\ c.sent = <<>> /\ c.got = <<>> /\ c.reassembly = <<>>
             /\ c.vs = 0 /\ c.va = 0 /\ c.vr = 0

NoData(q)     == \A k \in DOMAIN q : ~IsAck(q[k]) /\ ~IsAccept(q[k])
HasRequest(q) == \E k \in DOMAIN q : q[k].op = "ConnectRequest"

\* The peer has not answered yet, or has closed and a Connect Request may still
\* mint another one.
Apart(c, d, to) ==
    /\ d.state = "Disconnected"
    /\ d.reason = "None" \/ c.state = "Connecting" \/ HasRequest(to)

Clean(c, to, from) == Virgin(c) /\ NoData(to) /\ NoData(from)

\* The window the peer agreed to is within both proposals, and the opener's
\* own once it knows of it.
Agreed(c, d) ==
    /\ c.state = "Connecting" => c.window = c.windowSize
    /\ c.windowSize >= 1 /\ d.windowSize >= 1 /\ Open(d) =>
          /\ d.window <= c.windowSize /\ d.window <= d.windowSize
          /\ Open(c) => c.window = d.window

\* c opened the circuit and d is the end minted for its Connect Request.
Roles(c, d) ==
    /\ c \in Sound /\ c.mintedFor = 0 /\ c.out = <<>>
    /\ d \in Sound /\ d.mintedFor # 0 /\ d.out = <<>> /\ d.state # "Connecting"
    /\ d.peerKey[2] = c.localKey

Joined(c, d, to, from) ==
    /\ Roles(c, d) /\ Pair(c, d, to, from)
    /\ c.state = "Connecting" => Virgin(c)
    /\ Apart(c, d, to) => Clean(c, to, from)
    /\ Agreed(c, d)

\* What is left of a queue without data has none, and no new request.
LEMMA LeftData ==
    ASSUME NEW q \in Seq(Packet), NEW p \in Seq(Packet), LeftOf(p, q)
    PROVE  /\ NoData(q) => NoData(p)
           /\ HasRequest(p) => HasRequest(q)
<1>1. PICK n \in Nat : \A k \in DOMAIN p : k + n \in DOMAIN q /\ p[k] = q[k + n]
  BY LeftOrder
<1> QED  BY <1>1 DEF NoData, HasRequest

\* Nor has a queue to which none is added.
LEMMA CatData ==
    ASSUME NEW a \in Seq(Packet), NEW b \in Seq(Packet)
    PROVE  /\ NoData(a) /\ NoData(b) => NoData(a \o b)
           /\ HasRequest(a \o b) => HasRequest(a) \/ HasRequest(b)
<1>1. \A k \in DOMAIN (a \o b) :
         \/ \E i \in DOMAIN a : (a \o b)[k] = a[i]
         \/ \E i \in DOMAIN b : (a \o b)[k] = b[i]
  BY CatAt
<1> HIDE DEF NoData, HasRequest
<1>2. NoData(a) /\ NoData(b) => NoData(a \o b)  BY <1>1 DEF NoData
<1>3. HasRequest(a \o b) => HasRequest(a) \/ HasRequest(b)  BY <1>1 DEF HasRequest
<1> QED  BY <1>2, <1>3

\* Between handlers an end differs only in what it has to send.
LEMMA RestFields ==
    ASSUME NEW e \in Sound
    PROVE  /\ AtRest(e) \in Sound /\ AtRest(e).out = <<>> /\ SameIdentity(e, AtRest(e))
           /\ AtRest(e).state = e.state /\ AtRest(e).reason = e.reason
           /\ AtRest(e).window = e.window /\ AtRest(e).windowSize = e.windowSize
           /\ AtRest(e).got = e.got
           /\ Virgin(e) => Virgin(AtRest(e))
           /\ e.out = <<>> => AtRest(e) = e
<1>1. e \in Circuit  BY DEF Sound
<1>2. AtRest(e) \in DataSteps(e)  BY AtRestType
<1>3. AtRest(e) \in Sound /\ SameIdentity(e, AtRest(e))  BY <1>2 DEF DataSteps, SameState, Evolutions
<1>4. /\ AtRest(e).out = <<>> /\ AtRest(e).state = e.state /\ AtRest(e).reason = e.reason
      /\ AtRest(e).window = e.window /\ AtRest(e).windowSize = e.windowSize
      /\ AtRest(e).got = e.got
      /\ Virgin(e) => Virgin(AtRest(e))
      /\ e.out = <<>> => AtRest(e) = e
  BY <1>1 DEF AtRest, Circuit, Virgin
<1> QED  BY <1>3, <1>4

\* The opener ran a handler, and some packets were taken or lost.
LEMMA JoinedOpener ==
    ASSUME NEW c, NEW d, NEW to \in Seq(Packet), NEW from \in Seq(Packet), Joined(c, d, to, from),
           NEW e \in Evolutions(c), Pair(e, d, to \o e.out, from),
           HasRequest(e.out) => c.state = "Connecting",
           e.state = "Connecting" => c.state = "Connecting" /\ Virgin(e),
           Apart(c, d, to) => Virgin(e) /\ NoData(e.out),
           Agreed(e, d),
           NEW t \in Seq(Packet), LeftOf(t, to \o e.out), NEW f \in Seq(Packet), LeftOf(f, from)
    PROVE  Joined(AtRest(e), d, t, f)
<1> DEFINE r == AtRest(e)
<1>1. e \in Sound /\ SameIdentity(c, e)  BY DEF Evolutions
<1>2. /\ r \in Sound /\ r.out = <<>> /\ SameIdentity(e, r) /\ r.state = e.state
      /\ r.window = e.window /\ r.windowSize = e.windowSize /\ (Virgin(e) => Virgin(r))
  BY <1>1, RestFields
<1> HIDE DEF r
<1>3. Roles(c, d)  BY DEF Joined
<1>4. Roles(r, d)  BY <1>1, <1>2, <1>3 DEF Roles, SameIdentity
<1>5. e \in Circuit /\ d \in Circuit  BY <1>1, <1>3 DEF Roles, Sound
<1>6. Pair(r, d, t, f)  BY <1>5, RestPair DEF r
<1>7. Agreed(r, d)  BY <1>2 DEF Agreed, Open
<1>8. r.state = "Connecting" => Virgin(r)  BY <1>2
<1>9. ASSUME Apart(r, d, t) PROVE Clean(r, t, f)
  <2>1. e.out \in Seq(Packet)  BY <1>5, Fields
  <2>2. to \o e.out \in Seq(Packet)  BY <2>1, CatType
  <2>3. HasRequest(t) => c.state = "Connecting" \/ HasRequest(to)
    BY <2>1, <2>2, LeftData, CatData
  <2>4. Apart(c, d, to)  BY <1>2, <1>9, <2>3 DEF Apart
  <2>5. Clean(c, to, from)  BY <2>4 DEF Joined
  <2>6. NoData(to) /\ NoData(from) /\ NoData(e.out)  BY <2>4, <2>5 DEF Clean
  <2>7. NoData(t)  BY <2>1, <2>2, <2>6, LeftData, CatData
  <2>8. NoData(f)  BY <2>6, LeftData
  <2> QED  BY <1>2, <2>4, <2>7, <2>8 DEF Clean
<1> QED  BY <1>4, <1>6, <1>7, <1>8, <1>9 DEF Joined, r

\* The peer ran a handler, or is a new one.
LEMMA JoinedPeer ==
    ASSUME NEW c, NEW e, Roles(c, AtRest(e)), e \in Sound, c.state = "Connecting" => Virgin(c),
           NEW to \in Seq(Packet), NEW from \in Seq(Packet), Pair(e, c, from \o e.out, to),
           NEW t \in Seq(Packet), LeftOf(t, to), NEW f \in Seq(Packet), LeftOf(f, from \o e.out),
           Apart(c, e, t) => Clean(c, to, from) /\ NoData(e.out),
           Agreed(c, e)
    PROVE  Joined(c, AtRest(e), t, f)
<1> DEFINE r == AtRest(e)
<1>2. /\ r \in Sound /\ r.out = <<>> /\ SameIdentity(e, r) /\ r.state = e.state
      /\ r.window = e.window /\ r.windowSize = e.windowSize /\ r.reason = e.reason
  BY RestFields
<1>3. Roles(c, r)  OBVIOUS
<1> HIDE DEF r
<1>5. e \in Circuit /\ c \in Circuit  BY <1>3 DEF Roles, Sound
<1>6. Pair(r, c, f, t)  BY <1>5, RestPair DEF r
<1>7. Agreed(c, r)  BY <1>2 DEF Agreed, Open
<1>9. ASSUME Apart(c, r, t) PROVE Clean(c, t, f)
  <2>1. e.out \in Seq(Packet)  BY <1>5, Fields
  <2>2. from \o e.out \in Seq(Packet)  BY <2>1, CatType
  <2>4. Apart(c, e, t)  BY <1>2, <1>9 DEF Apart
  <2>6. NoData(to) /\ NoData(from) /\ NoData(e.out) /\ Virgin(c)  BY <2>4 DEF Clean
  <2>7. NoData(f)  BY <2>1, <2>2, <2>6, LeftData, CatData
  <2>8. NoData(t)  BY <2>6, LeftData
  <2> QED  BY <2>6, <2>7, <2>8 DEF Clean
<1>10. Pair(c, r, t, f)  BY <1>6 DEF Pair
<1> QED  BY <1>3, <1>7, <1>9, <1>10 DEF Joined, r

-----------------------------------------------------------------------------
(* What a packet makes of an end *)

\* An open end stays open, with its window, or closes and says why.
LEMMA OpenPacket ==
    ASSUME NEW c \in Sound, Open(c), NEW reaction \in Reaction, NEW d \in Circuit,
           NEW to \in Seq(Packet), NEW from \in Seq(Packet), Within(c, d, to, from),
           from # <<>>, from[1].op = "ConnectRequest" => c.mintedFor # 0
    PROVE  \/ OnPacket(c, from[1], reaction) \in Staying(c)
           \/ OnPacket(c, from[1], reaction).reason # "None"
<1> DEFINE p == from[1]
<1>1. c \in Circuit /\ p \in Packet /\ p.op \in Opcode /\ p.inc \in Nat
  BY PacketFields DEF Sound
<1>2. c \in Staying(c)  BY Reflexivity, StayingSteps
<1>3. CASE p.op = "ConnectRequest"
  <2>1. OnPacket(c, p, reaction) = OnConnectRequest(c)  BY <1>3 DEF OnPacket
  <2> QED  BY <1>3, <2>1, OnConnectRequestWithin
<1>4. CASE p.op = "ConnectAcknowledge"
  <2>1. OnPacket(c, p, reaction) = c  BY <1>4 DEF OnPacket, OnConnectAcknowledge, Open
  <2> QED  BY <1>2, <2>1
<1>5. CASE p.op = "DisconnectRequest"
  <2>1. OnPacket(c, p, reaction) = Close(SendDisconnectAcknowledge(c, p.inc), "Normal")
    BY <1>5 DEF OnPacket, OnDisconnectRequest
  <2>2. SendDisconnectAcknowledge(c, p.inc) \in SameState(c)
    BY <1>1, SendDisconnectType, EmissionKeepsState
  <2>3. SendDisconnectAcknowledge(c, p.inc).state # "Disconnected"
        /\ SendDisconnectAcknowledge(c, p.inc) \in Circuit
    BY <2>2 DEF SameState, Evolutions, Sound, Open
  <2>4. OnPacket(c, p, reaction).reason = "Normal"  BY <2>1, <2>3 DEF Close, Circuit
  <2> QED  BY <2>4
<1>6. CASE p.op = "DisconnectAcknowledge"
  <2>1. OnPacket(c, p, reaction) = OnDisconnectAcknowledge(c)  BY <1>6 DEF OnPacket
  <2>2. CASE c.state = "Disconnecting"
    <3>1. OnPacket(c, p, reaction).reason = "Normal"
      BY <1>1, <2>1, <2>2 DEF OnDisconnectAcknowledge, Close, Circuit
    <3> QED  BY <3>1
  <2>3. CASE c.state # "Disconnecting"
    <3>1. OnPacket(c, p, reaction) = c  BY <2>1, <2>3 DEF OnDisconnectAcknowledge
    <3> QED  BY <1>2, <3>1
  <2> QED  BY <2>2, <2>3
<1>7. CASE p.op = "Information"
  <2>1. OnPacket(c, p, reaction) = OnInformation(c, p, reaction)  BY <1>7 DEF OnPacket
  <2>2. IsInfo(p)  BY <1>7 DEF IsInfo
  <2> QED  BY <2>1, <2>2, OnInformationWithin
<1>8. CASE p.op = "InformationAcknowledge"
  <2>1. OnPacket(c, p, reaction) = OnInformationAcknowledge(c, p)  BY <1>8 DEF OnPacket
  <2>2. IsAck(p)  BY <1>8 DEF IsAck
  <2> QED  BY <2>1, <2>2, OnInformationAcknowledgeWithin
<1> QED  BY <1>1, <1>3, <1>4, <1>5, <1>6, <1>7, <1>8 DEF Opcode

\* A closed end at most acknowledges a Disconnect Request.
LEMMA ClosedPacket ==
    ASSUME NEW c \in Sound, c.state = "Disconnected", NEW reaction \in Reaction, NEW p \in Packet
    PROVE  OnPacket(c, p, reaction) \in {c, SendDisconnectAcknowledge(c, p.inc)}
<1>1. c \in Circuit /\ p.op \in Opcode /\ p.inc \in Nat  BY PacketFields DEF Sound
<1>2. SendDisconnectAcknowledge(c, p.inc).state = "Disconnected"
  BY <1>1 DEF SendDisconnectAcknowledge, Emit, Circuit
<1>3. CASE p.op = "DisconnectRequest"
  BY <1>2, <1>3 DEF OnPacket, OnDisconnectRequest, Close
<1>4. CASE p.op # "DisconnectRequest"
  <2>1. OnPacket(c, p, reaction) = c
    BY <1>1, <1>4 DEF OnPacket, OnConnectRequest, OnConnectAcknowledge, OnDisconnectAcknowledge,
                      OnInformation, OnInformationAcknowledge, Opcode
  <2> QED  BY <2>1
<1> QED  BY <1>3, <1>4

\* A Disconnect Acknowledge is no data.
LEMMA AcknowledgeIsNoData ==
    ASSUME NEW c \in Circuit, c.out = <<>>, NEW asker
    PROVE  /\ SendDisconnectAcknowledge(c, asker).out
                 = <<Blank("DisconnectAcknowledge", c.remoteKey, asker)>>
           /\ NoData(SendDisconnectAcknowledge(c, asker).out)
           /\ ~HasRequest(SendDisconnectAcknowledge(c, asker).out)
<1> DEFINE p == Blank("DisconnectAcknowledge", c.remoteKey, asker)
<1>1. SendDisconnectAcknowledge(c, asker).out = <<p>>
  BY DEF SendDisconnectAcknowledge, Emit, Circuit
<1>2. p.op = "DisconnectAcknowledge"  BY DEF Blank
<1> HIDE DEF p
<1>3. NoData(<<p>>) /\ ~HasRequest(<<p>>)  BY <1>2 DEF NoData, HasRequest, IsAck, IsAccept
<1> QED  BY <1>1, <1>3 DEF p

\* Neither is there any in an end that emitted nothing.
LEMMA NothingIsNoData == NoData(<<>>) /\ ~HasRequest(<<>>)
  BY DEF NoData, HasRequest

\* A connecting end that gets no answer stays as it is, or closes without data.
LEMMA ConnectingPacket ==
    ASSUME NEW c \in Sound, c.state = "Connecting", Virgin(c), c.out = <<>>,
           NEW reaction \in Reaction, NEW p \in Packet, ~IsAccept(p)
    PROVE  LET e == OnPacket(c, p, reaction)
           IN  \/ e = c
               \/ e.state = "Disconnected" /\ Virgin(e) /\ NoData(e.out)
<1> DEFINE e == OnPacket(c, p, reaction)
<1>1. c \in Circuit /\ p.op \in Opcode /\ p.inc \in Nat  BY PacketFields DEF Sound
<1>2. CASE p.op = "ConnectAcknowledge"
  <2> DEFINE key == p.own
             x == [c EXCEPT !.remoteKey = key, !.armed = FALSE]
  <2>1. p.choke  BY <1>2 DEF IsAccept
  <2>2. e = OnConnectAcknowledge(c, p)  BY <1>2 DEF OnPacket
  <2>3. e = Close(x, "Refused")  BY <2>1, <2>2 DEF OnConnectAcknowledge
  <2> HIDE DEF e, key
  <2>4. Virgin(e) /\ e.state = "Disconnected" /\ e.out = <<>>
    BY <1>1, <2>3 DEF Close, Circuit, Virgin
  <2> QED  BY <2>4, NothingIsNoData DEF e
<1>3. CASE p.op = "DisconnectRequest"
  <2> DEFINE x == SendDisconnectAcknowledge(c, p.inc)
  <2>1. e = Close(x, "Normal")  BY <1>3 DEF OnPacket, OnDisconnectRequest
  <2>2. x \in Circuit /\ x.state = "Connecting" /\ Virgin(x) /\ NoData(x.out)
    <3>1. x \in Emissions(c)  BY <1>1, SendDisconnectType
    <3>2. x \in Circuit /\ x = [c EXCEPT !.out = x.out]  BY <3>1 DEF Emissions
    <3>3. x.state = "Connecting" /\ Virgin(x)  BY <1>1, <3>2 DEF Virgin, Circuit
    <3> QED  BY <1>1, <3>2, <3>3, AcknowledgeIsNoData
  <2> HIDE DEF x, e
  <2>3. Virgin(e) /\ e.state = "Disconnected" /\ e.out = x.out
    BY <2>1, <2>2 DEF Close, Circuit, Virgin
  <2> QED  BY <2>2, <2>3 DEF e
<1>4. CASE p.op \notin {"ConnectAcknowledge", "DisconnectRequest"}
  <2>1. e = c
    BY <1>1, <1>4 DEF OnPacket, OnConnectRequest, OnDisconnectAcknowledge,
                      OnInformation, OnInformationAcknowledge, Opcode
  <2> QED  BY <2>1
<1> QED  BY <1>2, <1>3, <1>4

\* An acceptance opens a connecting end with the lesser of the two windows.
LEMMA ConnectingAccepted ==
    ASSUME NEW c \in Sound, c.state = "Connecting",
           NEW reaction \in Reaction, NEW p \in Packet, IsAccept(p), p.win \in 1 .. MaxWindow
    PROVE  LET e == OnPacket(c, p, reaction)
           IN  e.state = "Connected" /\ e.window = Lesser(c.window, p.win)
<1> DEFINE key == p.own
           w == Lesser(c.window, p.win)
           g == [c EXCEPT !.remoteKey = key, !.state = "Connected", !.window = w, !.armed = FALSE]
<1>1. c \in Circuit /\ EndIsSound(c) /\ key \in Key /\ c.window \in Nat
  BY PacketFields DEF Sound, Circuit
<1>2. w \in Nat  BY <1>1, HorizonFacts DEF Lesser
<1>3. OnPacket(c, p, reaction) = Pump(g)
  BY <1>1 DEF OnPacket, OnConnectAcknowledge, IsAccept, Circuit
<1> HIDE DEF w, key
<1>4. c.state \in {"Disconnected", "Connecting"} /\ c.reason = "None"
  BY <1>1 DEF EndIsSound
<1>5. g.window = w /\ g.state = "Connected"  BY <1>1 DEF Circuit
<1>6. g \in Sound
  <2>1. g \in Evolutions(c)
    <3> HIDE DEF g
    <3> QED  BY ONLY <1>1, <1>2, <1>4, c \in Sound, EstablishType DEF g
  <2> QED  BY <2>1, Transitivity
<1> HIDE DEF g
<1>7. Pump(g) \in DataSteps(g)  BY <1>6, PumpType
<1> QED  BY <1>3, <1>5, <1>7 DEF DataSteps, SameState, w

-----------------------------------------------------------------------------
(* The opener's steps *)

\* What the lemmas about the handlers need of the two ends.
LEMMA JoinedFacts ==
    ASSUME NEW c, NEW d, NEW to \in Seq(Packet), NEW from \in Seq(Packet), Joined(c, d, to, from)
    PROVE  /\ c \in Sound /\ c \in Circuit /\ EndIsSound(c) /\ c.mintedFor = 0 /\ c.out = <<>>
           /\ d \in Sound /\ d \in Circuit /\ EndIsSound(d) /\ d.mintedFor # 0 /\ d.out = <<>>
           /\ d.state # "Connecting" /\ d.peerKey[2] = c.localKey
           /\ Pair(c, d, to, from) /\ Within(c, d, to, from) /\ Within(d, c, from, to)
           /\ c.state = "Connecting" => Virgin(c)
           /\ Apart(c, d, to) => Clean(c, to, from)
           /\ Agreed(c, d)
<1>1. Roles(c, d) /\ Pair(c, d, to, from)  BY DEF Joined
<1>2. to \o <<>> = to /\ from \o <<>> = from  OBVIOUS
<1>3. c.out = <<>> /\ d.out = <<>>  BY <1>1 DEF Roles
<1>4. Within(c, d, to, from) /\ Within(d, c, from, to)
  BY <1>1, <1>2, <1>3 DEF Within, Pair
<1> QED  BY <1>1, <1>4 DEF Joined, Roles, Sound

\* A queue is what is left of itself and nothing.
LEMMA LeftSelf ==
    ASSUME NEW q \in Seq(Packet) PROVE LeftOf(q, q) /\ LeftOf(q, q \o <<>>)
<1>1. LeftOf(q, q)
  <2>1. /\ Len(q) + 0 <= Len(q)
        /\ \A k \in 1 .. Len(q) : q[k] = q[k + 0]
    OBVIOUS
  <2> QED  BY <2>1 DEF LeftOf
<1>2. q \o <<>> = q  OBVIOUS
<1> QED  BY <1>1, <1>2

\* Packets are taken or lost on either link.
LEMMA JoinedQueues ==
    ASSUME NEW c, NEW d, NEW to \in Seq(Packet), NEW from \in Seq(Packet), Joined(c, d, to, from),
           NEW t \in Seq(Packet), LeftOf(t, to), NEW f \in Seq(Packet), LeftOf(f, from)
    PROVE  Joined(c, d, t, f)
<1>1. /\ c \in Sound /\ c.out = <<>> /\ Pair(c, d, to, from)
      /\ c.state = "Connecting" => Virgin(c)
      /\ Apart(c, d, to) => Clean(c, to, from)
      /\ Agreed(c, d)
  BY JoinedFacts
<1>2. AtRest(c) = c  BY <1>1, RestFields
<1>3. c \in Evolutions(c)  BY <1>1, Reflexivity, Transitivity
<1>4. to \o c.out = to  BY <1>1
<1>5. Apart(c, d, to) => Virgin(c) /\ NoData(c.out)  BY <1>1, NothingIsNoData DEF Clean
<1>6. HasRequest(c.out) => c.state = "Connecting"  BY <1>1, NothingIsNoData
<1>7. Joined(AtRest(c), d, t, f)
  BY ONLY <1>1, <1>3, <1>4, <1>5, <1>6, JoinedOpener, c \in Sound,
     to \in Seq(Packet), from \in Seq(Packet), Joined(c, d, to, from),
     t \in Seq(Packet), LeftOf(t, to), f \in Seq(Packet), LeftOf(f, from)
<1> QED  BY <1>2, <1>7

\* A handler that emits no request runs on the opener.
LEMMA OpenerWithin ==
    ASSUME NEW c, NEW d, NEW to \in Seq(Packet), NEW from \in Seq(Packet), Joined(c, d, to, from),
           NEW e \in Evolutions(c), Within(e, d, to, from),
           e.state = "Connecting" => c.state = "Connecting" /\ Virgin(e),
           Apart(c, d, to) => Virgin(e) /\ NoData(e.out),
           Agreed(e, d),
           NEW t \in Seq(Packet), LeftOf(t, to \o e.out), NEW f \in Seq(Packet), LeftOf(f, from)
    PROVE  Joined(AtRest(e), d, t, f)
<1>1. Pair(e, d, to \o e.out, from) /\ ~HasRequest(e.out)  BY DEF Within, HasRequest
<1> QED  BY <1>1, JoinedOpener

\* A handler runs on an open opener, which stays open or closes.
LEMMA OpenOpener ==
    ASSUME NEW c, NEW d, NEW to \in Seq(Packet), NEW from \in Seq(Packet), Joined(c, d, to, from),
           Open(c), NEW e \in Evolutions(c), Within(e, d, to, from),
           e \in Staying(c) \/ e.reason # "None",
           NEW t \in Seq(Packet), LeftOf(t, to \o e.out), NEW f \in Seq(Packet), LeftOf(f, from)
    PROVE  Joined(AtRest(e), d, t, f)
<1>1. /\ c.state # "Connecting" /\ (Apart(c, d, to) => Clean(c, to, from)) /\ Agreed(c, d)
  BY JoinedFacts DEF Open
<1>2. ~Apart(c, d, to)  BY <1>1 DEF Clean, Virgin, Open
<1>3. EndIsSound(e) /\ e.windowSize = c.windowSize  BY DEF Evolutions, Sound, SameIdentity
<1>4. CASE e \in Staying(c)
  <2>1. Open(e) /\ e.window = c.window /\ e.state # "Connecting"  BY <1>4 DEF Staying, Open
  <2>2. Agreed(e, d)  BY <1>1, <1>3, <2>1 DEF Agreed
  <2> QED  BY <1>2, <2>1, <2>2, OpenerWithin
<1>5. CASE e.reason # "None"
  <2>1. e.state = "Disconnected"  BY <1>3, <1>5 DEF EndIsSound
  <2>2. Agreed(e, d)  BY <1>1, <1>3, <2>1 DEF Agreed, Open
  <2> QED  BY <1>2, <2>1, <2>2, OpenerWithin
<1> QED  BY <1>4, <1>5

\* A handler runs on an opener without data and sends none.
LEMMA VirginOpener ==
    ASSUME NEW c, NEW d, NEW to \in Seq(Packet), NEW from \in Seq(Packet), Joined(c, d, to, from),
           NEW e \in Evolutions(c), Within(e, d, to, from), Virgin(e), NoData(e.out),
           e.state = "Connecting" => c.state = "Connecting" /\ e.window = c.window,
           NEW t \in Seq(Packet), LeftOf(t, to \o e.out), NEW f \in Seq(Packet), LeftOf(f, from)
    PROVE  Joined(AtRest(e), d, t, f)
<1>1. Agreed(c, d)  BY JoinedFacts
<1>2. e.windowSize = c.windowSize  BY DEF Evolutions, SameIdentity
<1>3. Agreed(e, d)  BY <1>1, <1>2 DEF Agreed, Virgin, Open
<1> QED  BY <1>3, OpenerWithin

\* The opener's application writes.
LEMMA OpenerSends ==
    ASSUME NEW c, NEW d, NEW to \in Seq(Packet), NEW from \in Seq(Packet), Joined(c, d, to, from),
           c.state = "Connected", NEW size \in Nat, NEW e, e = Send(c, size),
           NEW t \in Seq(Packet), LeftOf(t, to \o e.out), NEW f \in Seq(Packet), LeftOf(f, from)
    PROVE  Joined(AtRest(e), d, t, f)
<1>1. c \in Sound /\ d \in Circuit /\ Within(c, d, to, from)  BY JoinedFacts
<1>2. e \in Staying(c) /\ e \in Evolutions(c)  BY <1>1, SendType, StayingSteps
<1>3. Within(e, d, to, from)  BY <1>1, SendWithin
<1>4. Open(c)  BY DEF Open
<1> QED  BY <1>2, <1>3, <1>4, OpenOpener

\* The opener's application disconnects, connected or before the answer came.
LEMMA OpenerDisconnects ==
    ASSUME NEW c, NEW d, NEW to \in Seq(Packet), NEW from \in Seq(Packet), Joined(c, d, to, from),
           c.state \in {"Connecting", "Connected"}, NEW e, e = Disconnect(c),
           NEW t \in Seq(Packet), LeftOf(t, to \o e.out), NEW f \in Seq(Packet), LeftOf(f, from)
    PROVE  Joined(AtRest(e), d, t, f)
<1>1. /\ c \in Sound /\ c \in Circuit /\ d \in Circuit /\ Within(c, d, to, from) /\ c.out = <<>>
      /\ c.state = "Connecting" => Virgin(c)
  BY JoinedFacts
<1>2. e \in Staying(c) /\ e \in Evolutions(c)  BY <1>1, DisconnectStays, StayingSteps
<1>3. Within(e, d, to, from)  BY <1>1, DisconnectWithin
<1>4. CASE c.state = "Connected"
  <2>1. Open(c)  BY <1>4 DEF Open
  <2> QED  BY <1>2, <1>3, <2>1, OpenOpener
<1>5. CASE c.state = "Connecting"
  <2>1. e = Close(c, "Normal")  BY <1>5 DEF Disconnect
  <2>2. Virgin(e) /\ e.state = "Disconnected" /\ e.out = <<>>
    BY <1>1, <1>5, <2>1 DEF Close, Circuit, Virgin
  <2> QED  BY <1>2, <1>3, <2>2, NothingIsNoData, VirginOpener
<1> QED  BY <1>4, <1>5

\* An end that is not connected announces nothing when a frame is consumed.
LEMMA ClosedDrained ==
    ASSUME NEW c \in Sound, c.state # "Connected", c.out = <<>>
    PROVE  LET e == OnDeliveryDrained(c)
           IN  /\ e.state = c.state /\ e.reason = c.reason /\ e.window = c.window
               /\ e.out = <<>> /\ e.got = c.got /\ (Virgin(c) => Virgin(e))
<1> DEFINE n == IF c.pending > 0 THEN c.pending - 1 ELSE 0
           g == [c EXCEPT !.pending = n]
           r == [g EXCEPT !.localChoked = FALSE]
<1>1. c \in Circuit  BY DEF Sound
<1>2. OnDeliveryDrained(c) \in {g, r}  BY <1>1 DEF OnDeliveryDrained, Circuit
<1> HIDE DEF n
<1>3. /\ g.state = c.state /\ g.reason = c.reason /\ g.window = c.window
      /\ g.out = <<>> /\ g.got = c.got /\ (Virgin(c) => Virgin(g))
  BY <1>1 DEF Circuit, Virgin
<1>4. /\ r.state = c.state /\ r.reason = c.reason /\ r.window = c.window
      /\ r.out = <<>> /\ r.got = c.got /\ (Virgin(c) => Virgin(r))
  BY <1>1 DEF Circuit, Virgin
<1> HIDE DEF g, r
<1> QED  BY <1>2, <1>3, <1>4

\* The opener's reader consumes a frame.
LEMMA OpenerDrains ==
    ASSUME NEW c, NEW d, NEW to \in Seq(Packet), NEW from \in Seq(Packet), Joined(c, d, to, from),
           NEW e, e = OnDeliveryDrained(c),
           NEW t \in Seq(Packet), LeftOf(t, to \o e.out), NEW f \in Seq(Packet), LeftOf(f, from)
    PROVE  Joined(AtRest(e), d, t, f)
<1>1. /\ c \in Sound /\ d \in Circuit /\ Within(c, d, to, from) /\ c.out = <<>>
      /\ c.state = "Connecting" => Virgin(c)
      /\ Apart(c, d, to) => Clean(c, to, from)
      /\ Agreed(c, d)
  BY JoinedFacts
<1>2. e \in Staying(c) /\ e \in Evolutions(c)  BY <1>1, OnDeliveryDrainedType, StayingSteps
<1>3. Within(e, d, to, from)  BY <1>1, OnDeliveryDrainedWithin
<1>4. CASE Open(c)  BY <1>2, <1>3, <1>4, OpenOpener
<1>5. CASE ~Open(c)
  <2>1. /\ e.state = c.state /\ e.reason = c.reason /\ e.window = c.window
        /\ e.out = <<>> /\ (Virgin(c) => Virgin(e))
    BY <1>1, <1>5, ClosedDrained DEF Open
  <2>2. e.windowSize = c.windowSize  BY <1>2 DEF Evolutions, SameIdentity
  <2>3. Agreed(e, d)  BY <1>1, <2>1, <2>2 DEF Agreed, Open
  <2>4. Apart(c, d, to) => Virgin(e) /\ NoData(e.out)  BY <1>1, <2>1, NothingIsNoData DEF Clean
  <2>5. e.state = "Connecting" => c.state = "Connecting" /\ Virgin(e)  BY <1>1, <2>1
  <2> QED  BY <1>2, <1>3, <2>3, <2>4, <2>5, OpenerWithin
<1> QED  BY <1>4, <1>5

\* The timer of an end that is open resends, or gives up.
LEMMA OpenTick ==
    ASSUME NEW c \in Sound, TimerRunning(c), Open(c)
    PROVE  IF RetriesSpent(c) THEN Tick(c).reason # "None" ELSE Tick(c) \in Staying(c)
<1>1. c \in Circuit /\ EndIsSound(c) /\ Tick(c) \in Evolutions(c)  BY TickType DEF Sound
<1>2. CASE RetriesSpent(c)
  <2>1. Tick(c).reason = "Timeout"  BY <1>1, <1>2 DEF Tick, Close, Circuit, Open
  <2> QED  BY <1>2, <2>1
<1>3. CASE ~RetriesSpent(c) /\ c.state = "Connected"
  <2>1. Tick(c) = Resend(c, DOMAIN c.unacked)  BY <1>3 DEF Tick
  <2>2. c.state \in {"Connected", "Disconnecting"} /\ DOMAIN c.unacked \in SUBSET DOMAIN c.unacked
    BY <1>3
  <2>3. Tick(c) \in DataSteps(c)  BY <2>1, <2>2, ResendType
  <2> QED  BY <1>3, <2>3, StayingSteps
<1>4. CASE ~RetriesSpent(c) /\ c.state = "Disconnecting"
  <2> DEFINE n == c.retries + 1
             again == [c EXCEPT !.retries = n]
             e == SendDisconnectRequest(again)
  <2>1. Tick(c) = e  BY <1>4 DEF Tick
  <2> HIDE DEF n
  <2>2. e.state = c.state /\ e.window = c.window
    BY <1>1 DEF SendDisconnectRequest, Emit, Circuit
  <2> HIDE DEF e
  <2>3. Tick(c).window = c.window /\ (Open(c) => Open(Tick(c)))  BY <1>4, <2>1, <2>2 DEF Open
  <2>4. Tick(c) \in Staying(c)  BY <1>1, <2>3 DEF Staying
  <2> QED  BY <1>4, <2>4
<1> QED  BY <1>2, <1>3, <1>4 DEF Open

\* A connecting opener's timer repeats the Connect Request, or gives up.
LEMMA OpenerTicksConnecting ==
    ASSUME NEW c, NEW d, NEW to \in Seq(Packet), NEW from \in Seq(Packet), Joined(c, d, to, from),
           TimerRunning(c), c.state = "Connecting", NEW e, e = Tick(c),
           NEW t \in Seq(Packet), LeftOf(t, to \o e.out), NEW f \in Seq(Packet), LeftOf(f, from)
    PROVE  Joined(AtRest(e), d, t, f)
<1>1. /\ c \in Sound /\ c \in Circuit /\ d \in Circuit /\ Within(c, d, to, from) /\ c.out = <<>>
      /\ Virgin(c) /\ Pair(c, d, to, from) /\ Agreed(c, d) /\ c.mintedFor = 0
  BY JoinedFacts
<1>2. e \in Evolutions(c)  BY <1>1, TickType
<1>3. CASE RetriesSpent(c)
  <2>1. e = Close(c, "Timeout")  BY <1>3 DEF Tick
  <2>2. Virgin(e) /\ e.state = "Disconnected" /\ e.out = <<>>
    BY <1>1, <2>1 DEF Close, Circuit, Virgin
  <2>3. Within(e, d, to, from)  BY <1>1, <1>3, TickWithin
  <2> QED  BY <1>2, <2>2, <2>3, NothingIsNoData, VirginOpener
<1>4. CASE ~RetriesSpent(c)
  <2> DEFINE n == c.retries + 1
             again == [c EXCEPT !.retries = n]
             b == Blank("ConnectRequest", again.localKey, again.inc)
             p == [b EXCEPT !.win = Clamp(again.windowSize, 1, MaxWindow)]
  <2>1. e = SendConnectRequest(again)  BY <1>4 DEF Tick
  <2>2. n \in Nat
    <3>1. c.retries \in Nat  BY <1>1 DEF Circuit
    <3> QED  BY <3>1
  <2> HIDE DEF n
  <2>3. /\ again \in Circuit /\ again.out = <<>> /\ again.state = "Connecting"
        /\ again.mintedFor = 0 /\ Virgin(again) /\ again.window = c.window
        /\ again.localKey = c.localKey /\ again.windowSize = c.windowSize
    BY <1>1, <2>2, ZenonT(60) DEF Circuit, Virgin
  <2>4. Within(again, d, to, from)  BY <1>1, <2>2, QuietFieldWithin, TRUE \in BOOLEAN
  <2> HIDE DEF again
  <2>5. to \o <<>> = to  OBVIOUS
  <2>6. Pair(again, d, to, from)  BY <2>3, <2>4, <2>5 DEF Within
  <2>7. e.out = <<p>>
    <3>1. e = Emit(again, <<p>>)  BY <2>1 DEF SendConnectRequest
    <3> HIDE DEF p
    <3>2. <<>> \o <<p>> = <<p>>  OBVIOUS
    <3> QED  BY <2>3, <3>1, <3>2 DEF Emit, Circuit
  <2>8. p \in Packet /\ p.op = "ConnectRequest" /\ p.key = again.localKey /\ p.inc = again.inc
        /\ p.win = Clamp(again.windowSize, 1, MaxWindow)
    <3>1. e.out \in Seq(Packet)  BY <1>2, Fields DEF Evolutions, Sound
    <3>2. p \in Packet  BY <2>7, <3>1
    <3> QED  BY <3>2 DEF Blank
  <2> HIDE DEF p
  <2>9. Pair(again, d, to \o <<p>>, from)  BY <1>1, <2>3, <2>6, <2>8, RequestPair
  <2>10. /\ SameStream(again, e) /\ SameHand(again, e) /\ e.state = "Connecting" /\ Virgin(e)
         /\ e.window = c.window
    BY <2>1, <2>3 DEF SendConnectRequest, Emit, Circuit, SameStream, SameHand, Open, Virgin
  <2>11. Pair(e, d, to \o e.out, from)  BY <2>7, <2>9, <2>10, SamePair
  <2>12. NoData(<<p>>)  BY <2>8 DEF NoData, IsAck, IsAccept
  <2>13. Agreed(e, d)
    <3>1. e.windowSize = c.windowSize  BY <1>2 DEF Evolutions, SameIdentity
    <3> QED  BY <1>1, <2>10, <3>1 DEF Agreed, Open
  <2> QED  BY <1>2, <2>7, <2>10, <2>11, <2>12, <2>13, JoinedOpener
<1> QED  BY <1>3, <1>4

\* The opener's timer expires.
LEMMA OpenerTicks ==
    ASSUME NEW c, NEW d, NEW to \in Seq(Packet), NEW from \in Seq(Packet), Joined(c, d, to, from),
           TimerRunning(c), NEW e, e = Tick(c),
           NEW t \in Seq(Packet), LeftOf(t, to \o e.out), NEW f \in Seq(Packet), LeftOf(f, from)
    PROVE  Joined(AtRest(e), d, t, f)
<1>1. /\ c \in Sound /\ EndIsSound(c) /\ d \in Circuit /\ Within(c, d, to, from)
  BY JoinedFacts
<1>2. CASE c.state = "Connecting"  BY <1>2, OpenerTicksConnecting
<1>3. CASE c.state # "Connecting"
  <2>1. Open(c)  BY <1>1, <1>3 DEF TimerRunning, EndIsSound, Open
  <2>2. e \in Evolutions(c) /\ Within(e, d, to, from)  BY <1>1, <1>3, TickType, TickWithin
  <2>3. e \in Staying(c) \/ e.reason # "None"  BY <1>1, <2>1, OpenTick
  <2> QED  BY <2>1, <2>2, <2>3, OpenOpener
<1> QED  BY <1>2, <1>3

\* A packet of the peer reaches the opener.
LEMMA OpenerReceives ==
    ASSUME NEW c, NEW d, NEW to \in Seq(Packet), NEW from \in Seq(Packet), Joined(c, d, to, from),
           from # <<>>, NEW reaction \in Reaction, NEW e, e = OnPacket(c, from[1], reaction),
           NEW t \in Seq(Packet), LeftOf(t, to \o e.out), NEW f \in Seq(Packet), LeftOf(f, from)
    PROVE  Joined(AtRest(e), d, t, f)
<1> DEFINE p == from[1]
<1>1. /\ c \in Sound /\ c \in Circuit /\ d \in Circuit /\ Within(c, d, to, from) /\ c.out = <<>>
      /\ c.state = "Connecting" => Virgin(c)
      /\ Apart(c, d, to) => Clean(c, to, from)
      /\ Agreed(c, d) /\ Pair(c, d, to, from) /\ d.mintedFor # 0
  BY JoinedFacts
<1>2. p \in Packet /\ 1 \in DOMAIN from /\ p.inc \in Nat  BY PacketFields
<1>3. Shaken(d, from)  BY <1>1 DEF Pair, Direction
<1>4. p.op # "ConnectRequest"  BY <1>1, <1>2, <1>3 DEF Shaken
<1>5. Within(e, d, to, from)  BY <1>1, <1>4, OnPacketWithin
<1>6. e \in Evolutions(c)  BY <1>1, <1>2, OnPacketType
<1>7. e.windowSize = c.windowSize  BY <1>6 DEF Evolutions, SameIdentity
<1>8. CASE Open(c)
  <2>1. e \in Staying(c) \/ e.reason # "None"  BY <1>1, <1>4, <1>8, OpenPacket
  <2> QED  BY <1>5, <1>6, <1>8, <2>1, OpenOpener
<1>9. CASE c.state = "Connecting" /\ IsAccept(p)
  <2>1. p.win = d.window /\ d.window \in 1 .. MaxWindow  BY <1>2, <1>3, <1>9 DEF Shaken
  <2>2. e.state = "Connected" /\ e.window = Lesser(c.window, p.win)
    BY <1>1, <1>2, <1>9, <2>1, ConnectingAccepted
  <2>3. ~Apart(c, d, to)  BY <1>1, <1>2, <1>9 DEF Clean, NoData
  <2>4. c.window = c.windowSize  BY <1>1, <1>9 DEF Agreed
  <2>5. Agreed(e, d)
    <3>1. c.windowSize \in Nat /\ d.window \in Nat  BY <1>1 DEF Circuit
    <3>2. d.window <= c.windowSize => Lesser(c.windowSize, d.window) = d.window
      BY <3>1 DEF Lesser
    <3>3. e.window = Lesser(c.windowSize, d.window)  BY <2>1, <2>2, <2>4
    <3> QED  BY <1>1, <1>7, <2>2, <3>2, <3>3 DEF Agreed
  <2> QED  BY <1>5, <1>6, <2>2, <2>3, <2>5, OpenerWithin
<1>10. CASE c.state = "Connecting" /\ ~IsAccept(p)
  <2>1. \/ e = c
        \/ e.state = "Disconnected" /\ Virgin(e) /\ NoData(e.out)
    BY <1>1, <1>2, <1>10, ConnectingPacket
  <2>2. Virgin(e) /\ NoData(e.out)
        /\ (e.state = "Connecting" => c.state = "Connecting" /\ e.window = c.window)
    BY <1>1, <1>10, <2>1, NothingIsNoData
  <2> QED  BY <1>5, <1>6, <2>2, VirginOpener
<1>11. CASE c.state = "Disconnected"
  <2>1. e \in {c, SendDisconnectAcknowledge(c, p.inc)}  BY <1>1, <1>2, <1>11, ClosedPacket
  <2>2. e.state = "Disconnected" /\ NoData(e.out) /\ (Virgin(c) => Virgin(e))
    <3>1. CASE e = c  BY <1>1, <1>11, <3>1, NothingIsNoData
    <3>2. CASE e = SendDisconnectAcknowledge(c, p.inc)
      <4>1. NoData(e.out)  BY <1>1, <3>2, AcknowledgeIsNoData
      <4>2. e.state = "Disconnected" /\ (Virgin(c) => Virgin(e))
        BY <1>1, <1>11, <3>2 DEF SendDisconnectAcknowledge, Emit, Circuit, Virgin
      <4> QED  BY <4>1, <4>2
    <3> QED  BY <2>1, <3>1, <3>2
  <2>3. Agreed(e, d)  BY <1>1, <1>7, <2>2 DEF Agreed, Open
  <2>4. Apart(c, d, to) => Virgin(e) /\ NoData(e.out)  BY <1>1, <2>2 DEF Clean
  <2> QED  BY <1>5, <1>6, <2>2, <2>3, <2>4, OpenerWithin
<1>12. c.state \in State  BY <1>1 DEF Circuit
<1> QED  BY <1>8, <1>9, <1>10, <1>11, <1>12 DEF Open, State

\* The answer to a Disconnect Request no circuit matches.
LEMMA ReflectedIs ==
    ASSUME NEW key \in Key, NEW asker \in Nat, NEW p, p = Blank("DisconnectAcknowledge", key, asker)
    PROVE  p \in Packet /\ p.op = "DisconnectAcknowledge" /\ <<p>> \in Seq(Packet)
           /\ NoData(<<p>>) /\ ~HasRequest(<<p>>)
<1>1. p \in Packet  BY BlankType DEF Opcode
<1>2. p.op = "DisconnectAcknowledge"  BY DEF Blank
<1>3. NoData(<<p>>) /\ ~HasRequest(<<p>>)  BY <1>2 DEF NoData, HasRequest, IsAck, IsAccept
<1> QED  BY <1>1, <1>2, <1>3

\* An end at rest that emits a packet is at rest again.
LEMMA EmitAtRest ==
    ASSUME NEW c \in Circuit, c.out = <<>>, NEW p \in Packet, NEW e, e = Emit(c, <<p>>)
    PROVE  /\ AtRest(e) = c /\ e.out = <<p>> /\ e.state = c.state /\ e.window = c.window
           /\ e.windowSize = c.windowSize /\ e.reason = c.reason
           /\ Virgin(c) => Virgin(e)
           /\ EndIsSound(c) => e \in Evolutions(c)
<1>1. <<>> \o <<p>> = <<p>>  OBVIOUS
<1>2. e = [c EXCEPT !.out = <<p>>]  BY <1>1 DEF Emit
<1>3. /\ AtRest(e) = c /\ e.out = <<p>> /\ e.state = c.state /\ e.window = c.window
      /\ e.windowSize = c.windowSize /\ e.reason = c.reason
      /\ Virgin(c) => Virgin(e)
  BY <1>2, ZenonT(60) DEF AtRest, Circuit, Virgin
<1>4. EndIsSound(c) => e \in Evolutions(c)
  <2> SUFFICES ASSUME EndIsSound(c) PROVE e \in Evolutions(c)  OBVIOUS
  <2>1. c \in Sound  BY DEF Sound
  <2>2. e \in SameState(c)  BY <2>1, EmitOne, EmissionKeepsState
  <2> QED  BY <2>2, Transitivity
<1> QED  BY <1>3, <1>4

\* The opener's manager acknowledges a Disconnect Request for no circuit.
LEMMA OpenerReflects ==
    ASSUME NEW c, NEW d, NEW to \in Seq(Packet), NEW from \in Seq(Packet), Joined(c, d, to, from),
           c.state # "Connecting", NEW key \in Key, NEW asker \in Nat,
           NEW p, p = Blank("DisconnectAcknowledge", key, asker),
           NEW t \in Seq(Packet), LeftOf(t, to \o <<p>>), NEW f \in Seq(Packet), LeftOf(f, from)
    PROVE  Joined(c, d, t, f)
<1> DEFINE e == Emit(c, <<p>>)
<1>1. /\ c \in Sound /\ c \in Circuit /\ EndIsSound(c) /\ d \in Circuit /\ Within(c, d, to, from)
      /\ c.out = <<>> /\ Agreed(c, d)
      /\ Apart(c, d, to) => Clean(c, to, from)
  BY JoinedFacts
<1>2. p \in Packet /\ p.op = "DisconnectAcknowledge" /\ NoData(<<p>>)  BY ReflectedIs
<1>3. /\ AtRest(e) = c /\ e.out = <<p>> /\ e.state = c.state /\ e.window = c.window
      /\ e.windowSize = c.windowSize /\ (Virgin(c) => Virgin(e)) /\ e \in Evolutions(c)
  BY <1>1, <1>2, EmitAtRest
<1>4. Within(e, d, to, from)
  <2>1. Timely(c, p)  BY <1>2 DEF Timely, IsAck, IsInfo, IsAccept
  <2> QED  BY <1>1, <1>2, <2>1, EmitOneWithin
<1> HIDE DEF e
<1>5. Agreed(e, d)  BY <1>1, <1>3 DEF Agreed, Open
<1>6. Apart(c, d, to) => Virgin(e) /\ NoData(e.out)  BY <1>1, <1>2, <1>3 DEF Clean
<1>7. Joined(AtRest(e), d, t, f)  BY <1>3, <1>4, <1>5, <1>6, OpenerWithin
<1> QED  BY <1>3, <1>7

-----------------------------------------------------------------------------
(* The peer's steps *)

\* A handler runs on the peer.
LEMMA PeerWithin ==
    ASSUME NEW c, NEW d, NEW to \in Seq(Packet), NEW from \in Seq(Packet), Joined(c, d, to, from),
           NEW e \in Evolutions(d), Within(e, c, from, to), e.state # "Connecting",
           NEW t \in Seq(Packet), LeftOf(t, to), NEW f \in Seq(Packet), LeftOf(f, from \o e.out),
           Apart(c, e, t) => Clean(c, to, from) /\ NoData(e.out),
           Agreed(c, e)
    PROVE  Joined(c, AtRest(e), t, f)
<1>1. Roles(c, d) /\ (c.state = "Connecting" => Virgin(c))  BY DEF Joined
<1>2. e \in Sound /\ SameIdentity(d, e)  BY DEF Evolutions
<1>3. /\ AtRest(e) \in Sound /\ AtRest(e).out = <<>> /\ SameIdentity(e, AtRest(e))
      /\ AtRest(e).state = e.state
  BY <1>2, RestFields
<1>4. Roles(c, AtRest(e))  BY <1>1, <1>2, <1>3 DEF Roles, SameIdentity
<1>5. Pair(e, c, from \o e.out, to)  BY DEF Within
<1> QED  BY <1>1, <1>2, <1>4, <1>5, JoinedPeer

\* An open peer stays open.
LEMMA OpenPeer ==
    ASSUME NEW c, NEW d, NEW to \in Seq(Packet), NEW from \in Seq(Packet), Joined(c, d, to, from),
           Open(d), NEW e \in Staying(d), Within(e, c, from, to),
           NEW t \in Seq(Packet), LeftOf(t, to), NEW f \in Seq(Packet), LeftOf(f, from \o e.out)
    PROVE  Joined(c, AtRest(e), t, f)
<1>1. e \in Evolutions(d) /\ Open(e) /\ e.window = d.window /\ e.windowSize = d.windowSize
  BY DEF Staying, Evolutions, SameIdentity
<1>2. Agreed(c, d)  BY JoinedFacts
<1>3. Agreed(c, e)  BY <1>1, <1>2 DEF Agreed
<1>4. e.state # "Connecting" /\ ~Apart(c, e, t)  BY <1>1 DEF Open, Apart
<1> QED  BY <1>1, <1>3, <1>4, PeerWithin

\* The peer closes when no request is left that could mint another.
LEMMA ClosingPeer ==
    ASSUME NEW c, NEW d, NEW to \in Seq(Packet), NEW from \in Seq(Packet), Joined(c, d, to, from),
           NEW e \in Evolutions(d), Within(e, c, from, to), e.reason # "None",
           NEW t \in Seq(Packet), LeftOf(t, to), NEW f \in Seq(Packet), LeftOf(f, from \o e.out),
           c.state # "Connecting", ~HasRequest(t)
    PROVE  Joined(c, AtRest(e), t, f)
<1>1. e.state = "Disconnected"  BY DEF Evolutions, Sound, EndIsSound
<1>2. Agreed(c, e)  BY <1>1 DEF Agreed, Open
<1>3. ~Apart(c, e, t)  BY DEF Apart
<1> QED  BY <1>1, <1>2, <1>3, PeerWithin

\* A closed peer stays closed, and sends no data.
LEMMA ClosedPeer ==
    ASSUME NEW c, NEW d, NEW to \in Seq(Packet), NEW from \in Seq(Packet), Joined(c, d, to, from),
           d.state = "Disconnected", NEW e \in Evolutions(d), Within(e, c, from, to),
           e.state = "Disconnected", d.reason = "None" \/ e.reason = d.reason, NoData(e.out),
           NEW t \in Seq(Packet), LeftOf(t, to), NEW f \in Seq(Packet), LeftOf(f, from \o e.out)
    PROVE  Joined(c, AtRest(e), t, f)
<1>1. Agreed(c, d) /\ (Apart(c, d, to) => Clean(c, to, from))  BY JoinedFacts
<1>2. Agreed(c, e)  BY <1>1 DEF Agreed, Open
<1>3. HasRequest(t) => HasRequest(to)  BY LeftData
<1>4. Apart(c, e, t) => Apart(c, d, to)  BY <1>3 DEF Apart
<1> QED  BY <1>1, <1>2, <1>4, PeerWithin

\* The peer's application writes.
LEMMA PeerSends ==
    ASSUME NEW c, NEW d, NEW to \in Seq(Packet), NEW from \in Seq(Packet), Joined(c, d, to, from),
           d.state = "Connected", NEW size \in Nat, NEW e, e = Send(d, size),
           NEW t \in Seq(Packet), LeftOf(t, to), NEW f \in Seq(Packet), LeftOf(f, from \o e.out)
    PROVE  Joined(c, AtRest(e), t, f)
<1>1. d \in Sound /\ c \in Circuit /\ Within(d, c, from, to)  BY JoinedFacts
<1>2. e \in Staying(d)  BY <1>1, SendType, StayingSteps
<1>3. Within(e, c, from, to)  BY <1>1, SendWithin
<1>4. Open(d)  BY DEF Open
<1> QED  BY <1>2, <1>3, <1>4, OpenPeer

\* The peer's application disconnects.
LEMMA PeerDisconnects ==
    ASSUME NEW c, NEW d, NEW to \in Seq(Packet), NEW from \in Seq(Packet), Joined(c, d, to, from),
           d.state = "Connected", NEW e, e = Disconnect(d),
           NEW t \in Seq(Packet), LeftOf(t, to), NEW f \in Seq(Packet), LeftOf(f, from \o e.out)
    PROVE  Joined(c, AtRest(e), t, f)
<1>1. d \in Sound /\ c \in Circuit /\ Within(d, c, from, to)  BY JoinedFacts
<1>2. e \in Staying(d)  BY <1>1, DisconnectStays
<1>3. Within(e, c, from, to)  BY <1>1, DisconnectWithin
<1>4. Open(d)  BY DEF Open
<1> QED  BY <1>2, <1>3, <1>4, OpenPeer

\* The peer's reader consumes a frame.
LEMMA PeerDrains ==
    ASSUME NEW c, NEW d, NEW to \in Seq(Packet), NEW from \in Seq(Packet), Joined(c, d, to, from),
           NEW e, e = OnDeliveryDrained(d),
           NEW t \in Seq(Packet), LeftOf(t, to), NEW f \in Seq(Packet), LeftOf(f, from \o e.out)
    PROVE  Joined(c, AtRest(e), t, f)
<1>1. d \in Sound /\ d \in Circuit /\ c \in Circuit /\ Within(d, c, from, to) /\ d.out = <<>>
      /\ d.state # "Connecting"
  BY JoinedFacts
<1>2. e \in Staying(d) /\ e \in Evolutions(d)  BY <1>1, OnDeliveryDrainedType, StayingSteps
<1>3. Within(e, c, from, to)  BY <1>1, OnDeliveryDrainedWithin
<1>4. CASE Open(d)  BY <1>2, <1>3, <1>4, OpenPeer
<1>5. CASE ~Open(d)
  <2>1. d.state = "Disconnected"  BY <1>1, <1>5 DEF Open, Circuit, State
  <2>2. e.state = "Disconnected" /\ e.reason = d.reason /\ e.out = <<>>
    BY <1>1, <2>1, ClosedDrained
  <2> QED  BY <1>2, <1>3, <2>1, <2>2, NothingIsNoData, ClosedPeer
<1> QED  BY <1>4, <1>5

\* The peer's timer expires; when it gives up nothing is under way any more.
LEMMA PeerTicks ==
    ASSUME NEW c, NEW d, NEW to \in Seq(Packet), NEW from \in Seq(Packet), Joined(c, d, to, from),
           TimerRunning(d), NEW e, e = Tick(d), RetriesSpent(d) => to = <<>> /\ from = <<>>,
           NEW t \in Seq(Packet), LeftOf(t, to), NEW f \in Seq(Packet), LeftOf(f, from \o e.out)
    PROVE  Joined(c, AtRest(e), t, f)
<1>1. /\ d \in Sound /\ d \in Circuit /\ EndIsSound(d) /\ c \in Circuit /\ Within(d, c, from, to)
      /\ d.out = <<>> /\ d.state # "Connecting" /\ (c.state = "Connecting" => Virgin(c))
  BY JoinedFacts
<1>2. Open(d)  BY <1>1 DEF TimerRunning, EndIsSound, Open
<1>3. e \in Evolutions(d) /\ Within(e, c, from, to)  BY <1>1, TickType, TickWithin
<1>4. CASE ~RetriesSpent(d)  BY <1>1, <1>2, <1>3, <1>4, OpenTick, OpenPeer
<1>5. CASE RetriesSpent(d)
  <2>1. e.reason # "None"  BY <1>1, <1>2, <1>5, OpenTick
  <2>2. e.state = "Disconnected"  BY <1>3, <2>1 DEF Evolutions, Sound, EndIsSound
  <2>3. e.out = <<>>  BY <1>1, <1>5 DEF Tick, Close, Circuit
  <2>4. ~HasRequest(t)  BY <1>5, NothingIsNoData, LeftData
  <2>5. Apart(c, e, t) => Clean(c, to, from) /\ NoData(e.out)
    BY <1>1, <1>5, <2>1, <2>3, <2>4, NothingIsNoData DEF Apart, Clean
  <2>6. Agreed(c, e)
    <3>1. Agreed(c, d)  BY JoinedFacts
    <3> QED  BY <2>2, <3>1 DEF Agreed, Open
  <2> QED  BY <1>3, <2>2, <2>5, <2>6, PeerWithin
<1> QED  BY <1>4, <1>5

\* A packet of the opener reaches the peer registered for it.
LEMMA PeerReceives ==
    ASSUME NEW c, NEW d, NEW to \in Seq(Packet), NEW from \in Seq(Packet), Joined(c, d, to, from),
           to # <<>>, d.reason = "None",
           NEW reaction \in Reaction, NEW e, e = OnPacket(d, to[1], reaction),
           NEW t \in Seq(Packet), LeftOf(t, to), NEW f \in Seq(Packet), LeftOf(f, from \o e.out)
    PROVE  Joined(c, AtRest(e), t, f)
<1> DEFINE p == to[1]
<1>1. /\ d \in Sound /\ d \in Circuit /\ c \in Circuit /\ Within(d, c, from, to)
      /\ d.out = <<>> /\ d.state # "Connecting" /\ Pair(c, d, to, from) /\ d.mintedFor # 0
  BY JoinedFacts
<1>2. p \in Packet /\ 1 \in DOMAIN to /\ DOMAIN to = 1 .. Len(to)  BY PacketFields
<1>3. Shaken(c, to)  BY <1>1 DEF Pair, Direction
<1>4. e \in Evolutions(d) /\ Within(e, c, from, to)  BY <1>1, <1>2, OnPacketType, OnPacketWithin
<1>5. CASE Open(d) /\ e \in Staying(d)  BY <1>4, <1>5, OpenPeer
<1>6. CASE Open(d) /\ e \notin Staying(d)
  <2>1. e.reason # "None"  BY <1>1, <1>6, OpenPacket
  <2>2. p.op # "ConnectRequest"
    <3> SUFFICES ASSUME p.op = "ConnectRequest" PROVE FALSE  OBVIOUS
    <3>1. e = OnConnectRequest(d)  BY DEF OnPacket
    <3>2. OnConnectRequest(d) \in Staying(d)  BY <1>1, OnConnectRequestWithin
    <3> QED  BY <1>6, <3>1, <3>2
  <2>3. c.state # "Connecting"  BY <1>2, <1>3, <2>2 DEF Shaken
  <2>4. ~HasRequest(to)
    <3> SUFFICES ASSUME NEW k \in DOMAIN to, to[k].op = "ConnectRequest" PROVE FALSE
      BY DEF HasRequest
    <3>1. k # 1  BY <2>2
    <3>2. 1 < k  BY <1>2, <3>1
    <3> QED  BY <1>2, <1>3, <2>2, <3>2 DEF Shaken
  <2>5. ~HasRequest(t)  BY <2>4, LeftData
  <2> QED  BY <1>4, <2>1, <2>3, <2>5, ClosingPeer
<1>7. CASE ~Open(d)
  <2>1. d.state = "Disconnected"  BY <1>1, <1>7 DEF Open, Circuit, State
  <2>2. e \in {d, SendDisconnectAcknowledge(d, p.inc)}  BY <1>1, <1>2, <2>1, ClosedPacket
  <2>3. e.state = "Disconnected" /\ NoData(e.out)
    <3>1. CASE e = d  BY <1>1, <2>1, <3>1, NothingIsNoData
    <3>2. CASE e = SendDisconnectAcknowledge(d, p.inc)
      <4>1. NoData(e.out)  BY <1>1, <3>2, AcknowledgeIsNoData
      <4>2. e.state = "Disconnected"
        BY <1>1, <2>1, <3>2 DEF SendDisconnectAcknowledge, Emit, Circuit
      <4> QED  BY <4>1, <4>2
    <3> QED  BY <2>2, <3>1, <3>2
  <2> QED  BY <1>4, <2>1, <2>3, ClosedPeer
<1> QED  BY <1>5, <1>6, <1>7

\* The host accepts a circuit its listener left for later.
LEMMA PeerAccepts ==
    ASSUME NEW c, NEW d, NEW to \in Seq(Packet), NEW from \in Seq(Packet), Joined(c, d, to, from),
           d.state = "Disconnected", d.reason = "None", NEW key \in Key, key = d.peerKey[2],
           NEW win \in Nat, win = Clamp(c.windowSize, 1, MaxWindow),
           NEW e, e = AcceptInbound(d, key, win),
           NEW t \in Seq(Packet), LeftOf(t, to), NEW f \in Seq(Packet), LeftOf(f, from \o e.out)
    PROVE  Joined(c, AtRest(e), t, f)
<1>1. /\ d \in Sound /\ d \in Circuit /\ c \in Circuit /\ Within(d, c, from, to) /\ d.out = <<>>
      /\ d.mintedFor # 0 /\ (Apart(c, d, to) => Clean(c, to, from)) /\ Agreed(c, d)
  BY JoinedFacts
<1>2. Clean(c, to, from)  BY <1>1 DEF Apart
<1>3. \A k \in DOMAIN from : ~IsAccept(from[k])  BY <1>2 DEF Clean, NoData
<1> DEFINE asked == IF win <= 0 THEN d.windowSize ELSE win
<1>4. /\ Within(e, c, from, to) /\ e.state = "Connected"
      /\ e.window = Clamp(Lesser(asked, d.windowSize), 1, MaxWindow)
  BY <1>1, <1>3, AcceptInboundWithin
<1>5. e \in Evolutions(d)  BY <1>1, AcceptInboundType
<1>6. Agreed(c, e)
  <2>1. c.windowSize \in Nat /\ d.windowSize \in Nat /\ e.windowSize = d.windowSize
    BY <1>1, <1>5 DEF Circuit, Evolutions, SameIdentity
  <2> DEFINE a == c.windowSize
             b == d.windowSize
             m == MaxWindow
  <2>2. m \in Nat /\ m >= 1  BY HorizonFacts
  <2>3. e.window = Clamp(Lesser(IF Clamp(a, 1, m) <= 0 THEN b ELSE Clamp(a, 1, m), b), 1, m)
    BY <1>4
  <2> HIDE DEF a, b, m
  <2>4. a \in Nat /\ b \in Nat  BY <2>1 DEF a, b
  <2>5. a >= 1 /\ b >= 1 => e.window <= a /\ e.window <= b
    BY <2>2, <2>3, <2>4 DEF Clamp, Lesser
  <2> QED  BY <1>1, <1>2, <2>1, <2>5 DEF Agreed, Clean, Virgin, Open, a, b
<1>7. ~Apart(c, e, t) /\ e.state # "Connecting"  BY <1>4 DEF Apart
<1> QED  BY <1>4, <1>5, <1>6, <1>7, PeerWithin

\* The host refuses it.
LEMMA PeerRefuses ==
    ASSUME NEW c, NEW d, NEW to \in Seq(Packet), NEW from \in Seq(Packet), Joined(c, d, to, from),
           d.state = "Disconnected", d.reason = "None", NEW key \in Key,
           NEW e, e = [RefuseInbound(d, key) EXCEPT !.reason = "Refused"],
           NEW t \in Seq(Packet), LeftOf(t, to), NEW f \in Seq(Packet), LeftOf(f, from \o e.out)
    PROVE  Joined(c, AtRest(e), t, f)
<1>1. d \in Sound /\ d \in Circuit /\ c \in Circuit /\ Within(d, c, from, to) /\ d.out = <<>>
  BY JoinedFacts
<1>2. e \in Evolutions(d)  BY <1>1, RefuseInboundType
<1>3. Within(e, c, from, to)  BY <1>1, RefuseInboundWithin
<1> DEFINE g == [d EXCEPT !.remoteKey = key]
           b == Blank("ConnectAcknowledge", g.remoteKey, g.inc)
           p == [b EXCEPT !.own = g.localKey, !.choke = TRUE, !.win = 0]
           s == Emit(g, <<p>>)
<1>4. e = [[s EXCEPT !.state = "Disconnected"] EXCEPT !.reason = "Refused"]
  BY DEF RefuseInbound, SendConnectAcknowledge
<1>5. p.op = "ConnectAcknowledge" /\ p.choke  BY DEF Blank
<1>6. g \in Circuit /\ g.out = <<>>  BY ZenonT(60), <1>1 DEF Circuit
<1> HIDE DEF p, g
<1>7. e.out = <<p>> /\ e.state = "Disconnected"
  <2>1. <<>> \o <<p>> = <<p>>  OBVIOUS
  <2> QED  BY <1>4, <1>6, <2>1, ZenonT(60) DEF Emit, Circuit
<1>8. NoData(<<p>>)  BY <1>5 DEF NoData, IsAck, IsAccept
<1> QED  BY <1>2, <1>3, <1>7, <1>8, ClosedPeer

\* The peer's manager acknowledges a Disconnect Request for no circuit.
LEMMA PeerReflects ==
    ASSUME NEW c, NEW d, NEW to \in Seq(Packet), NEW from \in Seq(Packet), Joined(c, d, to, from),
           NEW key \in Key, NEW asker \in Nat,
           NEW p, p = Blank("DisconnectAcknowledge", key, asker),
           NEW t \in Seq(Packet), LeftOf(t, to), NEW f \in Seq(Packet), LeftOf(f, from \o <<p>>)
    PROVE  Joined(c, d, t, f)
<1> DEFINE e == Emit(d, <<p>>)
<1>1. /\ d \in Sound /\ d \in Circuit /\ EndIsSound(d) /\ c \in Circuit /\ Within(d, c, from, to)
      /\ d.out = <<>> /\ d.state # "Connecting" /\ Agreed(c, d)
      /\ Apart(c, d, to) => Clean(c, to, from)
  BY JoinedFacts
<1>2. p \in Packet /\ p.op = "DisconnectAcknowledge" /\ NoData(<<p>>)  BY ReflectedIs
<1>3. /\ AtRest(e) = d /\ e.out = <<p>> /\ e.state = d.state /\ e.window = d.window
      /\ e.windowSize = d.windowSize /\ e.reason = d.reason /\ e \in Evolutions(d)
  BY <1>1, <1>2, EmitAtRest
<1>4. Within(e, c, from, to)
  <2>1. Timely(d, p)  BY <1>1, <1>2 DEF Timely, IsAck, IsInfo, IsAccept
  <2> QED  BY <1>1, <1>2, <2>1, EmitOneWithin
<1> HIDE DEF e
<1>5. Agreed(c, e)  BY <1>1, <1>3 DEF Agreed, Open
<1>6. HasRequest(t) => HasRequest(to)  BY LeftData
<1>7. Apart(c, e, t) => Clean(c, to, from) /\ NoData(e.out)  BY <1>1, <1>2, <1>3, <1>6 DEF Apart
<1>8. Joined(c, AtRest(e), t, f)  BY <1>1, <1>3, <1>4, <1>5, <1>7, PeerWithin
<1> QED  BY <1>3, <1>8

-----------------------------------------------------------------------------
(* New ends *)

\* Nothing can be wrong about ends without data.
LEMMA VirginDirection ==
    ASSUME NEW s \in Sound, NEW r \in Sound, Virgin(s), Virgin(r),
           NEW fwd, NEW back, NoData(fwd), NoData(back), Shaken(s, fwd)
    PROVE  Direction(s, r, fwd, back)
<1>1. /\ s.unacked = <<>> /\ s.sendQueue = <<>> /\ s.sent = <<>> /\ s.vs = 0 /\ s.va = 0
      /\ s.state # "Connected" /\ r.got = <<>> /\ r.reassembly = <<>> /\ r.vr = 0
  BY DEF Sound, EndIsSound, Virgin
<1>2. 0 % Modulus = 0
  <2>1. 0 \in 0 .. Modulus - 1  BY ModulusAssumption
  <2> QED  BY <2>1, ModSmall
<1>3. Transmitted(s) = 0 /\ Acknowledged(s) = 0
  <2>1. Len(s.unacked) = 0 /\ Len(s.sendQueue) = 0 /\ Len(s.sent) = 0  BY <1>1
  <2> QED  BY <2>1 DEF Transmitted, Acknowledged
<1>4. Accepted(r) = 0  BY <1>1 DEF Accepted
<1>5. Numbered(s)  BY <1>1, <1>2, <1>3, HorizonFacts DEF Numbered
<1>6. Assembled(r, s)  BY <1>1, <1>2, <1>3, <1>4 DEF Assembled
<1>7. Carried(s, r, fwd)  BY DEF Carried, NoData, IsInfo, IsAck
<1>8. Returned(s, r, back)  BY <1>3, <1>4 DEF Returned, NoData
<1> QED  BY <1>5, <1>6, <1>7, <1>8 DEF Direction

\* A circuit is minted for a Connect Request after the one before it closed.
LEMMA PeerIsMinted ==
    ASSUME NEW c, NEW d, NEW to \in Seq(Packet), NEW from \in Seq(Packet), Joined(c, d, to, from),
           Apart(c, d, to),
           NEW e \in Sound, Virgin(e), e.state = "Disconnected", e.reason = "None", e.out = <<>>,
           e.mintedFor # 0, e.peerKey[2] = c.localKey
    PROVE  Joined(c, e, to, from)
<1>1. /\ c \in Sound /\ c.mintedFor = 0 /\ c.out = <<>> /\ Pair(c, d, to, from)
      /\ d.mintedFor # 0 /\ d.peerKey[2] = c.localKey
      /\ Clean(c, to, from) /\ Agreed(c, d) /\ (c.state = "Connecting" => Virgin(c))
  BY JoinedFacts
<1>2. Roles(c, e)  BY <1>1 DEF Roles
<1>3. Shaken(c, to) /\ Shaken(d, from)  BY <1>1 DEF Pair, Direction
<1>4. Shaken(e, from)
  <2>1. \A k \in DOMAIN from : from[k].op # "ConnectRequest" /\ ~IsAccept(from[k])
    BY <1>1, <1>3 DEF Shaken, Clean, NoData
  <2>2. \A k \in DOMAIN from : from[k].op = "DisconnectRequest" => from[k].key = e.peerKey[2]
    BY <1>1, <1>3 DEF Shaken
  <2> QED  BY <2>1, <2>2 DEF Shaken, Open
<1>5. Pair(c, e, to, from)  BY <1>1, <1>3, <1>4, VirginDirection DEF Clean, Pair
<1>6. Agreed(c, e)  BY <1>1 DEF Agreed, Open
<1> QED  BY <1>1, <1>2, <1>5, <1>6 DEF Joined

\* openCircuit's circuit, and no other end yet.
LEMMA OpenerIsNew ==
    ASSUME NEW n \in Node, NEW m \in Node, NEW k \in Key, NEW w \in Nat, NEW inc \in Nat,
           NEW e, e = Connect(NewCircuit(n, m, k, NoPeerKey, w, inc, 0)),
           NEW d \in Sound, Virgin(d), d.state = "Disconnected", d.out = <<>>,
           d.mintedFor # 0, d.peerKey[2] = k,
           NEW t \in Seq(Packet), LeftOf(t, <<>> \o e.out)
    PROVE  Joined(AtRest(e), d, t, <<>>)
<1> DEFINE b == NewCircuit(n, m, k, NoPeerKey, w, inc, 0)
           c == [b EXCEPT !.state = "Connecting", !.retries = 0, !.armed = TRUE]
           r == Blank("ConnectRequest", b.localKey, b.inc)
           p == [r EXCEPT !.win = Clamp(b.windowSize, 1, MaxWindow)]
<1>1. /\ b \in Sound /\ b.reason = "None" /\ b.state = "Disconnected"  BY OpenedType
<1>2. /\ b.out = <<>> /\ Virgin(b) /\ b.mintedFor = 0 /\ b.localKey = k /\ b.window = b.windowSize
  BY DEF NewCircuit, Virgin
<1>3. e = [Emit(b, <<p>>) EXCEPT !.state = "Connecting", !.retries = 0, !.armed = TRUE]
  BY <1>1 DEF Connect, SendConnectRequest
<1>4. e \in Evolutions(b)  BY <1>1, ConnectType
<1> HIDE DEF b
<1>5. b \in Circuit  BY <1>1 DEF Sound
<1>6. c \in Evolutions(b)  BY <1>1, AwaitType, 0 \in Nat
<1>7. c \in Sound /\ c \in Circuit  BY <1>6 DEF Evolutions, Sound
<1>8. /\ c.out = <<>> /\ Virgin(c) /\ c.mintedFor = 0 /\ c.localKey = k /\ c.state = "Connecting"
      /\ c.inc = b.inc /\ c.windowSize = b.windowSize /\ c.window = c.windowSize
  BY <1>2, <1>5 DEF Circuit, Virgin
<1>9. e.out = <<p>> /\ SameStream(c, e) /\ SameHand(c, e)
  <2>1. <<>> \o <<p>> = <<p>>  OBVIOUS
  <2> HIDE DEF p
  <2> QED  BY <1>2, <1>3, <1>5, <2>1, ZenonT(60) DEF Emit, Circuit, SameStream, SameHand, Open
<1>10. e \in Circuit /\ e \in Sound  BY <1>4 DEF Evolutions, Sound
<1>11. p \in Packet /\ p.op = "ConnectRequest" /\ p.key = c.localKey /\ p.inc = c.inc
       /\ p.win = Clamp(c.windowSize, 1, MaxWindow)
  <2>1. e.out \in Seq(Packet)  BY <1>10, Fields
  <2>2. p \in Packet
    <3> HIDE DEF p, c
    <3>1. <<p>> \in Seq(Packet)  BY <1>9, <2>1
    <3>2. <<p>>[1] = p /\ 1 \in DOMAIN <<p>>  OBVIOUS
    <3> QED  BY ONLY <3>1, <3>2
  <2>3. /\ p.op = "ConnectRequest" /\ p.key = b.localKey /\ p.inc = b.inc
        /\ p.win = Clamp(b.windowSize, 1, MaxWindow)
    BY DEF Blank
  <2> HIDE DEF p, c
  <2> QED  BY <1>2, <1>8, <2>2, <2>3
<1> HIDE DEF p, c
<1>12. Pair(c, d, <<>>, <<>>)
  <2>1. Shaken(c, <<>>) /\ Shaken(d, <<>>)  BY <1>8 DEF Shaken, Open
  <2> QED  BY <1>7, <1>8, <2>1, NothingIsNoData, VirginDirection DEF Pair
<1>13. d \in Circuit /\ <<>> \in Seq(Packet)  BY DEF Sound
<1>14. Pair(c, d, <<>> \o <<p>>, <<>>)  BY <1>7, <1>8, <1>11, <1>12, <1>13, RequestPair
<1>15. Pair(e, d, <<>> \o e.out, <<>>)  BY <1>9, <1>14, SamePair
<1>16. Pair(AtRest(e), d, t, <<>>)
  <2>1. LeftOf(<<>>, <<>>)  BY <1>13, LeftSelf
  <2> QED  BY <1>10, <1>13, <1>15, <2>1, RestPair
<1>17. e.state = "Connecting" /\ Virgin(e) /\ e.window = e.windowSize /\ e.mintedFor = 0
       /\ e.localKey = k
  BY <1>2, <1>3, <1>5, ZenonT(60) DEF Emit, Circuit, Virgin
<1>18. /\ AtRest(e) \in Sound /\ AtRest(e).out = <<>> /\ SameIdentity(e, AtRest(e))
       /\ AtRest(e).state = e.state /\ AtRest(e).window = e.window
       /\ AtRest(e).windowSize = e.windowSize /\ Virgin(AtRest(e))
  BY <1>10, <1>17, RestFields
<1>19. NoData(t)
  <2>1. NoData(<<p>>)  BY <1>11 DEF NoData, IsAck, IsAccept
  <2>2. <<>> \o e.out = <<p>> /\ <<p>> \in Seq(Packet)  BY <1>9, <1>11
  <2> QED  BY <2>1, <2>2, LeftData
<1>20. Roles(AtRest(e), d)  BY <1>17, <1>18 DEF Roles, SameIdentity
<1>21. Agreed(AtRest(e), d)  BY <1>17, <1>18 DEF Agreed, Open
<1> QED  BY <1>16, <1>18, <1>19, <1>20, <1>21, NothingIsNoData DEF Joined, Clean



-----------------------------------------------------------------------------
(* Hanging up: what an end says of its departure *)

PacketsIn(q) == {q[k] : k \in DOMAIN q}

\* An end that asked for the disconnect, or has closed.
Leaving(s) == s.state = "Disconnecting" \/ s.reason # "None"

IsHangUp(p) == p.op \in {"DisconnectRequest", "DisconnectAcknowledge"}
NoHangUp(q) == \A p \in PacketsIn(q) : ~IsHangUp(p)

\* What the packets of a handler that left e behind tell the peer.
Tells(e, p) ==
    /\ p.op = "DisconnectRequest" => e.state = "Disconnecting" /\ p.key = e.remoteKey
    /\ p.op = "DisconnectAcknowledge" => e.reason # "None"
    /\ IsAccept(p) => p.own = e.localKey

\* A handler that s ran leaves e: who is leaving stays so, keeps the key of the
\* peer, and closes with a reason.
Departs(s, e) ==
    /\ Leaving(s) => Leaving(e)
    /\ s.reason # "None" => e.reason # "None"
    /\ Open(s) => e.remoteKey = s.remoteKey
    /\ e.state = "Disconnected" => s.state = "Disconnected" \/ e.reason # "None"
    /\ \A p \in PacketsIn(e.out) : Tells(e, p)

\* An emitted packet joins those carried, and nothing else does.
LEMMA PacketsInFacts ==
    ASSUME NEW a \in Seq(Packet), NEW b \in Seq(Packet)
    PROVE  /\ PacketsIn(<<>>) = {}
           /\ \A p : PacketsIn(<<p>>) = {p}
           /\ PacketsIn(a \o b) = PacketsIn(a) \cup PacketsIn(b)
           /\ \A t \in Seq(Packet) : LeftOf(t, a) => PacketsIn(t) \subseteq PacketsIn(a)
           /\ \A t \in Seq(Packet) :
                 LeftOf(t, a \o b) => PacketsIn(t) \subseteq PacketsIn(a) \cup PacketsIn(b)
<1>1. PacketsIn(<<>>) = {} /\ \A p : PacketsIn(<<p>>) = {p}  BY DEF PacketsIn
<1>2. PacketsIn(a \o b) = PacketsIn(a) \cup PacketsIn(b)
  <2>1. \A k \in DOMAIN (a \o b) :
           \/ \E i \in DOMAIN a : (a \o b)[k] = a[i]
           \/ \E i \in DOMAIN b : (a \o b)[k] = b[i]
    BY CatAt
  <2>2. /\ \A k \in DOMAIN a : k \in DOMAIN (a \o b) /\ (a \o b)[k] = a[k]
        /\ \A k \in DOMAIN b : Len(a) + k \in DOMAIN (a \o b) /\ (a \o b)[Len(a) + k] = b[k]
    <3>1. /\ DOMAIN a = 1 .. Len(a) /\ DOMAIN b = 1 .. Len(b) /\ Len(a) \in Nat /\ Len(b) \in Nat
          /\ DOMAIN (a \o b) = 1 .. Len(a) + Len(b)
          /\ \A k \in 1 .. Len(a) + Len(b) :
                (a \o b)[k] = IF k <= Len(a) THEN a[k] ELSE b[k - Len(a)]
      OBVIOUS
    <3>2. \A k \in 1 .. Len(b) : Len(a) + k > Len(a) /\ (Len(a) + k) - Len(a) = k
                              /\ Len(a) + k \in 1 .. Len(a) + Len(b)
      BY <3>1
    <3> QED  BY <3>1, <3>2
  <2> DEFINE q == a \o b
  <2>3. /\ \A k \in DOMAIN q : (\E i \in DOMAIN a : q[k] = a[i]) \/ (\E i \in DOMAIN b : q[k] = b[i])
        /\ \A k \in DOMAIN a : \E l \in DOMAIN q : q[l] = a[k]
        /\ \A k \in DOMAIN b : \E l \in DOMAIN q : q[l] = b[k]
    BY <2>1, <2>2
  <2> HIDE DEF q
  <2>4. PacketsIn(q) \subseteq PacketsIn(a) \cup PacketsIn(b)
    <3> SUFFICES ASSUME NEW k \in DOMAIN q PROVE q[k] \in PacketsIn(a) \cup PacketsIn(b)
      BY DEF PacketsIn
    <3>1. CASE \E i \in DOMAIN a : q[k] = a[i]  BY <3>1 DEF PacketsIn
    <3>2. CASE \E i \in DOMAIN b : q[k] = b[i]  BY <3>2 DEF PacketsIn
    <3> QED  BY <2>3, <3>1, <3>2
  <2>5. PacketsIn(a) \subseteq PacketsIn(q)
    <3> SUFFICES ASSUME NEW k \in DOMAIN a PROVE a[k] \in PacketsIn(q)  BY DEF PacketsIn
    <3> QED  BY <2>3 DEF PacketsIn
  <2>6. PacketsIn(b) \subseteq PacketsIn(q)
    <3> SUFFICES ASSUME NEW k \in DOMAIN b PROVE b[k] \in PacketsIn(q)  BY DEF PacketsIn
    <3> QED  BY <2>3 DEF PacketsIn
  <2> QED  BY <2>4, <2>5, <2>6 DEF q
<1>3. ASSUME NEW q \in Seq(Packet), NEW t \in Seq(Packet), LeftOf(t, q)
      PROVE  PacketsIn(t) \subseteq PacketsIn(q)
  <2>1. \A k \in DOMAIN t : \E j \in DOMAIN q : t[k] = q[j]  BY <1>3, LeftOrder
  <2> QED  BY <2>1 DEF PacketsIn
<1>4. a \o b \in Seq(Packet)  BY CatType
<1> QED  BY <1>1, <1>2, <1>3, <1>4

\* An end at rest has nothing to tell.
LEMMA DepartsSelf ==
    ASSUME NEW s \in Sound, s.out = <<>>
    PROVE  Departs(s, s) /\ NoHangUp(s.out) /\ ~HasRequest(s.out)
<1>1. PacketsIn(s.out) = {}  BY DEF PacketsIn
<1> QED  BY <1>1, NothingIsNoData DEF Departs, NoHangUp

\* Data and its acknowledgements tell nothing of a departure.
LEMMA DepartsOn ==
    ASSUME NEW s, NEW e, Departs(s, e), NEW f \in DataSteps(e) PROVE Departs(s, f)
<1>1. /\ f.state = e.state /\ f.reason = e.reason /\ f.remoteKey = e.remoteKey
      /\ f.localKey = e.localKey
      /\ \A k \in DOMAIN f.out : IsAck(f.out[k]) \/ \E j \in DOMAIN e.out : f.out[k] = e.out[j]
  BY DEF DataSteps, SameState, Chats, Evolutions, SameIdentity
<1>2. \A p \in PacketsIn(f.out) : IsAck(p) \/ p \in PacketsIn(e.out)  BY <1>1 DEF PacketsIn
<1>3. \A p \in PacketsIn(f.out) : Tells(f, p)
  BY <1>1, <1>2 DEF Departs, Tells, IsAck, IsAccept
<1> QED  BY <1>1, <1>3 DEF Departs, Leaving

\* Nor does a handler that only moves data.
LEMMA DataDeparts ==
    ASSUME NEW s \in Sound, s.out = <<>>, NEW f \in DataSteps(s)
    PROVE  Departs(s, f) /\ NoHangUp(f.out) /\ ~HasRequest(f.out)
<1>1. Departs(s, f)  BY DepartsSelf, DepartsOn
<1>2. \A k \in DOMAIN f.out : IsAck(f.out[k])  BY DEF DataSteps, Chats
<1> QED  BY <1>1, <1>2 DEF NoHangUp, IsHangUp, HasRequest, PacketsIn, IsAck

\* close, with its reason.
LEMMA CloseDeparts ==
    ASSUME NEW s \in Sound, s.out = <<>>, s.state # "Disconnected",
           NEW reason \in Reason \ {"None"}
    PROVE  LET e == Close(s, reason)
           IN  /\ Departs(s, e) /\ e.state = "Disconnected" /\ e.reason = reason
               /\ e.out = <<>> /\ e.remoteKey = s.remoteKey /\ e.localKey = s.localKey
<1> DEFINE e == Close(s, reason)
<1>1. /\ e.state = "Disconnected" /\ e.reason = reason
      /\ e.out = <<>> /\ e.remoteKey = s.remoteKey /\ e.localKey = s.localKey
  BY DEF Close, Sound, Circuit
<1>2. PacketsIn(e.out) = {}  BY <1>1 DEF PacketsIn
<1> QED  BY <1>1, <1>2 DEF Departs, Leaving

\* A connected end that disconnects tells its peer so.
LEMMA DisconnectDeparts ==
    ASSUME NEW s \in Sound, NEW c \in Sound, c.state = "Connected", Departs(s, c)
    PROVE  /\ Departs(s, Disconnect(c)) /\ Disconnect(c).state = "Disconnecting"
           /\ Disconnect(c).reason = "None"
           /\ PacketsIn(Disconnect(c).out)
                 = PacketsIn(c.out) \cup {Blank("DisconnectRequest", c.remoteKey, c.inc)}
<1> DEFINE e == Disconnect(c)
           p == Blank("DisconnectRequest", c.remoteKey, c.inc)
<1>1. c \in Circuit /\ EndIsSound(c) /\ c.out \in Seq(Packet)  BY DEF Sound, Circuit
<1>2. p \in Packet /\ p.op = "DisconnectRequest" /\ p.key = c.remoteKey
  <2>1. c.remoteKey \in Key /\ c.inc \in Nat  BY <1>1 DEF Circuit
  <2>2. p.op = "DisconnectRequest" /\ p.key = c.remoteKey  BY DEF Blank
  <2> QED  BY <2>1, <2>2, BlankType DEF Opcode
<1>3. c.reason = "None"  BY <1>1 DEF EndIsSound
<1>4. e = [[c EXCEPT !.out = c.out \o <<p>>] EXCEPT !.state = "Disconnecting", !.retries = 0,
                                                   !.armed = TRUE]
  BY DEF Disconnect, SendDisconnectRequest, Emit
<1> HIDE DEF e, p
<1>5. /\ e.state = "Disconnecting" /\ e.reason = "None" /\ e.out = c.out \o <<p>>
      /\ e.remoteKey = c.remoteKey /\ e.localKey = c.localKey
  BY <1>1, <1>3, <1>4, ZenonT(60) DEF Circuit
<1>6. PacketsIn(e.out) = PacketsIn(c.out) \cup {p}
  <2>1. <<p>> \in Seq(Packet)  BY <1>2
  <2> DEFINE x == c.out
             y == <<p>>
  <2>2. x \in Seq(Packet) /\ y \in Seq(Packet)  BY <1>1, <2>1
  <2>3. PacketsIn(y) = {p}  BY DEF PacketsIn
  <2> HIDE DEF x, y
  <2>4. PacketsIn(x \o y) = PacketsIn(x) \cup PacketsIn(y)  BY <2>2, PacketsInFacts
  <2> QED  BY <1>5, <2>3, <2>4 DEF x, y
<1>7. \A q \in PacketsIn(c.out) : Tells(e, q)
  BY <1>3, <1>5 DEF Departs, Tells
<1>8. Tells(e, p)  BY <1>2, <1>5 DEF Tells, IsAccept
<1>9. Departs(s, e)  BY <1>3, <1>5, <1>6, <1>7, <1>8 DEF Departs, Leaving
<1> QED  BY <1>5, <1>6, <1>9 DEF e, p

\* One packet is all an end at rest emits.
LEMMA EmitDeparts ==
    ASSUME NEW s \in Sound, NEW c \in Circuit, c.out = <<>>, c.state = s.state,
           c.reason = s.reason, c.remoteKey = s.remoteKey \/ ~Open(s),
           NEW p \in Packet, Tells(c, p), NEW e, e = Emit(c, <<p>>)
    PROVE  /\ Departs(s, e) /\ e.out = <<p>> /\ PacketsIn(e.out) = {p}
           /\ e.state = c.state /\ e.reason = c.reason /\ e.remoteKey = c.remoteKey
<1>1. e = [c EXCEPT !.out = <<p>>]
  <2>1. <<>> \o <<p>> = <<p>>  OBVIOUS
  <2> QED  BY <2>1 DEF Emit
<1>2. /\ e.out = <<p>> /\ e.state = c.state /\ e.reason = c.reason
      /\ e.remoteKey = c.remoteKey /\ e.localKey = c.localKey
  BY <1>1, ZenonT(60) DEF Circuit
<1>3. PacketsIn(e.out) = {p}  BY <1>2 DEF PacketsIn
<1>4. Tells(e, p)  BY <1>2 DEF Tells
<1> QED  BY <1>2, <1>3, <1>4 DEF Departs, Leaving

\* Nor does a packet that asks or answers.
LEMMA EmitOneDeparts ==
    ASSUME NEW s \in Sound, s.out = <<>>, NEW p \in Packet, Tells(s, p), NEW e, e = Emit(s, <<p>>)
    PROVE  /\ Departs(s, e) /\ PacketsIn(e.out) = {p} /\ e.state = s.state /\ e.reason = s.reason
           /\ ~IsHangUp(p) => NoHangUp(e.out)
           /\ p.op # "ConnectRequest" => ~HasRequest(e.out)
<1>1. s \in Circuit  BY DEF Sound
<1>2. /\ Departs(s, e) /\ e.out = <<p>> /\ PacketsIn(e.out) = {p}
      /\ e.state = s.state /\ e.reason = s.reason
  BY <1>1, EmitDeparts
<1> QED  BY <1>2 DEF NoHangUp, HasRequest, PacketsIn

\* What a packet makes of an end that has not closed: it closes normally only
\* on a Disconnect Request or its acknowledgement.
PacketParts(s, p, e) ==
    /\ Departs(s, e) /\ ~HasRequest(e.out)
    /\ e.reason = "Normal" => IsHangUp(p)
    /\ e.state = "Connecting" => s.state = "Connecting"
    /\ Open(e) => Open(s) \/ (IsAccept(p) /\ e.remoteKey = p.own)
    /\ Open(s) => Open(e) \/ IsHangUp(p)
    /\ ~Open(s) /\ ~IsHangUp(p) /\ ~IsAccept(p) => NoHangUp(e.out)
    /\ s.state = "Disconnected" => e = s

LEMMA DataParts ==
    ASSUME NEW s \in Sound, s.out = <<>>, s.reason = "None", s.state # "Disconnected",
           NEW p \in Packet, NEW e \in DataSteps(s)
    PROVE  PacketParts(s, p, e)
<1>1. Departs(s, e) /\ NoHangUp(e.out) /\ ~HasRequest(e.out)  BY DataDeparts
<1>2. e.state = s.state /\ e.reason = s.reason  BY DEF DataSteps, SameState
<1> QED  BY <1>1, <1>2 DEF PacketParts, Open

LEMMA SelfParts ==
    ASSUME NEW s \in Sound, s.out = <<>>, s.reason = "None", NEW p
    PROVE  PacketParts(s, p, s)
BY DepartsSelf DEF PacketParts

\* A Connect Acknowledge.
LEMMA AcknowledgeParts ==
    ASSUME NEW s \in Sound, s.out = <<>>, s.reason = "None", NEW p \in Packet,
           p.op = "ConnectAcknowledge"
    PROVE  PacketParts(s, p, OnConnectAcknowledge(s, p))
<1> DEFINE key == p.own
           x == [s EXCEPT !.remoteKey = key, !.armed = FALSE]
           w == IF p.win \in 1 .. MaxWindow THEN Lesser(s.window, p.win) ELSE s.window
           g == [s EXCEPT !.remoteKey = key, !.state = "Connected", !.window = w, !.armed = FALSE]
           e == OnConnectAcknowledge(s, p)
<1>1. s \in Circuit /\ EndIsSound(s) /\ key \in Key /\ s.window \in Nat /\ p.win \in Nat
  BY PacketFields DEF Sound, Circuit
<1>2. CASE s.state # "Connecting"
  <2>1. e = s  BY <1>2 DEF OnConnectAcknowledge
  <2> QED  BY <2>1, SelfParts
<1>3. CASE s.state = "Connecting" /\ p.choke
  <2>1. e = Close(x, "Refused")  BY <1>3 DEF OnConnectAcknowledge
  <2> HIDE DEF e, key
  <2>2. e.state = "Disconnected" /\ e.reason = "Refused" /\ e.out = <<>>
    BY <1>1, <1>3, <2>1 DEF Close, Circuit
  <2>3. PacketsIn(e.out) = {} /\ ~HasRequest(e.out)  BY <2>2, NothingIsNoData DEF PacketsIn
  <2>4. Departs(s, e)  BY <1>3, <2>2, <2>3 DEF Departs, Leaving, Open
  <2>5. PacketParts(s, p, e)  BY <1>3, <2>2, <2>3, <2>4 DEF PacketParts, Open, NoHangUp
  <2> QED  BY <2>5 DEF e
<1>4. CASE s.state = "Connecting" /\ ~p.choke
  <2>1. IsAccept(p)  BY <1>4 DEF IsAccept
  <2>2. e = Pump(g)  BY <1>1, <1>4 DEF OnConnectAcknowledge, Circuit
  <2>3. w \in Nat  BY <1>1, HorizonFacts DEF Lesser
  <2> HIDE DEF w, key, e
  <2>4. /\ g.state = "Connected" /\ g.reason = "None" /\ g.remoteKey = key /\ g.out = <<>>
    BY <1>1 DEF Circuit
  <2>5. g \in Evolutions(s)
    <3>1. s.state \in {"Disconnected", "Connecting"}  BY <1>4
    <3> HIDE DEF g
    <3> QED  BY ONLY <1>1, <2>3, <3>1, s \in Sound, s.reason = "None", EstablishType DEF g
  <2>6. g \in Sound  BY <2>5, Transitivity
  <2> HIDE DEF g
  <2>7. e \in DataSteps(g)  BY <2>2, <2>6, PumpType
  <2>8. e.state = "Connected" /\ e.reason = "None" /\ e.remoteKey = key /\ ~HasRequest(e.out)
    BY <2>4, <2>6, <2>7, DataDeparts DEF DataSteps, SameState, Chats
  <2>9. PacketsIn(g.out) = {}  BY <2>4 DEF PacketsIn
  <2>10. Departs(s, g)  BY <1>4, <2>4, <2>9 DEF Departs, Leaving, Open
  <2>11. Departs(s, e)  BY <2>7, <2>10, DepartsOn
  <2>12. PacketParts(s, p, e)
    BY <1>4, <2>1, <2>8, <2>11 DEF PacketParts, Open, key
  <2> QED  BY <2>12 DEF e
<1> QED  BY <1>2, <1>3, <1>4

\* A Disconnect Request is acknowledged, and closes.
LEMMA DisconnectParts ==
    ASSUME NEW s \in Sound, s.out = <<>>, s.reason = "None", s.state # "Disconnected",
           NEW p \in Packet, p.op = "DisconnectRequest"
    PROVE  PacketParts(s, p, OnDisconnectRequest(s, p))
<1> DEFINE q == Blank("DisconnectAcknowledge", s.remoteKey, p.inc)
           x == Emit(s, <<q>>)
           e == OnDisconnectRequest(s, p)
<1>1. s \in Circuit /\ s.remoteKey \in Key /\ p.inc \in Nat  BY PacketFields DEF Sound, Circuit
<1>2. q.op = "DisconnectAcknowledge"  BY DEF Blank
<1>3. e = Close(x, "Normal")  BY DEF OnDisconnectRequest, SendDisconnectAcknowledge
<1>4. IsHangUp(p)  BY DEF IsHangUp
<1> HIDE DEF q, e
<1>5. /\ x.state = s.state /\ x.out = <<q>> /\ x.remoteKey = s.remoteKey
      /\ x.localKey = s.localKey /\ x = [s EXCEPT !.out = <<q>>]
  <2>1. <<>> \o <<q>> = <<q>>  OBVIOUS
  <2> QED  BY <1>1, <2>1, ZenonT(60) DEF Emit, Circuit
<1> HIDE DEF x
<1>6. /\ e.state = "Disconnected" /\ e.reason = "Normal" /\ e.out = <<q>>
      /\ e.remoteKey = s.remoteKey /\ e.localKey = s.localKey
  BY <1>1, <1>3, <1>5, ZenonT(60) DEF Close, Circuit
<1>7. PacketsIn(e.out) = {q} /\ ~HasRequest(e.out)  BY <1>2, <1>6 DEF PacketsIn, HasRequest
<1>8. Tells(e, q)  BY <1>2, <1>6 DEF Tells, IsAccept
<1>9. Departs(s, e)  BY <1>6, <1>7, <1>8 DEF Departs, Leaving
<1>10. PacketParts(s, p, e)  BY <1>4, <1>6, <1>7, <1>9 DEF PacketParts, Open
<1> QED  BY <1>10 DEF e

\* An Information message, whose reader may write or disconnect.
LEMMA InformationParts ==
    ASSUME NEW s \in Sound, s.out = <<>>, s.reason = "None", NEW p \in Packet,
           p.op = "Information", NEW reaction \in Reaction
    PROVE  PacketParts(s, p, OnInformation(s, p, reaction))
<1> DEFINE e == OnInformation(s, p, reaction)
<1>1. CASE s.state # "Connected"
  <2>1. e = s  BY <1>1 DEF OnInformation
  <2> QED  BY <2>1, SelfParts
<1>2. CASE s.state = "Connected"
  <2>1. e \in Outcomes(s)  BY OnInformationType
  <2>2. PICK a \in DataSteps(s) : e \in DataSteps(a) \cup DataSteps(Disconnect(a))
    BY <2>1 DEF Outcomes
  <2> HIDE DEF e
  <2>3. CASE e \in DataSteps(a)
    <3>1. e \in DataSteps(s)  BY <2>3, Transitivity
    <3> QED  BY <1>2, <3>1, DataParts DEF e
  <2>4. CASE e \in DataSteps(Disconnect(a))
    <3>1. a \in Sound /\ a.state = "Connected" /\ Departs(s, a) /\ ~HasRequest(a.out)
      BY <1>2, Transitivity, DataDeparts DEF DataSteps, SameState
    <3> DEFINE b == Disconnect(a)
               q == Blank("DisconnectRequest", a.remoteKey, a.inc)
    <3>2. /\ Departs(s, b) /\ b.state = "Disconnecting" /\ b.reason = "None"
          /\ PacketsIn(b.out) = PacketsIn(a.out) \cup {q} /\ q.op = "DisconnectRequest"
      BY <3>1, DisconnectDeparts DEF Blank
    <3> HIDE DEF b, q
    <3>3. ~HasRequest(b.out)  BY <3>1, <3>2 DEF HasRequest, PacketsIn
    <3>4. e \in DataSteps(b)  BY <2>4 DEF b
    <3>5. e.state = "Disconnecting" /\ e.reason = "None"
      BY <3>2, <3>4 DEF DataSteps, SameState
    <3>6. ~HasRequest(e.out)  BY <3>3, <3>4 DEF DataSteps, Chats, HasRequest, IsAck
    <3>7. Departs(s, e)  BY <3>2, <3>4, DepartsOn
    <3>8. PacketParts(s, p, e)  BY <1>2, <3>5, <3>6, <3>7 DEF PacketParts, Open
    <3> QED  BY <3>8 DEF e
  <2> QED  BY <2>2, <2>3, <2>4
<1> QED  BY <1>1, <1>2

\* Any packet.  What reaches a closed end that is still registered is no
\* Disconnect Request.
LEMMA PacketDeparts ==
    ASSUME NEW s \in Sound, s.out = <<>>, s.reason = "None", NEW p \in Packet,
           s.state = "Disconnected" => p.op # "DisconnectRequest",
           NEW reaction \in Reaction
    PROVE  PacketParts(s, p, OnPacket(s, p, reaction))
<1>1. s \in Circuit /\ p.op \in Opcode  BY PacketFields DEF Sound
<1>2. CASE p.op = "ConnectRequest"
  <2>1. OnPacket(s, p, reaction) = OnConnectRequest(s)  BY <1>2 DEF OnPacket
  <2>2. CASE s.state # "Connected"
    BY <2>1, <2>2, SelfParts DEF OnConnectRequest
  <2>3. CASE s.state = "Connected"
    <3> DEFINE b == Blank("ConnectAcknowledge", s.remoteKey, s.inc)
               q == [b EXCEPT !.own = s.localKey, !.choke = FALSE, !.win = s.window]
               e == Emit(s, <<q>>)
    <3>1. OnConnectRequest(s) = e
      BY <2>3 DEF OnConnectRequest, SendConnectAcknowledge
    <3>2. q \in Packet /\ q.op = "ConnectAcknowledge" /\ q.own = s.localKey
      <4>1. s.remoteKey \in Key /\ s.inc \in Nat /\ s.localKey \in Key /\ s.window \in Nat
        BY <1>1 DEF Circuit
      <4>2. b \in Packet /\ b.op = "ConnectAcknowledge"  BY <4>1, BlankType DEF Opcode, Blank
      <4> HIDE DEF b
      <4> QED  BY <4>1, <4>2 DEF Packet
    <3> HIDE DEF q
    <3>3. Tells(s, q) /\ ~IsHangUp(q)  BY <3>2 DEF Tells, IsHangUp
    <3>4. Departs(s, e) /\ e.state = s.state /\ e.reason = s.reason /\ ~HasRequest(e.out)
      BY <3>2, <3>3, EmitOneDeparts
    <3>5. PacketParts(s, p, e)  BY <2>3, <3>4 DEF PacketParts, Open
    <3> QED  BY <2>1, <3>1, <3>5
  <2> QED  BY <2>2, <2>3
<1>3. CASE p.op = "ConnectAcknowledge"  BY <1>3, AcknowledgeParts DEF OnPacket
<1>4. CASE p.op = "DisconnectRequest"  BY <1>4, DisconnectParts DEF OnPacket
<1>5. CASE p.op = "DisconnectAcknowledge"
  <2> DEFINE e == Close(s, "Normal")
  <2>1. OnPacket(s, p, reaction) = OnDisconnectAcknowledge(s)  BY <1>5 DEF OnPacket
  <2>2. CASE s.state # "Disconnecting"
    BY <2>1, <2>2, SelfParts DEF OnDisconnectAcknowledge
  <2>3. CASE s.state = "Disconnecting"
    <3>1. OnPacket(s, p, reaction) = e  BY <2>1, <2>3 DEF OnDisconnectAcknowledge
    <3>2. Departs(s, e) /\ e.state = "Disconnected" /\ e.reason = "Normal" /\ e.out = <<>>
      BY <2>3, CloseDeparts DEF Reason
    <3>3. IsHangUp(p)  BY <1>5 DEF IsHangUp
    <3> HIDE DEF e
    <3>4. PacketParts(s, p, e)
      BY <2>3, <3>2, <3>3, NothingIsNoData DEF PacketParts, Open
    <3> QED  BY <3>1, <3>4
  <2> QED  BY <2>2, <2>3
<1>6. CASE p.op = "Information"  BY <1>6, InformationParts DEF OnPacket
<1>7. CASE p.op = "InformationAcknowledge"
  <2>1. OnPacket(s, p, reaction) = OnInformationAcknowledge(s, p)  BY <1>7 DEF OnPacket
  <2>2. OnInformationAcknowledge(s, p) \in DataSteps(s)  BY OnInformationAcknowledgeType
  <2>3. CASE s.state = "Disconnected"
    BY <2>1, <2>3, SelfParts DEF OnInformationAcknowledge
  <2>4. CASE s.state # "Disconnected"  BY <2>1, <2>2, <2>4, DataParts
  <2> QED  BY <2>3, <2>4
<1> QED  BY <1>1, <1>2, <1>3, <1>4, <1>5, <1>6, <1>7 DEF Opcode

-----------------------------------------------------------------------------
(* The two ends and their departure *)

\* Applications disconnect a circuit that is open, not one that still waits for
\* its answer: a circuit abandoned while connecting reports a normal close too.
HangsUpOpen == DisconnectFrom \subseteq {"Connected"}

\* Only an end that leaves says so in q, and its close is normal only once the
\* other end leaves too.
Parting(s, r, q) ==
    /\ \A p \in PacketsIn(q) : /\ p.op = "DisconnectRequest" => Leaving(s)
                               /\ p.op = "DisconnectAcknowledge" => s.reason # "None"
    /\ s.reason = "Normal" => Leaving(r)

\* The opener knows the key of the end it talks to.
Addressed(c, d, to, from) ==
    /\ Open(c) => c.remoteKey = d.localKey
    /\ \A p \in PacketsIn(to) : p.op = "DisconnectRequest" => p.key = d.localKey
    /\ \A p \in PacketsIn(from) : IsAccept(p) => p.own = d.localKey

\* Nobody left, and nothing under way says so.
Calm(c, d, to, from) == /\ NoHangUp(to) /\ NoHangUp(from)
                        /\ c.reason # "Normal" /\ d.reason # "Normal"

Parted(c, d, to, from) ==
    /\ Parting(c, d, to) /\ Parting(d, c, from) /\ Addressed(c, d, to, from)
    /\ Apart(c, d, to) => Calm(c, d, to, from)
    /\ c.state = "Disconnected" => c.reason # "None"

\* The ends are joined, and part in agreement.
Together(c, d, to, from) == Joined(c, d, to, from) /\ (HangsUpOpen => Parted(c, d, to, from))

\* What a handler of the opener, or of the peer, must do for it.
OpenerParts(c, d, to, e) ==
    /\ Departs(c, e)
    /\ e.reason = "Normal" => c.reason = "Normal" \/ Leaving(d)
    /\ Open(e) => Open(c) \/ e.remoteKey = d.localKey
    /\ HasRequest(e.out) \/ e.state = "Connecting" => c.state = "Connecting"
    /\ Apart(c, d, to) => NoHangUp(e.out) /\ e.reason # "Normal"

PeerParts(c, d, to, from, e) ==
    /\ Departs(d, e)
    /\ e.reason = "Normal" => d.reason = "Normal" \/ Leaving(c)
    /\ Apart(c, e, to) => Calm(c, d, to, from) /\ NoHangUp(e.out) /\ e.reason # "Normal"

\* Between handlers the keys stay.
LEMMA RestKeys ==
    ASSUME NEW e \in Sound
    PROVE  AtRest(e).remoteKey = e.remoteKey /\ AtRest(e).localKey = e.localKey
<1>1. AtRest(e) \in DataSteps(e)  BY AtRestType
<1> QED  BY <1>1 DEF DataSteps, SameState, Evolutions, SameIdentity, Chats

\* The opener ran such a handler, and some packets were taken or lost.
LEMMA PartedOpener ==
    ASSUME NEW c, NEW d, NEW to \in Seq(Packet), NEW from \in Seq(Packet), Parted(c, d, to, from),
           NEW e \in Evolutions(c), OpenerParts(c, d, to, e),
           NEW t \in Seq(Packet), LeftOf(t, to \o e.out), NEW f \in Seq(Packet), LeftOf(f, from)
    PROVE  Parted(AtRest(e), d, t, f)
<1> DEFINE r == AtRest(e)
<1>1. e \in Sound /\ e.localKey = c.localKey /\ e.out \in Seq(Packet) /\ to \o e.out \in Seq(Packet)
  BY AtRestType, CatType DEF Evolutions, SameIdentity
<1>2. r.state = e.state /\ r.reason = e.reason /\ r.remoteKey = e.remoteKey
  BY <1>1, RestFields, RestKeys
<1>3. /\ PacketsIn(t) \subseteq PacketsIn(to) \cup PacketsIn(e.out)
      /\ PacketsIn(f) \subseteq PacketsIn(from)
  BY <1>1, PacketsInFacts
<1>4. HasRequest(t) => HasRequest(to) \/ HasRequest(e.out)  BY <1>1, LeftData, CatData
<1> HIDE DEF r
<1>5. Departs(c, e)  BY DEF OpenerParts
<1>6. Parting(r, d, t)
  <2>1. \A p \in PacketsIn(to) : /\ p.op = "DisconnectRequest" => Leaving(r)
                                 /\ p.op = "DisconnectAcknowledge" => r.reason # "None"
    BY <1>2, <1>5 DEF Parted, Parting, Departs, Leaving
  <2>2. \A p \in PacketsIn(e.out) : /\ p.op = "DisconnectRequest" => Leaving(r)
                                    /\ p.op = "DisconnectAcknowledge" => r.reason # "None"
    BY <1>2, <1>5 DEF Departs, Tells, Leaving
  <2>3. r.reason = "Normal" => Leaving(d)  BY <1>2 DEF Parted, Parting, OpenerParts
  <2> QED  BY <1>3, <2>1, <2>2, <2>3 DEF Parting
<1>7. Parting(d, r, f)
  <2>1. d.reason = "Normal" => Leaving(r)
    BY <1>2, <1>5 DEF Parted, Parting, Departs, Leaving
  <2> QED  BY <1>3, <2>1 DEF Parted, Parting
<1>8. Addressed(r, d, t, f)
  <2>1. Open(e) => e.remoteKey = d.localKey
    BY <1>5 DEF OpenerParts, Departs, Parted, Addressed
  <2>2. \A p \in PacketsIn(e.out) : p.op = "DisconnectRequest" => p.key = d.localKey
    BY <1>5, <2>1 DEF Departs, Tells, Open
  <2> QED  BY <1>2, <1>3, <2>1, <2>2 DEF Parted, Addressed, Open
<1>9. ASSUME Apart(r, d, t) PROVE Calm(r, d, t, f)
  <2>1. Apart(c, d, to)  BY <1>2, <1>4, <1>9 DEF Apart, OpenerParts
  <2>2. Calm(c, d, to, from) /\ NoHangUp(e.out) /\ e.reason # "Normal"
    BY <2>1 DEF Parted, OpenerParts
  <2> QED  BY <1>2, <1>3, <2>2 DEF Calm, NoHangUp
<1>10. r.state = "Disconnected" => r.reason # "None"  BY <1>2, <1>5 DEF Departs, Parted
<1> QED  BY <1>6, <1>7, <1>8, <1>9, <1>10 DEF Parted, r

\* The peer did.
LEMMA PartedPeer ==
    ASSUME NEW c, NEW d, NEW to \in Seq(Packet), NEW from \in Seq(Packet), Parted(c, d, to, from),
           NEW e \in Evolutions(d), PeerParts(c, d, to, from, e),
           NEW t \in Seq(Packet), LeftOf(t, to), NEW f \in Seq(Packet), LeftOf(f, from \o e.out)
    PROVE  Parted(c, AtRest(e), t, f)
<1> DEFINE r == AtRest(e)
<1>1. /\ e \in Sound /\ e.localKey = d.localKey /\ e.out \in Seq(Packet)
      /\ from \o e.out \in Seq(Packet)
  BY AtRestType, CatType DEF Evolutions, SameIdentity
<1>2. r.state = e.state /\ r.reason = e.reason /\ r.localKey = e.localKey
  BY <1>1, RestFields, RestKeys
<1>3. /\ PacketsIn(t) \subseteq PacketsIn(to)
      /\ PacketsIn(f) \subseteq PacketsIn(from) \cup PacketsIn(e.out)
  BY <1>1, PacketsInFacts
<1>4. HasRequest(t) => HasRequest(to)  BY LeftData
<1> HIDE DEF r
<1>5. Departs(d, e)  BY DEF PeerParts
<1>6. Parting(r, c, f)
  <2>1. \A p \in PacketsIn(from) : /\ p.op = "DisconnectRequest" => Leaving(r)
                                   /\ p.op = "DisconnectAcknowledge" => r.reason # "None"
    BY <1>2, <1>5 DEF Parted, Parting, Departs, Leaving
  <2>2. \A p \in PacketsIn(e.out) : /\ p.op = "DisconnectRequest" => Leaving(r)
                                    /\ p.op = "DisconnectAcknowledge" => r.reason # "None"
    BY <1>2, <1>5 DEF Departs, Tells, Leaving
  <2>3. r.reason = "Normal" => Leaving(c)  BY <1>2 DEF Parted, Parting, PeerParts
  <2> QED  BY <1>3, <2>1, <2>2, <2>3 DEF Parting
<1>7. Parting(c, r, t)
  <2>1. c.reason = "Normal" => Leaving(r)
    BY <1>2, <1>5 DEF Parted, Parting, Departs, Leaving
  <2> QED  BY <1>3, <2>1 DEF Parted, Parting
<1>8. Addressed(c, r, t, f)
  <2>1. \A p \in PacketsIn(e.out) : IsAccept(p) => p.own = d.localKey
    BY <1>1, <1>5 DEF Departs, Tells
  <2> QED  BY <1>1, <1>2, <1>3, <2>1 DEF Parted, Addressed
<1>9. ASSUME Apart(c, r, t) PROVE Calm(c, r, t, f)
  <2>1. Apart(c, e, to)  BY <1>2, <1>4, <1>9 DEF Apart
  <2>2. Calm(c, d, to, from) /\ NoHangUp(e.out) /\ e.reason # "Normal"
    BY <2>1 DEF PeerParts
  <2> QED  BY <1>2, <1>3, <2>2 DEF Calm, NoHangUp
<1>10. c.state = "Disconnected" => c.reason # "None"  BY DEF Parted
<1> QED  BY <1>6, <1>7, <1>8, <1>9, <1>10 DEF Parted, r

\* A handler of the opener keeps them together.
LEMMA TogetherOpener ==
    ASSUME NEW c, NEW d, NEW to \in Seq(Packet), NEW from \in Seq(Packet), Together(c, d, to, from),
           NEW e \in Evolutions(c),
           HangsUpOpen /\ Parted(c, d, to, from) => OpenerParts(c, d, to, e),
           NEW t \in Seq(Packet), LeftOf(t, to \o e.out), NEW f \in Seq(Packet), LeftOf(f, from),
           Joined(AtRest(e), d, t, f)
    PROVE  Together(AtRest(e), d, t, f)
<1>1. HangsUpOpen => Parted(AtRest(e), d, t, f)  BY PartedOpener DEF Together
<1> QED  BY <1>1 DEF Together

\* A handler of the peer does.
LEMMA TogetherPeer ==
    ASSUME NEW c, NEW d, NEW to \in Seq(Packet), NEW from \in Seq(Packet), Together(c, d, to, from),
           NEW e \in Evolutions(d),
           HangsUpOpen /\ Parted(c, d, to, from) => PeerParts(c, d, to, from, e),
           NEW t \in Seq(Packet), LeftOf(t, to), NEW f \in Seq(Packet), LeftOf(f, from \o e.out),
           Joined(c, AtRest(e), t, f)
    PROVE  Together(c, AtRest(e), t, f)
<1>1. HangsUpOpen => Parted(c, AtRest(e), t, f)  BY PartedPeer DEF Together
<1> QED  BY <1>1 DEF Together

\* While the peer has not answered, nobody left and the opener is not open.
LEMMA ApartFacts ==
    ASSUME NEW c, NEW d, NEW to \in Seq(Packet), NEW from \in Seq(Packet), Joined(c, d, to, from),
           Parted(c, d, to, from), Apart(c, d, to)
    PROVE  /\ Calm(c, d, to, from) /\ NoHangUp(to) /\ NoHangUp(from) /\ NoData(from) /\ ~Open(c)
           /\ c.reason # "Normal" /\ d.reason # "Normal"
<1>1. Clean(c, to, from)  BY JoinedFacts
<1>2. ~Open(c)  BY <1>1 DEF Clean, Virgin, Open
<1>3. Calm(c, d, to, from)  BY DEF Parted
<1> QED  BY <1>1, <1>2, <1>3 DEF Clean, Calm

\* The oldest packet of a queue is one of those it carries.
LEMMA OldestIn ==
    ASSUME NEW q \in Seq(Packet), q # <<>> PROVE q[1] \in PacketsIn(q) /\ q[1] \in Packet
<1>1. 1 \in DOMAIN q /\ q[1] \in Packet  OBVIOUS
<1> QED  BY <1>1 DEF PacketsIn

\* The opener moves data: its application writes or reads, its timer resends.
LEMMA OpenerDataTogether ==
    ASSUME NEW c, NEW d, NEW to \in Seq(Packet), NEW from \in Seq(Packet), Together(c, d, to, from),
           NEW e \in DataSteps(c),
           NEW t \in Seq(Packet), LeftOf(t, to \o e.out), NEW f \in Seq(Packet), LeftOf(f, from),
           Joined(AtRest(e), d, t, f)
    PROVE  Together(AtRest(e), d, t, f)
<1>1. c \in Sound /\ c.out = <<>> /\ Joined(c, d, to, from)  BY JoinedFacts DEF Together
<1>2. Departs(c, e) /\ NoHangUp(e.out) /\ ~HasRequest(e.out)  BY <1>1, DataDeparts
<1>3. e \in Evolutions(c) /\ e.state = c.state /\ e.reason = c.reason
  BY DEF DataSteps, SameState
<1>4. ASSUME Parted(c, d, to, from) PROVE OpenerParts(c, d, to, e)
  <2>1. Apart(c, d, to) => e.reason # "Normal"  BY <1>1, <1>3, <1>4, ApartFacts
  <2> QED  BY <1>2, <1>3, <2>1 DEF OpenerParts, Open
<1> QED  BY <1>3, <1>4, TogetherOpener

\* The peer does.
LEMMA PeerDataTogether ==
    ASSUME NEW c, NEW d, NEW to \in Seq(Packet), NEW from \in Seq(Packet), Together(c, d, to, from),
           NEW e \in DataSteps(d),
           NEW t \in Seq(Packet), LeftOf(t, to), NEW f \in Seq(Packet), LeftOf(f, from \o e.out),
           Joined(c, AtRest(e), t, f)
    PROVE  Together(c, AtRest(e), t, f)
<1>1. d \in Sound /\ d.out = <<>> /\ Joined(c, d, to, from)  BY JoinedFacts DEF Together
<1>2. Departs(d, e) /\ NoHangUp(e.out)  BY <1>1, DataDeparts
<1>3. e \in Evolutions(d) /\ e.state = d.state /\ e.reason = d.reason
  BY DEF DataSteps, SameState
<1>4. ASSUME Parted(c, d, to, from) PROVE PeerParts(c, d, to, from, e)
  <2>1. Apart(c, e, to) => Apart(c, d, to)  BY <1>3 DEF Apart
  <2>2. Apart(c, d, to) => Calm(c, d, to, from) /\ e.reason # "Normal"
    BY <1>1, <1>3, <1>4, ApartFacts
  <2> QED  BY <1>2, <1>3, <2>1, <2>2 DEF PeerParts
<1> QED  BY <1>3, <1>4, TogetherPeer

\* Packets are taken or lost on either link.
LEMMA TogetherQueues ==
    ASSUME NEW c, NEW d, NEW to \in Seq(Packet), NEW from \in Seq(Packet), Together(c, d, to, from),
           NEW t \in Seq(Packet), LeftOf(t, to), NEW f \in Seq(Packet), LeftOf(f, from)
    PROVE  Together(c, d, t, f)
<1>1. Joined(c, d, to, from)  BY DEF Together
<1>2. c \in Sound /\ c.out = <<>>  BY <1>1, JoinedFacts
<1>3. Joined(c, d, t, f)  BY <1>1, JoinedQueues
<1>4. AtRest(c) = c /\ c \in DataSteps(c)  BY <1>2, RestFields, Reflexivity
<1>5. to \o c.out = to  BY <1>2
<1>6. Together(AtRest(c), d, t, f)  BY <1>3, <1>4, <1>5, OpenerDataTogether
<1> QED  BY <1>4, <1>6

\* The opener's application writes.
LEMMA OpenerSendsTogether ==
    ASSUME NEW c, NEW d, NEW to \in Seq(Packet), NEW from \in Seq(Packet), Together(c, d, to, from),
           c.state = "Connected", NEW size \in Nat, NEW e, e = Send(c, size),
           NEW t \in Seq(Packet), LeftOf(t, to \o e.out), NEW f \in Seq(Packet), LeftOf(f, from)
    PROVE  Together(AtRest(e), d, t, f)
<1>1. Joined(c, d, to, from) /\ c \in Sound  BY JoinedFacts DEF Together
<1>2. Joined(AtRest(e), d, t, f)  BY <1>1, OpenerSends
<1>3. e \in DataSteps(c)  BY <1>1, SendType
<1> QED  BY <1>2, <1>3, OpenerDataTogether

\* The opener's application disconnects.
LEMMA OpenerDisconnectsTogether ==
    ASSUME NEW c, NEW d, NEW to \in Seq(Packet), NEW from \in Seq(Packet), Together(c, d, to, from),
           c.state \in {"Connecting", "Connected"}, HangsUpOpen => c.state = "Connected",
           NEW e, e = Disconnect(c),
           NEW t \in Seq(Packet), LeftOf(t, to \o e.out), NEW f \in Seq(Packet), LeftOf(f, from)
    PROVE  Together(AtRest(e), d, t, f)
<1>1. Joined(c, d, to, from) /\ c \in Sound /\ c.out = <<>>  BY JoinedFacts DEF Together
<1>2. Joined(AtRest(e), d, t, f)  BY <1>1, OpenerDisconnects
<1>3. e \in Evolutions(c)  BY <1>1, DisconnectType
<1>4. ASSUME HangsUpOpen, Parted(c, d, to, from) PROVE OpenerParts(c, d, to, e)
  <2>1. Departs(c, e) /\ e.state = "Disconnecting" /\ e.reason = "None"
        /\ PacketsIn(e.out) = PacketsIn(c.out) \cup {Blank("DisconnectRequest", c.remoteKey, c.inc)}
    BY <1>1, <1>4, DepartsSelf, DisconnectDeparts
  <2>2. ~HasRequest(e.out)
    <3>1. PacketsIn(c.out) = {}  BY <1>1 DEF PacketsIn
    <3>2. \A p \in PacketsIn(e.out) : p.op # "ConnectRequest"  BY <2>1, <3>1 DEF Blank
    <3> QED  BY <3>2 DEF HasRequest, PacketsIn
  <2>3. Open(c) /\ ~Apart(c, d, to)  BY <1>1, <1>4, ApartFacts DEF Open
  <2> QED  BY <2>1, <2>2, <2>3 DEF OpenerParts
<1> QED  BY <1>2, <1>3, <1>4, TogetherOpener

\* The opener's reader consumes a frame.
LEMMA OpenerDrainsTogether ==
    ASSUME NEW c, NEW d, NEW to \in Seq(Packet), NEW from \in Seq(Packet), Together(c, d, to, from),
           NEW e, e = OnDeliveryDrained(c),
           NEW t \in Seq(Packet), LeftOf(t, to \o e.out), NEW f \in Seq(Packet), LeftOf(f, from)
    PROVE  Together(AtRest(e), d, t, f)
<1>1. Joined(c, d, to, from) /\ c \in Sound  BY JoinedFacts DEF Together
<1>2. Joined(AtRest(e), d, t, f)  BY <1>1, OpenerDrains
<1>3. e \in DataSteps(c)  BY <1>1, OnDeliveryDrainedType
<1> QED  BY <1>2, <1>3, OpenerDataTogether

\* What a timer says of a departure: it closes with a reason of its own, or
\* repeats what the end said before.
LEMMA TickDeparts ==
    ASSUME NEW s \in Sound, s.out = <<>>, TimerRunning(s), NEW e, e = Tick(s)
    PROVE  /\ Departs(s, e) /\ s.state # "Disconnected" /\ s.reason = "None"
           /\ e.reason \in {"None", "Timeout"}
           /\ RetriesSpent(s) => e.state = "Disconnected" /\ e.reason = "Timeout" /\ e.out = <<>>
           /\ ~RetriesSpent(s) => e.state = s.state /\ e.reason = "None"
           /\ HasRequest(e.out) => s.state = "Connecting"
           /\ ~NoHangUp(e.out) => s.state = "Disconnecting"
<1>1. s \in Circuit /\ EndIsSound(s)  BY DEF Sound
<1>2. s.state \in {"Connecting", "Connected", "Disconnecting"} /\ s.reason = "None"
  BY <1>1 DEF TimerRunning, EndIsSound
<1>3. CASE RetriesSpent(s)
  <2>1. e = Close(s, "Timeout")  BY <1>3 DEF Tick
  <2>2. Departs(s, e) /\ e.state = "Disconnected" /\ e.reason = "Timeout" /\ e.out = <<>>
    BY <1>2, <2>1, CloseDeparts DEF Reason
  <2>3. ~HasRequest(e.out) /\ NoHangUp(e.out)
    BY <2>2, NothingIsNoData DEF NoHangUp, PacketsIn
  <2> QED  BY <1>2, <1>3, <2>2, <2>3
<1>4. CASE ~RetriesSpent(s) /\ s.state = "Connected"
  <2>1. e = Resend(s, DOMAIN s.unacked)  BY <1>4 DEF Tick
  <2>2. s.state \in {"Connected", "Disconnecting"} /\ DOMAIN s.unacked \in SUBSET DOMAIN s.unacked
    BY <1>4
  <2>3. e \in DataSteps(s)  BY <2>1, <2>2, ResendType
  <2>4. Departs(s, e) /\ NoHangUp(e.out) /\ ~HasRequest(e.out)  BY <2>3, DataDeparts
  <2>5. e.state = s.state /\ e.reason = s.reason  BY <2>3 DEF DataSteps, SameState
  <2> QED  BY <1>2, <1>4, <2>4, <2>5
<1>5. CASE ~RetriesSpent(s) /\ s.state # "Connected"
  <2> DEFINE n == s.retries + 1
             g == [s EXCEPT !.retries = n]
             b == Blank("ConnectRequest", g.localKey, g.inc)
             r == [b EXCEPT !.win = Clamp(g.windowSize, 1, MaxWindow)]
             x == Blank("DisconnectRequest", g.remoteKey, g.inc)
             p == IF s.state = "Connecting" THEN r ELSE x
  <2>1. e = Emit(g, <<p>>)
    BY <1>2, <1>5 DEF Tick, SendConnectRequest, SendDisconnectRequest
  <2>2. n \in Nat
    <3>1. s.retries \in Nat  BY <1>1 DEF Circuit
    <3> QED  BY <3>1
  <2> HIDE DEF n
  <2>3. /\ g \in Circuit /\ g.out = <<>> /\ g.state = s.state /\ g.reason = s.reason
        /\ g.remoteKey = s.remoteKey
    BY <1>1, <2>2, ZenonT(60) DEF Circuit
  <2> HIDE DEF g
  <2>4. g.localKey \in Key /\ g.remoteKey \in Key /\ g.inc \in Nat /\ g.windowSize \in Nat
    BY <2>3 DEF Circuit
  <2>5. b \in Packet /\ b.op = "ConnectRequest" /\ x \in Packet /\ x.op = "DisconnectRequest"
        /\ x.key = g.remoteKey
    BY <2>4, BlankType DEF Opcode, Blank
  <2>6. Clamp(g.windowSize, 1, MaxWindow) \in Nat  BY <2>4, HorizonFacts DEF Clamp
  <2> DEFINE w == Clamp(g.windowSize, 1, MaxWindow)
  <2> HIDE DEF b, x, w
  <2>7. r \in Packet /\ r.op = "ConnectRequest"
    <3>1. r = [b EXCEPT !.win = w] /\ w \in Nat  BY <2>6 DEF w
    <3> HIDE DEF r
    <3> QED  BY <2>5, <3>1 DEF Packet
  <2> HIDE DEF r
  <2>8. p \in Packet /\ p.op \in {"ConnectRequest", "DisconnectRequest"}
        /\ (p.op = "ConnectRequest" => s.state = "Connecting")
        /\ (p.op = "DisconnectRequest" => s.state = "Disconnecting" /\ p.key = g.remoteKey)
    BY <1>2, <1>5, <2>5, <2>7
  <2> HIDE DEF p
  <2>9. Tells(g, p)  BY <2>3, <2>8 DEF Tells, IsAccept
  <2>10. /\ Departs(s, e) /\ PacketsIn(e.out) = {p} /\ e.state = g.state /\ e.reason = g.reason
    BY SMTT(60), <2>1, <2>3, <2>8, <2>9, EmitDeparts
  <2>11. HasRequest(e.out) => s.state = "Connecting"
    BY <2>8, <2>10 DEF HasRequest, PacketsIn
  <2>12. ~NoHangUp(e.out) => s.state = "Disconnecting"
    BY <2>8, <2>10 DEF NoHangUp, IsHangUp
  <2> QED  BY <1>2, <1>5, <2>3, <2>10, <2>11, <2>12
<1> QED  BY <1>3, <1>4, <1>5

\* The opener's timer expires.
LEMMA OpenerTicksTogether ==
    ASSUME NEW c, NEW d, NEW to \in Seq(Packet), NEW from \in Seq(Packet), Together(c, d, to, from),
           TimerRunning(c), NEW e, e = Tick(c),
           NEW t \in Seq(Packet), LeftOf(t, to \o e.out), NEW f \in Seq(Packet), LeftOf(f, from)
    PROVE  Together(AtRest(e), d, t, f)
<1>1. Joined(c, d, to, from) /\ c \in Sound /\ c.out = <<>>  BY JoinedFacts DEF Together
<1>2. Joined(AtRest(e), d, t, f)  BY <1>1, OpenerTicks
<1>3. e \in Evolutions(c)  BY <1>1, TickType
<1>4. ASSUME Parted(c, d, to, from) PROVE OpenerParts(c, d, to, e)
  <2>1. /\ Departs(c, e) /\ e.reason # "Normal"
        /\ e.state = "Disconnected" \/ e.state = c.state
        /\ HasRequest(e.out) => c.state = "Connecting"
        /\ ~NoHangUp(e.out) => c.state = "Disconnecting"
    BY <1>1, TickDeparts
  <2>2. Apart(c, d, to) => ~Open(c)  BY <1>1, <1>4, ApartFacts
  <2> QED  BY <2>1, <2>2 DEF OpenerParts, Open
<1> QED  BY <1>2, <1>3, <1>4, TogetherOpener

\* A packet of the peer reaches the opener, which has not closed.
LEMMA OpenerReceivesTogether ==
    ASSUME NEW c, NEW d, NEW to \in Seq(Packet), NEW from \in Seq(Packet), Together(c, d, to, from),
           from # <<>>, c.reason = "None",
           NEW reaction \in Reaction, NEW e, e = OnPacket(c, from[1], reaction),
           NEW t \in Seq(Packet), LeftOf(t, to \o e.out), NEW f \in Seq(Packet), LeftOf(f, from)
    PROVE  Together(AtRest(e), d, t, f)
<1> DEFINE p == from[1]
<1>1. Joined(c, d, to, from) /\ c \in Sound /\ c.out = <<>>  BY JoinedFacts DEF Together
<1>2. Joined(AtRest(e), d, t, f)  BY <1>1, OpenerReceives
<1>3. p \in PacketsIn(from) /\ p \in Packet  BY OldestIn
<1>4. e \in Evolutions(c)  BY <1>1, <1>3, OnPacketType
<1>5. ASSUME Parted(c, d, to, from) PROVE OpenerParts(c, d, to, e)
  <2>1. c.state # "Disconnected"  BY <1>5 DEF Parted
  <2>2. PacketParts(c, p, e)  BY <1>1, <1>3, <2>1, PacketDeparts
  <2>3. IsHangUp(p) => Leaving(d)
    BY <1>3, <1>5 DEF Parted, Parting, IsHangUp, Leaving
  <2>4. IsAccept(p) => p.own = d.localKey  BY <1>3, <1>5 DEF Parted, Addressed
  <2>5. Open(e) => Open(c) \/ e.remoteKey = d.localKey  BY <2>2, <2>4 DEF PacketParts
  <2>6. ASSUME Apart(c, d, to) PROVE NoHangUp(e.out) /\ e.reason # "Normal"
    <3>1. ~IsHangUp(p) /\ ~Open(c)  BY <1>1, <1>3, <1>5, <2>6, ApartFacts DEF NoHangUp
    <3>2. ~IsAccept(p)
      <4>1. NoData(from)  BY <1>1, <1>5, <2>6, ApartFacts
      <4> QED  BY <4>1 DEF NoData
    <3> QED  BY <2>2, <3>1, <3>2 DEF PacketParts
  <2> QED  BY <2>2, <2>3, <2>5, <2>6 DEF OpenerParts, PacketParts
<1> QED  BY <1>2, <1>4, <1>5, TogetherOpener

\* The opener has closed, and its manager answers a Disconnect Request.
LEMMA OpenerReflectsTogether ==
    ASSUME NEW c, NEW d, NEW to \in Seq(Packet), NEW from \in Seq(Packet), Together(c, d, to, from),
           c.state = "Disconnected", from # <<>>, from[1].op = "DisconnectRequest",
           NEW key \in Key, NEW asker \in Nat,
           NEW p, p = Blank("DisconnectAcknowledge", key, asker),
           NEW t \in Seq(Packet), LeftOf(t, to \o <<p>>), NEW f \in Seq(Packet), LeftOf(f, from)
    PROVE  Together(c, d, t, f)
<1> DEFINE e == Emit(c, <<p>>)
<1>1. Joined(c, d, to, from) /\ c \in Sound /\ c \in Circuit /\ c.out = <<>>
  BY JoinedFacts DEF Together
<1>2. Joined(c, d, t, f)  BY <1>1, OpenerReflects
<1>3. p \in Packet /\ p.op = "DisconnectAcknowledge"  BY ReflectedIs
<1>4. EndIsSound(c)  BY <1>1 DEF Sound
<1>5. AtRest(e) = c /\ e.out = <<p>> /\ e \in Evolutions(c)  BY <1>1, <1>3, <1>4, EmitAtRest
<1>6. ASSUME Parted(c, d, to, from) PROVE OpenerParts(c, d, to, e)
  <2>1. Tells(c, p)  BY <1>3, <1>6 DEF Tells, Parted, IsAccept
  <2>2. Departs(c, e) /\ e.state = c.state /\ e.reason = c.reason /\ ~HasRequest(e.out)
    BY <1>1, <1>3, <2>1, EmitOneDeparts
  <2>3. from[1] \in PacketsIn(from)  BY OldestIn
  <2>4. ~Apart(c, d, to)  BY <1>1, <1>6, <2>3, ApartFacts DEF NoHangUp, IsHangUp
  <2> HIDE DEF e
  <2> QED  BY <2>2, <2>4 DEF OpenerParts, Open
<1> HIDE DEF e
<1>7. Together(AtRest(e), d, t, f)  BY <1>2, <1>5, <1>6, TogetherOpener
<1> QED  BY <1>5, <1>7

\* The peer's application writes.
LEMMA PeerSendsTogether ==
    ASSUME NEW c, NEW d, NEW to \in Seq(Packet), NEW from \in Seq(Packet), Together(c, d, to, from),
           d.state = "Connected", NEW size \in Nat, NEW e, e = Send(d, size),
           NEW t \in Seq(Packet), LeftOf(t, to), NEW f \in Seq(Packet), LeftOf(f, from \o e.out)
    PROVE  Together(c, AtRest(e), t, f)
<1>1. Joined(c, d, to, from) /\ d \in Sound  BY JoinedFacts DEF Together
<1>2. Joined(c, AtRest(e), t, f)  BY <1>1, PeerSends
<1>3. e \in DataSteps(d)  BY <1>1, SendType
<1> QED  BY <1>2, <1>3, PeerDataTogether

\* The peer's application disconnects.
LEMMA PeerDisconnectsTogether ==
    ASSUME NEW c, NEW d, NEW to \in Seq(Packet), NEW from \in Seq(Packet), Together(c, d, to, from),
           d.state = "Connected", NEW e, e = Disconnect(d),
           NEW t \in Seq(Packet), LeftOf(t, to), NEW f \in Seq(Packet), LeftOf(f, from \o e.out)
    PROVE  Together(c, AtRest(e), t, f)
<1>1. Joined(c, d, to, from) /\ d \in Sound /\ d.out = <<>>  BY JoinedFacts DEF Together
<1>2. Joined(c, AtRest(e), t, f)  BY <1>1, PeerDisconnects
<1>3. e \in Evolutions(d)  BY <1>1, DisconnectType
<1>4. Departs(d, e) /\ e.state = "Disconnecting" /\ e.reason = "None"
  BY <1>1, DepartsSelf, DisconnectDeparts
<1>5. PeerParts(c, d, to, from, e)  BY <1>4 DEF PeerParts, Apart
<1> QED  BY <1>2, <1>3, <1>5, TogetherPeer

\* The peer's reader consumes a frame.
LEMMA PeerDrainsTogether ==
    ASSUME NEW c, NEW d, NEW to \in Seq(Packet), NEW from \in Seq(Packet), Together(c, d, to, from),
           NEW e, e = OnDeliveryDrained(d),
           NEW t \in Seq(Packet), LeftOf(t, to), NEW f \in Seq(Packet), LeftOf(f, from \o e.out)
    PROVE  Together(c, AtRest(e), t, f)
<1>1. Joined(c, d, to, from) /\ d \in Sound  BY JoinedFacts DEF Together
<1>2. Joined(c, AtRest(e), t, f)  BY <1>1, PeerDrains
<1>3. e \in DataSteps(d)  BY <1>1, OnDeliveryDrainedType
<1> QED  BY <1>2, <1>3, PeerDataTogether

\* The peer's timer expires.
LEMMA PeerTicksTogether ==
    ASSUME NEW c, NEW d, NEW to \in Seq(Packet), NEW from \in Seq(Packet), Together(c, d, to, from),
           TimerRunning(d), NEW e, e = Tick(d), RetriesSpent(d) => to = <<>> /\ from = <<>>,
           NEW t \in Seq(Packet), LeftOf(t, to), NEW f \in Seq(Packet), LeftOf(f, from \o e.out)
    PROVE  Together(c, AtRest(e), t, f)
<1>1. /\ Joined(c, d, to, from) /\ d \in Sound /\ d.out = <<>> /\ c \in Sound /\ EndIsSound(c)
  BY JoinedFacts DEF Together
<1>2. Joined(c, AtRest(e), t, f)  BY <1>1, PeerTicks
<1>3. e \in Evolutions(d)  BY <1>1, TickType
<1>4. /\ Departs(d, e) /\ d.state # "Disconnected" /\ d.reason = "None" /\ e.reason # "Normal"
      /\ RetriesSpent(d) => e.reason = "Timeout" /\ e.out = <<>>
      /\ ~RetriesSpent(d) => e.state = d.state
  BY <1>1, TickDeparts
<1>5. ASSUME Apart(c, e, to) PROVE Calm(c, d, to, from) /\ NoHangUp(e.out)
  <2>1. RetriesSpent(d)  BY <1>4, <1>5 DEF Apart
  <2>2. NoHangUp(<<>>)  BY DEF NoHangUp, PacketsIn
  <2>3. c.state = "Connecting"  BY <1>4, <1>5, <2>1, NothingIsNoData DEF Apart
  <2>4. c.reason = "None"  BY <1>1, <2>3 DEF EndIsSound
  <2> QED  BY <1>4, <2>1, <2>2, <2>4 DEF Calm
<1>6. PeerParts(c, d, to, from, e)  BY <1>4, <1>5 DEF PeerParts
<1> QED  BY <1>2, <1>3, <1>6, TogetherPeer

\* A packet of the opener reaches the peer registered for it.
LEMMA PeerReceivesTogether ==
    ASSUME NEW c, NEW d, NEW to \in Seq(Packet), NEW from \in Seq(Packet), Together(c, d, to, from),
           to # <<>>, d.reason = "None",
           NEW reaction \in Reaction, NEW e, e = OnPacket(d, to[1], reaction),
           NEW t \in Seq(Packet), LeftOf(t, to), NEW f \in Seq(Packet), LeftOf(f, from \o e.out)
    PROVE  Together(c, AtRest(e), t, f)
<1> DEFINE p == to[1]
<1>1. /\ Joined(c, d, to, from) /\ d \in Sound /\ d \in Circuit /\ d.out = <<>>
      /\ d.state # "Connecting" /\ Pair(c, d, to, from)
  BY JoinedFacts DEF Together
<1>2. Joined(c, AtRest(e), t, f)  BY <1>1, PeerReceives
<1>3. p \in PacketsIn(to) /\ p \in Packet  BY OldestIn
<1>4. e \in Evolutions(d)  BY <1>1, <1>3, OnPacketType
<1>5. ASSUME Parted(c, d, to, from) PROVE PeerParts(c, d, to, from, e)
  <2>1. d.state = "Disconnected" => Calm(c, d, to, from) /\ ~IsHangUp(p)
    <3> SUFFICES ASSUME d.state = "Disconnected" PROVE Calm(c, d, to, from) /\ ~IsHangUp(p)
      OBVIOUS
    <3>1. Apart(c, d, to)  BY DEF Apart
    <3> QED  BY <1>1, <1>3, <1>5, <3>1, ApartFacts DEF NoHangUp
  <2>2. PacketParts(d, p, e)  BY <1>1, <1>3, <2>1, PacketDeparts DEF IsHangUp
  <2>3. IsHangUp(p) => Leaving(c)
    BY <1>3, <1>5 DEF Parted, Parting, IsHangUp, Leaving
  <2>4. ASSUME Apart(c, e, to)
        PROVE  Calm(c, d, to, from) /\ NoHangUp(e.out) /\ e.reason # "Normal"
    <3>1. CASE d.state = "Disconnected"
      <4>1. e = d  BY <2>2, <3>1 DEF PacketParts
      <4>2. NoHangUp(e.out)  BY <1>1, <4>1 DEF NoHangUp, PacketsIn
      <4> QED  BY <2>1, <3>1, <4>1, <4>2
    <3>2. CASE d.state # "Disconnected"
      <4>1. Open(d)  BY <1>1, <3>2 DEF Open, Circuit, State
      <4>2. e.reason # "None" /\ IsHangUp(p)
        BY <2>2, <2>4, <3>2, <4>1 DEF PacketParts, Departs, Apart, Open
      <4>3. Shaken(c, to)  BY <1>1 DEF Pair, Direction
      <4>4. p.op # "ConnectRequest" /\ 1 \in DOMAIN to /\ DOMAIN to = 1 .. Len(to)
        BY <4>2 DEF IsHangUp
      <4>5. c.state # "Connecting"  BY <4>3, <4>4 DEF Shaken
      <4>6. PICK k \in DOMAIN to : to[k].op = "ConnectRequest"
        BY <2>4, <4>2, <4>5 DEF Apart, HasRequest
      <4>7. 1 < k  BY <4>4, <4>6
      <4> QED  BY <4>3, <4>4, <4>6, <4>7 DEF Shaken
    <3> QED  BY <3>1, <3>2
  <2> QED  BY <2>2, <2>3, <2>4 DEF PeerParts, PacketParts
<1> QED  BY <1>2, <1>4, <1>5, TogetherPeer

\* The host accepts a circuit its listener left for later.
LEMMA PeerAcceptsTogether ==
    ASSUME NEW c, NEW d, NEW to \in Seq(Packet), NEW from \in Seq(Packet), Together(c, d, to, from),
           d.state = "Disconnected", d.reason = "None", NEW key \in Key, key = d.peerKey[2],
           NEW win \in Nat, win = Clamp(c.windowSize, 1, MaxWindow),
           NEW e, e = AcceptInbound(d, key, win),
           NEW t \in Seq(Packet), LeftOf(t, to), NEW f \in Seq(Packet), LeftOf(f, from \o e.out)
    PROVE  Together(c, AtRest(e), t, f)
<1>1. Joined(c, d, to, from) /\ d \in Sound /\ d \in Circuit /\ d.out = <<>>
  BY JoinedFacts DEF Together
<1>2. Joined(c, AtRest(e), t, f)  BY <1>1, PeerAccepts
<1>3. e \in Evolutions(d)  BY <1>1, AcceptInboundType
<1> DEFINE asked == IF win <= 0 THEN d.windowSize ELSE win
           w == Clamp(Lesser(asked, d.windowSize), 1, MaxWindow)
           g == [d EXCEPT !.remoteKey = key, !.state = "Connected", !.window = w]
           b == Blank("ConnectAcknowledge", g.remoteKey, g.inc)
           p == [b EXCEPT !.own = g.localKey, !.choke = FALSE, !.win = g.window]
<1>4. e = Emit(g, <<p>>)  BY DEF AcceptInbound, SendConnectAcknowledge
<1> HIDE DEF w
<1>5. g.out = <<>> /\ g.state = "Connected" /\ g.reason = "None" /\ g.localKey = d.localKey
  BY <1>1 DEF Circuit
<1>6. p.op = "ConnectAcknowledge" /\ p.own = g.localKey  BY DEF Blank
<1>7. <<>> \o <<p>> = <<p>>  OBVIOUS
<1>8. e = [g EXCEPT !.out = <<p>>]  BY <1>4, <1>5, <1>7 DEF Emit
<1>9. /\ e.out = <<p>> /\ e.state = "Connected" /\ e.reason = "None"
      /\ e.localKey = d.localKey /\ p.own = d.localKey
  <2> HIDE DEF p
  <2> QED  BY <1>1, <1>5, <1>6, <1>8, ZenonT(60) DEF Circuit
<1> HIDE DEF p, g
<1>10. \A q \in PacketsIn(e.out) : Tells(e, q)  BY <1>6, <1>9 DEF PacketsIn, Tells
<1>11. Departs(d, e)  BY <1>9, <1>10 DEF Departs, Leaving, Open
<1>12. PeerParts(c, d, to, from, e)  BY <1>9, <1>11 DEF PeerParts, Apart
<1> QED  BY <1>2, <1>3, <1>12, TogetherPeer

\* The host refuses it.
LEMMA PeerRefusesTogether ==
    ASSUME NEW c, NEW d, NEW to \in Seq(Packet), NEW from \in Seq(Packet), Together(c, d, to, from),
           d.state = "Disconnected", d.reason = "None", NEW key \in Key,
           NEW e, e = [RefuseInbound(d, key) EXCEPT !.reason = "Refused"],
           NEW t \in Seq(Packet), LeftOf(t, to), NEW f \in Seq(Packet), LeftOf(f, from \o e.out)
    PROVE  Together(c, AtRest(e), t, f)
<1>1. Joined(c, d, to, from) /\ d \in Sound /\ d \in Circuit /\ d.out = <<>>
  BY JoinedFacts DEF Together
<1>2. Joined(c, AtRest(e), t, f)  BY <1>1, PeerRefuses
<1>3. e \in Evolutions(d)  BY <1>1, RefuseInboundType
<1> DEFINE g == [d EXCEPT !.remoteKey = key]
           b == Blank("ConnectAcknowledge", g.remoteKey, g.inc)
           p == [b EXCEPT !.own = g.localKey, !.choke = TRUE, !.win = 0]
           s == Emit(g, <<p>>)
<1>4. e = [[s EXCEPT !.state = "Disconnected"] EXCEPT !.reason = "Refused"]
  BY DEF RefuseInbound, SendConnectAcknowledge
<1>5. p.op = "ConnectAcknowledge" /\ p.choke  BY DEF Blank
<1>6. g \in Circuit /\ g.out = <<>>  BY <1>1 DEF Circuit
<1> HIDE DEF p, g
<1>7. e.out = <<p>> /\ e.reason = "Refused"
  <2>1. <<>> \o <<p>> = <<p>>  OBVIOUS
  <2> QED  BY <1>4, <1>6, <2>1, ZenonT(60) DEF Emit, Circuit
<1>8. \A q \in PacketsIn(e.out) : Tells(e, q) /\ ~IsHangUp(q)
  BY <1>5, <1>7 DEF PacketsIn, Tells, IsHangUp, IsAccept
<1>9. Departs(d, e)  BY <1>7, <1>8 DEF Departs, Leaving, Open
<1>10. ASSUME Parted(c, d, to, from) PROVE PeerParts(c, d, to, from, e)
  <2>1. Calm(c, d, to, from)  BY <1>10 DEF Parted, Apart
  <2> QED  BY <1>7, <1>8, <1>9, <2>1 DEF PeerParts, NoHangUp
<1> QED  BY <1>2, <1>3, <1>10, TogetherPeer

\* The peer has closed, and its manager acknowledges a Disconnect Request.
LEMMA PeerReflectsTogether ==
    ASSUME NEW c, NEW d, NEW to \in Seq(Packet), NEW from \in Seq(Packet), Together(c, d, to, from),
           HangsUpOpen => d.state = "Disconnected",
           to # <<>>, to[1].op = "DisconnectRequest", NEW key \in Key, NEW asker \in Nat,
           NEW p, p = Blank("DisconnectAcknowledge", key, asker),
           NEW t \in Seq(Packet), LeftOf(t, to), NEW f \in Seq(Packet), LeftOf(f, from \o <<p>>)
    PROVE  Together(c, d, t, f)
<1> DEFINE e == Emit(d, <<p>>)
<1>1. Joined(c, d, to, from) /\ d \in Sound /\ d \in Circuit /\ d.out = <<>>
  BY JoinedFacts DEF Together
<1>2. Joined(c, d, t, f)  BY <1>1, PeerReflects
<1>3. p \in Packet /\ p.op = "DisconnectAcknowledge"  BY ReflectedIs
<1>4. EndIsSound(d)  BY <1>1 DEF Sound
<1>5. AtRest(e) = d /\ e.out = <<p>> /\ e \in Evolutions(d)  BY <1>1, <1>3, <1>4, EmitAtRest
<1>6. ASSUME HangsUpOpen, Parted(c, d, to, from) PROVE PeerParts(c, d, to, from, e)
  <2>1. to[1] \in PacketsIn(to)  BY OldestIn
  <2>2. ~Apart(c, d, to)  BY <1>1, <1>6, <2>1, ApartFacts DEF NoHangUp, IsHangUp
  <2>3. d.reason # "None"  BY <1>6, <2>2 DEF Apart
  <2>4. Tells(d, p)  BY <1>3, <2>3 DEF Tells, IsAccept
  <2>5. Departs(d, e) /\ e.state = d.state /\ e.reason = d.reason
    BY <1>1, <1>3, <2>4, EmitOneDeparts
  <2> HIDE DEF e
  <2>6. ~Apart(c, e, to)  BY <2>2, <2>5 DEF Apart
  <2>7. e.reason = "Normal" => Leaving(c)  BY <1>6, <2>5 DEF Parted, Parting
  <2> QED  BY <2>5, <2>6, <2>7 DEF PeerParts
<1> HIDE DEF e
<1>7. Together(c, AtRest(e), t, f)  BY <1>2, <1>5, <1>6, TogetherPeer
<1> QED  BY <1>5, <1>7

\* A circuit is minted for a Connect Request after the one before it closed.
LEMMA PeerIsMintedTogether ==
    ASSUME NEW c, NEW d, NEW to \in Seq(Packet), NEW from \in Seq(Packet), Together(c, d, to, from),
           Apart(c, d, to),
           NEW e \in Sound, Virgin(e), e.state = "Disconnected", e.reason = "None", e.out = <<>>,
           e.mintedFor # 0, e.peerKey[2] = c.localKey
    PROVE  Together(c, e, to, from)
<1>1. Joined(c, d, to, from)  BY DEF Together
<1>2. Joined(c, e, to, from)  BY <1>1, PeerIsMinted
<1>3. ASSUME HangsUpOpen PROVE Parted(c, e, to, from)
  <2>1. Parted(c, d, to, from)  BY <1>3 DEF Together
  <2>2. /\ NoHangUp(to) /\ NoHangUp(from) /\ NoData(from) /\ ~Open(c) /\ c.reason # "Normal"
    BY <1>1, <2>1, ApartFacts
  <2>3. Calm(c, e, to, from)  BY <2>2 DEF Calm
  <2>4. Parting(c, e, to) /\ Parting(e, c, from)  BY <2>2 DEF Parting, NoHangUp, IsHangUp
  <2>5. Addressed(c, e, to, from)
    BY <2>2 DEF Addressed, NoHangUp, IsHangUp, NoData, PacketsIn
  <2> QED  BY <2>1, <2>3, <2>4, <2>5 DEF Parted
<1> QED  BY <1>2, <1>3 DEF Together

\* openCircuit's circuit, and no other end yet.
LEMMA OpenerIsNewTogether ==
    ASSUME NEW n \in Node, NEW m \in Node, NEW k \in Key, NEW w \in Nat, NEW inc \in Nat,
           NEW e, e = Connect(NewCircuit(n, m, k, NoPeerKey, w, inc, 0)),
           NEW d \in Sound, Virgin(d), d.state = "Disconnected", d.reason = "None", d.out = <<>>,
           d.mintedFor # 0, d.peerKey[2] = k,
           NEW t \in Seq(Packet), LeftOf(t, <<>> \o e.out)
    PROVE  Together(AtRest(e), d, t, <<>>)
<1> DEFINE b == NewCircuit(n, m, k, NoPeerKey, w, inc, 0)
           c == AtRest(e)
<1>1. Joined(c, d, t, <<>>)
  BY ONLY OpenerIsNew, n \in Node, m \in Node, k \in Key, w \in Nat, inc \in Nat,
     e = Connect(NewCircuit(n, m, k, NoPeerKey, w, inc, 0)), d \in Sound, Virgin(d),
     d.state = "Disconnected", d.out = <<>>, d.mintedFor # 0, d.peerKey[2] = k,
     t \in Seq(Packet), LeftOf(t, <<>> \o e.out)
<1>2. b \in Sound /\ b.reason = "None" /\ b.state = "Disconnected"  BY OpenedType
<1>3. e = [SendConnectRequest(b) EXCEPT !.state = "Connecting", !.retries = 0, !.armed = TRUE]
  BY <1>2 DEF Connect
<1>4. e \in Evolutions(b)  BY <1>2, ConnectType
<1>5. e.state = "Connecting"
  <2>1. b \in Circuit  BY <1>2 DEF Sound
  <2> HIDE DEF b
  <2> QED  BY <1>3, <2>1, ZenonT(60) DEF SendConnectRequest, Emit, Circuit
<1> HIDE DEF b
<1>6. c \in Sound /\ EndIsSound(c) /\ c.state = "Connecting"
  BY <1>4, <1>5, RestFields DEF Evolutions, Sound
<1> HIDE DEF c
<1>7. c.reason = "None"  BY <1>6 DEF EndIsSound
<1>8. \A p \in PacketsIn(t) : p.op = "ConnectRequest"
  BY <1>1, <1>6 DEF Joined, Pair, Direction, Shaken, PacketsIn
<1>9. PacketsIn(<<>>) = {}  BY DEF PacketsIn
<1>10. /\ Parting(c, d, t) /\ Parting(d, c, <<>>) /\ Addressed(c, d, t, <<>>)
       /\ Calm(c, d, t, <<>>)
  BY <1>6, <1>7, <1>8, <1>9 DEF Parting, Addressed, Calm, NoHangUp, IsHangUp, Open
<1>11. Parted(c, d, t, <<>>)  BY <1>6, <1>10 DEF Parted
<1> QED  BY <1>1, <1>11 DEF Together, c

-----------------------------------------------------------------------------
(* The circuit tables and the network *)

Newest == Len(circuit)
Origin == circuit[1].node
Peer   == circuit[1].remoteNode
To     == <<Origin, Peer>>
From   == <<Peer, Origin>>
KeyOf(o) == <<o.node, o.localKey>>

\* What circuit c minted for the Connect Request of circuit o looks like.
MintedFrom(o, c) ==
    /\ c.mintedFor = o.inc /\ c.node = o.remoteNode /\ c.remoteNode = o.node
    /\ c.peerKey = KeyOf(o)

\* The end the opener talks to: the newest one minted for it.  Before there is
\* any it is the one a Connect Request would mint.
Unborn == NewCircuit(Peer, Origin, 0, KeyOf(circuit[1]), WindowSize[Peer], 0, 1)
Other  == IF Newest = 1 THEN Unborn ELSE circuit[Newest]

\* A peer that closed without data.  Nobody hung up on it.
Gone(c) == /\ c.reason # "None" /\ c.got = <<>> /\ c.out = <<>>
           /\ HangsUpOpen => c.reason # "Normal"

\* One circuit was opened, the others were minted for it one after the other,
\* each after the one before had closed without data.
Cast ==
    /\ circuit[1].mintedFor = 0 /\ Origin # Peer
    /\ \A i \in DOMAIN circuit : circuit[i].windowSize = WindowSize[circuit[i].node]
    /\ \A i \in DOMAIN circuit \ {1} : MintedFrom(circuit[1], circuit[i])
    /\ \A i \in DOMAIN circuit \ {1, Newest} :
          Gone(circuit[i])
    /\ \A l \in Link \ {To, From} : net[l] = <<>>
    /\ Newest # 1 /\ circuit[Newest].reason = "None" =>
          byPeerKey[Peer][KeyOf(circuit[1])] = Newest

StreamInv ==
    IF circuit = <<>> THEN \A l \in Link : net[l] = <<>>
    ELSE Cast /\ Together(circuit[1], Other, net[To], net[From])

\* The network keeps order, hosts open one circuit, and an end gives up only
\* when nothing it or its peer sent is under way.
OneStream == ReorderDepth = 1 /\ MaxOpens = 1 /\ OutlivesRetries = FALSE

\* What the capacity of a link leaves of a queue.
LEMMA CutLeft ==
    ASSUME NEW q \in Seq(Packet), NEW ps \in Seq(Packet)
    PROVE  /\ SubSeq(q \o ps, 1, Lesser(NetCap, Len(q) + Len(ps))) \in Seq(Packet)
           /\ LeftOf(SubSeq(q \o ps, 1, Lesser(NetCap, Len(q) + Len(ps))), q \o ps)
<1>1. q \o ps \in Seq(Packet) /\ Len(q \o ps) = Len(q) + Len(ps)  OBVIOUS
<1>2. Len(q) \in Nat /\ Len(ps) \in Nat /\ NetCap \in Nat  BY NetworkAssumption
<1> DEFINE n == Lesser(NetCap, Len(q) + Len(ps))
           a == q \o ps
<1>3. n \in Nat /\ n <= Len(a)  BY <1>1, <1>2 DEF Lesser
<1>4. a \in Seq(Packet)  BY <1>1
<1> HIDE DEF n, a
<1>5. /\ SubSeq(a, 1, n) \in Seq(Packet) /\ Len(SubSeq(a, 1, n)) = n
      /\ \A k \in 1 .. n : SubSeq(a, 1, n)[k] = a[k]
  BY <1>3, <1>4
<1>6. LeftOf(SubSeq(a, 1, n), a)
  <2>1. Len(SubSeq(a, 1, n)) + 0 <= Len(a)  BY <1>3, <1>5
  <2>2. \A k \in 1 .. Len(SubSeq(a, 1, n)) : SubSeq(a, 1, n)[k] = a[k + 0]  BY <1>5
  <2> QED  BY <2>1, <2>2, 0 \in Nat DEF LeftOf
<1> QED  BY <1>5, <1>6 DEF n, a

\* What the receipt of the oldest packet leaves.
LEMMA TakenLeft ==
    ASSUME NEW q \in Seq(Packet), q # <<>>
    PROVE  /\ SubSeq(q, 1, 1 - 1) \o SubSeq(q, 1 + 1, Len(q)) = Tail(q)
           /\ Tail(q) \in Seq(Packet) /\ LeftOf(Tail(q), q)
<1>1. /\ Tail(q) \in Seq(Packet) /\ Len(Tail(q)) = Len(q) - 1 /\ Len(q) \in Nat /\ Len(q) >= 1
      /\ \A k \in 1 .. Len(q) - 1 : Tail(q)[k] = q[k + 1]
  OBVIOUS
<1>2. LeftOf(Tail(q), q)
  <2>1. Len(Tail(q)) + 1 <= Len(q) /\ \A k \in 1 .. Len(Tail(q)) : Tail(q)[k] = q[k + 1]
    BY <1>1
  <2> QED  BY <2>1, 1 \in Nat DEF LeftOf
<1>3. SubSeq(q, 1, 1 - 1) \o SubSeq(q, 1 + 1, Len(q)) = Tail(q)
  <2>1. SubSeq(q, 1, 1 - 1) = <<>>  OBVIOUS
  <2>2. SubSeq(q, 1 + 1, Len(q)) = Tail(q) /\ Tail(q) \in Seq(Packet)  BY <1>1
  <2> QED  BY <2>1, <2>2
<1> QED  BY <1>1, <1>2, <1>3

\* Packets are sent on one link.
LEMMA ShipLeft ==
    ASSUME NetTypes, NEW from, NEW to, <<from, to>> \in Link, NEW ps \in Seq(Packet),
           Ship(from, to, ps)
    PROVE  /\ net'[<<from, to>>] \in Seq(Packet)
           /\ LeftOf(net'[<<from, to>>], net[<<from, to>>] \o ps)
           /\ \A l \in Link \ {<<from, to>>} : net'[l] = net[l]
<1>1. net \in [Link -> Seq(Packet)]  BY DEF NetTypes
<1> DEFINE q == net[<<from, to>>]
           cut == SubSeq(q \o ps, 1, Lesser(NetCap, Len(q) + Len(ps)))
<1>2. net' = [net EXCEPT ![<<from, to>>] = cut]  BY DEF Ship
<1>3. q \in Seq(Packet)  BY <1>1
<1>4. cut \in Seq(Packet) /\ LeftOf(cut, q \o ps)  BY <1>3, CutLeft
<1> HIDE DEF cut
<1> QED  BY <1>1, <1>2, <1>4

\* The oldest packet is taken, and the answers are sent on the way back.
LEMMA ExchangeLeft ==
    ASSUME NetTypes, NEW from, NEW to, <<from, to>> \in Link, <<to, from>> \in Link,
           net[<<from, to>>] # <<>>, NEW ps \in Seq(Packet),
           Exchange(from, to, 1, from, ps)
    PROVE  /\ net'[<<from, to>>] \in Seq(Packet) /\ net'[<<to, from>>] \in Seq(Packet)
           /\ LeftOf(net'[<<from, to>>], net[<<from, to>>])
           /\ LeftOf(net'[<<to, from>>], net[<<to, from>>] \o ps)
           /\ \A l \in Link \ {<<from, to>>, <<to, from>>} : net'[l] = net[l]
<1>1. net \in [Link -> Seq(Packet)] /\ <<from, to>> # <<to, from>>  BY DEF NetTypes, Link
<1> DEFINE q == net[<<from, to>>]
           b == net[<<to, from>>]
           cut == SubSeq(b \o ps, 1, Lesser(NetCap, Len(b) + Len(ps)))
           less == SubSeq(q, 1, 1 - 1) \o SubSeq(q, 1 + 1, Len(q))
           rest == [net EXCEPT ![<<from, to>>] = less]
<1>2. q \in Seq(Packet) /\ b \in Seq(Packet)  BY <1>1
<1>3. less = Tail(q) /\ Tail(q) \in Seq(Packet) /\ LeftOf(Tail(q), q)  BY <1>2, TakenLeft
<1>4. cut \in Seq(Packet) /\ LeftOf(cut, b \o ps)  BY <1>2, CutLeft
<1>5. rest[<<to, from>>] = b  BY <1>1
<1>6. net' = [rest EXCEPT ![<<to, from>>] = cut]  BY <1>5 DEF Exchange
<1> HIDE DEF cut, less
<1> QED  BY <1>1, <1>3, <1>4, <1>6

-----------------------------------------------------------------------------
(* A step of one circuit *)

\* What the invariant says of the tables once a circuit was opened.
LEMMA StreamFacts ==
    ASSUME Inv, StreamInv, circuit # <<>>
    PROVE  /\ circuit \in Seq(Circuit) /\ Newest \in Nat /\ Newest >= 1
           /\ DOMAIN circuit = 1 .. Newest /\ 1 \in DOMAIN circuit /\ Newest \in DOMAIN circuit
           /\ Cast /\ Together(circuit[1], Other, net[To], net[From])
           /\ Joined(circuit[1], Other, net[To], net[From])
           /\ Origin \in Node /\ Peer \in Node /\ Origin # Peer /\ circuit[1].localKey \in Key
           /\ To \in Link /\ From \in Link /\ To # From
           /\ net[To] \in Seq(Packet) /\ net[From] \in Seq(Packet)
           /\ KeyOf(circuit[1]) \in Node \X Key /\ circuit[1].inc = 1
<1>1. circuit \in Seq(Circuit)  BY DEF Inv, TableInv, TableTypes
<1>2. /\ Newest \in Nat /\ Newest >= 1 /\ DOMAIN circuit = 1 .. Newest
      /\ 1 \in DOMAIN circuit /\ Newest \in DOMAIN circuit
  BY <1>1 DEF Newest
<1>3. /\ Cast /\ Together(circuit[1], Other, net[To], net[From])
      /\ Joined(circuit[1], Other, net[To], net[From])
  BY DEF StreamInv, Together
<1>4. circuit[1] \in Circuit /\ circuit[1].inc = 1
  BY <1>2, CircuitIsSound DEF Inv, Sound
<1>5. /\ Origin \in Node /\ Peer \in Node /\ Origin # Peer /\ circuit[1].localKey \in Key
  BY <1>3, <1>4 DEF Origin, Peer, Circuit, Cast
<1>6. To \in Link /\ From \in Link /\ To # From  BY <1>5 DEF To, From, Link
<1>7. net[To] \in Seq(Packet) /\ net[From] \in Seq(Packet)  BY <1>6 DEF Inv, NetTypes
<1>8. KeyOf(circuit[1]) \in Node \X Key  BY <1>5 DEF KeyOf, Origin
<1> QED  BY <1>1, <1>2, <1>3, <1>4, <1>5, <1>6, <1>7, <1>8

\* The circuits keep their places, and the newest two ends stay joined.
LEMMA CastKept ==
    ASSUME Inv, StreamInv, circuit # <<>>,
           circuit' \in Seq(Circuit), Len(circuit') = Len(circuit),
           \A i \in DOMAIN circuit : SameIdentity(circuit[i], circuit'[i]),
           \A i \in DOMAIN circuit \ {1, Newest} :
              Gone(circuit'[i]),
           \A l \in Link \ {To, From} : net'[l] = net[l],
           Newest # 1 /\ circuit'[Newest].reason = "None" =>
              byPeerKey'[Peer][KeyOf(circuit[1])] = Newest,
           NEW d, d = IF Newest = 1 THEN Unborn ELSE circuit'[Newest],
           Together(circuit'[1], d, net'[To], net'[From])
    PROVE  StreamInv'
<1>1. /\ Newest \in Nat /\ Newest >= 1 /\ DOMAIN circuit = 1 .. Newest
      /\ 1 \in DOMAIN circuit /\ Newest \in DOMAIN circuit /\ Cast
  BY StreamFacts
<1>2. DOMAIN circuit' = DOMAIN circuit /\ Newest' = Newest /\ circuit' # <<>>
  BY <1>1 DEF Newest
<1>3. \A i \in DOMAIN circuit :
         /\ circuit'[i].node = circuit[i].node /\ circuit'[i].remoteNode = circuit[i].remoteNode
         /\ circuit'[i].localKey = circuit[i].localKey /\ circuit'[i].inc = circuit[i].inc
         /\ circuit'[i].mintedFor = circuit[i].mintedFor
         /\ circuit'[i].peerKey = circuit[i].peerKey
         /\ circuit'[i].windowSize = circuit[i].windowSize
  BY DEF SameIdentity
<1>4. Origin' = Origin /\ Peer' = Peer  BY <1>1, <1>3 DEF Origin, Peer
<1>5. To' = To /\ From' = From  BY <1>4 DEF To, From
<1>6. KeyOf(circuit[1])' = KeyOf(circuit[1])  BY <1>1, <1>3 DEF KeyOf
<1>7. Unborn' = Unborn  BY <1>4, <1>6 DEF Unborn
<1>8. Other' = d  BY <1>2, <1>7 DEF Other
<1>9. Cast'
  <2>1. /\ circuit'[1].mintedFor = 0 /\ Origin' # Peer'
        /\ \A i \in DOMAIN circuit' : circuit'[i].windowSize = WindowSize[circuit'[i].node]
    BY <1>1, <1>2, <1>3, <1>4 DEF Cast
  <2>2. \A i \in DOMAIN circuit' \ {1} : MintedFrom(circuit'[1], circuit'[i])
    BY <1>1, <1>2, <1>3 DEF Cast, MintedFrom, KeyOf
  <2>3. \A l \in Link \ {To', From'} : net'[l] = <<>>  BY <1>1, <1>5 DEF Cast
  <2> QED  BY <1>2, <1>4, <1>6, <2>1, <2>2, <2>3 DEF Cast
<1> QED  BY <1>2, <1>5, <1>8, <1>9 DEF StreamInv

\* A handler ran on circuit i, be it one of the two ends or an older one.
LEMMA EndStep ==
    ASSUME Inv, StreamInv, circuit # <<>>, NEW i \in DOMAIN circuit,
           NEW e \in Evolutions(circuit[i]), Update(i, e),
           circuit[i].reason = "None" \/ e.reason = circuit[i].reason,
           i \notin {1, Newest} => e.got = <<>>,
           \A l \in Link \ {To, From} : net'[l] = net[l],
           Together(IF i = 1 THEN AtRest(e) ELSE circuit[1],
                  IF Newest = 1 THEN Unborn
                  ELSE IF i = Newest THEN AtRest(e) ELSE circuit[Newest],
                  net'[To], net'[From])
    PROVE  StreamInv'
<1>1. /\ circuit \in Seq(Circuit) /\ Newest \in Nat /\ Newest >= 1
      /\ DOMAIN circuit = 1 .. Newest /\ 1 \in DOMAIN circuit /\ Newest \in DOMAIN circuit
      /\ Cast /\ Origin # Peer /\ Peer \in Node /\ Origin \in Node
      /\ KeyOf(circuit[1]) \in Node \X Key
  BY StreamFacts
<1> DEFINE d == AtRest(e)
<1>2. e \in Sound /\ SameIdentity(circuit[i], e)  BY DEF Evolutions
<1>3. /\ d \in Sound /\ SameIdentity(circuit[i], d) /\ d.reason = e.reason
      /\ d.out = <<>> /\ d.got = e.got
  BY <1>2, RestFields DEF SameIdentity
<1>4. circuit' = [circuit EXCEPT ![i] = d]  BY DEF Update
<1> HIDE DEF d
<1>5. /\ circuit' \in Seq(Circuit) /\ Len(circuit') = Len(circuit)
      /\ \A j \in 1 .. Len(circuit) : circuit'[j] = IF j = i THEN d ELSE circuit[j]
  BY <1>1, <1>3, <1>4, ExceptSeq DEF Sound, Newest
<1>6. \A j \in DOMAIN circuit : circuit'[j] = IF j = i THEN d ELSE circuit[j]
  BY <1>1, <1>5 DEF Newest
<1>7. \A j \in DOMAIN circuit : SameIdentity(circuit[j], circuit'[j])
  BY <1>3, <1>6 DEF SameIdentity
<1>8. \A j \in DOMAIN circuit \ {1, Newest} :
         Gone(circuit'[j])
  BY <1>1, <1>3, <1>6 DEF Cast, Gone
<1>9. ASSUME Newest # 1, circuit'[Newest].reason = "None"
      PROVE  byPeerKey'[Peer][KeyOf(circuit[1])] = Newest
  <2>1. circuit[Newest].reason = "None"  BY <1>1, <1>3, <1>6, <1>9
  <2>2. byPeerKey[Peer][KeyOf(circuit[1])] = Newest  BY <1>1, <1>9, <2>1 DEF Cast
  <2>3. CASE ~Closes(i, e)  BY <2>2, <2>3 DEF Update
  <2>4. CASE Closes(i, e)
    <3>1. i # Newest  BY <1>3, <1>6, <1>9, <2>4 DEF Closes
    <3>2. i = 1  BY <1>1, <2>4, <3>1 DEF Closes, Cast, Gone
    <3>3. e.node = Origin  BY <1>2, <3>2 DEF SameIdentity, Origin
    <3>4. byPeerKey' = byPeerKey \/ byPeerKey' = [byPeerKey EXCEPT ![Origin][e.peerKey] = 0]
      BY <2>4, <3>3 DEF Update
    <3>5. Peer \in DOMAIN byPeerKey  BY <1>1, TableFacts DEF Inv
    <3>6. byPeerKey'[Peer] = byPeerKey[Peer]  BY <1>1, <3>4, <3>5
    <3> QED  BY <2>2, <3>6
  <2> QED  BY <2>3, <2>4
<1>10. circuit'[1] = (IF i = 1 THEN d ELSE circuit[1])
       /\ circuit'[Newest] = (IF i = Newest THEN d ELSE circuit[Newest])
  BY <1>1, <1>6
<1>11. Together(circuit'[1], IF Newest = 1 THEN Unborn ELSE circuit'[Newest], net'[To], net'[From])
  BY <1>10 DEF d
<1> QED  BY <1>5, <1>7, <1>8, <1>9, <1>11, CastKept

\* Whatever is taken or lost meanwhile, the ends are joined after e ran.
OpenerBecomes(e) ==
    \A t, f \in Seq(Packet) : LeftOf(t, net[To] \o e.out) /\ LeftOf(f, net[From]) =>
        Together(AtRest(e), Other, t, f)
PeerBecomes(e) ==
    \A t, f \in Seq(Packet) : LeftOf(t, net[To]) /\ LeftOf(f, net[From] \o e.out) =>
        Together(circuit[1], AtRest(e), t, f)

\* A local call or the timer of the opener.
LEMMA LocalOpener ==
    ASSUME Inv, StreamInv, circuit # <<>>, NEW e \in Evolutions(circuit[1]),
           circuit[1].reason = "None" \/ e.reason = circuit[1].reason,
           LocalStep(1, e), OpenerBecomes(e)
    PROVE  StreamInv'
<1>1. /\ 1 \in DOMAIN circuit /\ To \in Link /\ From \in Link /\ To # From
      /\ net[To] \in Seq(Packet) /\ net[From] \in Seq(Packet)
  BY StreamFacts
<1>2. Update(1, e) /\ Ship(e.node, e.remoteNode, e.out)  BY DEF LocalStep
<1>3. e.node = Origin /\ e.remoteNode = Peer  BY DEF Evolutions, SameIdentity, Origin, Peer
<1>4. e.out \in Seq(Packet)  BY AtRestType DEF Evolutions
<1>5. Ship(Origin, Peer, e.out) /\ NetTypes  BY <1>2, <1>3 DEF Inv
<1>6. /\ net'[To] \in Seq(Packet) /\ LeftOf(net'[To], net[To] \o e.out)
      /\ \A l \in Link \ {To} : net'[l] = net[l]
  BY <1>1, <1>4, <1>5, ShipLeft DEF To
<1>7. net'[From] = net[From]  BY <1>1, <1>6
<1>8. LeftOf(net[From], net[From])  BY <1>1, LeftSelf
<1>9. Together(AtRest(e), Other, net'[To], net'[From])
  BY <1>1, <1>6, <1>7, <1>8 DEF OpenerBecomes
<1>10. Together(AtRest(e), IF Newest = 1 THEN Unborn
                         ELSE IF 1 = Newest THEN AtRest(e) ELSE circuit[Newest],
              net'[To], net'[From])
  BY <1>9 DEF Other
<1> QED  BY <1>1, <1>2, <1>6, <1>10, EndStep

\* A local call or the timer of the peer.
LEMMA LocalPeer ==
    ASSUME Inv, StreamInv, circuit # <<>>, Newest # 1, NEW e \in Evolutions(circuit[Newest]),
           circuit[Newest].reason = "None" \/ e.reason = circuit[Newest].reason,
           LocalStep(Newest, e), PeerBecomes(e)
    PROVE  StreamInv'
<1>1. /\ Newest \in DOMAIN circuit /\ To \in Link /\ From \in Link /\ To # From
      /\ net[To] \in Seq(Packet) /\ net[From] \in Seq(Packet) /\ Cast
  BY StreamFacts
<1>2. Update(Newest, e) /\ Ship(e.node, e.remoteNode, e.out)  BY DEF LocalStep
<1>3. e.node = Peer /\ e.remoteNode = Origin
  BY <1>1 DEF Evolutions, SameIdentity, Cast, MintedFrom, Origin, Peer
<1>4. e.out \in Seq(Packet)  BY AtRestType DEF Evolutions
<1>5. Ship(Peer, Origin, e.out) /\ NetTypes  BY <1>2, <1>3 DEF Inv
<1>6. /\ net'[From] \in Seq(Packet) /\ LeftOf(net'[From], net[From] \o e.out)
      /\ \A l \in Link \ {From} : net'[l] = net[l]
  BY <1>1, <1>4, <1>5, ShipLeft DEF From
<1>7. net'[To] = net[To]  BY <1>1, <1>6
<1>8. LeftOf(net[To], net[To])  BY <1>1, LeftSelf
<1>9. Together(circuit[1], AtRest(e), net'[To], net'[From])
  BY <1>1, <1>6, <1>7, <1>8 DEF PeerBecomes
<1>10. Together(IF Newest = 1 THEN AtRest(e) ELSE circuit[1],
              IF Newest = 1 THEN Unborn
              ELSE IF Newest = Newest THEN AtRest(e) ELSE circuit[Newest],
              net'[To], net'[From])
  BY <1>9
<1> QED  BY <1>1, <1>2, <1>6, <1>10, EndStep

-----------------------------------------------------------------------------
(* The applications' and the host's steps *)

\* A circuit that has not closed is the opener or the newest peer.
LEMMA LiveEnds ==
    ASSUME Inv, StreamInv, NEW i \in DOMAIN circuit, circuit[i].reason = "None"
    PROVE  /\ circuit # <<>>
           /\ i = 1 \/ (i = Newest /\ Newest # 1 /\ Other = circuit[Newest])
<1>1. circuit # <<>>  OBVIOUS
<1>2. i \in {1, Newest}  BY <1>1, StreamFacts DEF Cast, Gone
<1> QED  BY <1>1, <1>2 DEF Other

\* A local call on an end that has not closed.
LEMMA LocalStream ==
    ASSUME Inv, StreamInv, NEW i \in DOMAIN circuit, circuit[i].reason = "None",
           NEW e \in Evolutions(circuit[i]), LocalStep(i, e),
           i = 1 => OpenerBecomes(e), i # 1 /\ Other = circuit[i] => PeerBecomes(e)
    PROVE  StreamInv'
<1>1. circuit # <<>>  OBVIOUS
<1>2. CASE i = 1  BY <1>1, <1>2, LocalOpener
<1>3. CASE i # 1
  <2>1. i = Newest /\ Newest # 1 /\ Other = circuit[i]  BY <1>3, LiveEnds
  <2> QED  BY <1>1, <1>3, <2>1, LocalPeer
<1> QED  BY <1>2, <1>3

\* The two ends a local call finds.
LEMMA EndsJoined ==
    ASSUME Inv, StreamInv, circuit # <<>>
    PROVE  /\ Together(circuit[1], Other, net[To], net[From])
           /\ net[To] \in Seq(Packet) /\ net[From] \in Seq(Packet)
BY StreamFacts

\* An application writes.
LEMMA AppSendStream ==
    ASSUME Inv, StreamInv, NEW i \in DOMAIN circuit, NEW size \in FrameSizes, AppSend(i, size)
    PROVE  StreamInv'
<1> DEFINE e == Send(circuit[i], size)
<1>1. circuit[i].state = "Connected" /\ LocalStep(i, e)  BY DEF AppSend
<1>2. circuit[i] \in Sound /\ size \in Nat /\ circuit # <<>>  BY SoundCircuit, NetworkAssumption
<1>3. e \in Evolutions(circuit[i])  BY <1>2, SendType, Transitivity
<1>4. circuit[i].reason = "None"  BY <1>1, <1>2 DEF Sound, EndIsSound
<1>5. ASSUME i = 1 PROVE OpenerBecomes(e)
  BY <1>1, <1>2, <1>5, EndsJoined, OpenerSendsTogether DEF OpenerBecomes
<1>6. ASSUME i # 1, Other = circuit[i] PROVE PeerBecomes(e)
  BY <1>1, <1>2, <1>6, EndsJoined, PeerSendsTogether DEF PeerBecomes
<1> HIDE DEF e
<1> QED  BY <1>1, <1>3, <1>4, <1>5, <1>6, LocalStream

\* An application disconnects.
LEMMA AppDisconnectStream ==
    ASSUME Inv, StreamInv, NEW i \in DOMAIN circuit, AppDisconnect(i)
    PROVE  StreamInv'
<1> DEFINE e == Disconnect(circuit[i])
<1>1. circuit[i].state \in {"Connecting", "Connected"} /\ LocalStep(i, e)
  BY NetworkAssumption DEF AppDisconnect
<1>2. circuit[i] \in Sound /\ circuit # <<>>  BY SoundCircuit
<1>3. e \in Evolutions(circuit[i])  BY <1>2, DisconnectType
<1>4. circuit[i].reason = "None"  BY <1>1, <1>2 DEF Sound, EndIsSound
<1>5. ASSUME i = 1 PROVE OpenerBecomes(e)
  <2>1. HangsUpOpen => circuit[1].state = "Connected"
    BY <1>5 DEF AppDisconnect, HangsUpOpen
  <2> QED  BY <1>1, <1>2, <1>5, <2>1, EndsJoined, OpenerDisconnectsTogether DEF OpenerBecomes
<1>6. ASSUME i # 1, Other = circuit[i] PROVE PeerBecomes(e)
  <2>1. Together(circuit[1], circuit[i], net[To], net[From])  BY <1>2, <1>6, EndsJoined
  <2>2. circuit[i].state = "Connected"  BY <1>1, <2>1 DEF Together, Joined, Roles
  <2> QED  BY <1>2, <2>1, <2>2, EndsJoined, PeerDisconnectsTogether DEF PeerBecomes
<1> HIDE DEF e
<1> QED  BY <1>1, <1>3, <1>4, <1>5, <1>6, LocalStream

\* An application reads, possibly from a circuit that closed long ago.
LEMMA AppDrainStream ==
    ASSUME Inv, StreamInv, NEW i \in DOMAIN circuit, AppDrain(i)
    PROVE  StreamInv'
<1> DEFINE e == OnDeliveryDrained(circuit[i])
<1>1. LocalStep(i, e)  BY DEF AppDrain
<1>2. circuit[i] \in Sound /\ circuit # <<>>  BY SoundCircuit
<1>3. e \in DataSteps(circuit[i])  BY <1>2, OnDeliveryDrainedType
<1>4. e \in Evolutions(circuit[i]) /\ e.reason = circuit[i].reason
  BY <1>3, Transitivity DEF DataSteps, SameState
<1>5. ASSUME i = 1 PROVE OpenerBecomes(e)
  BY <1>2, <1>5, EndsJoined, OpenerDrainsTogether DEF OpenerBecomes
<1>6. ASSUME i # 1, Other = circuit[i] PROVE PeerBecomes(e)
  BY <1>2, <1>6, EndsJoined, PeerDrainsTogether DEF PeerBecomes
<1>7. ASSUME i \notin {1, Newest} PROVE StreamInv'
  <2>1. /\ 1 \in DOMAIN circuit /\ To \in Link /\ From \in Link /\ To # From /\ Cast
        /\ net[To] \in Seq(Packet) /\ net[From] \in Seq(Packet)
        /\ Together(circuit[1], Other, net[To], net[From])
    BY <1>2, StreamFacts
  <2>2. Gone(circuit[i])
    BY <1>7, <2>1 DEF Cast
  <2>3. circuit[i].state # "Connected"  BY <1>2, <2>2 DEF Gone, Sound, EndIsSound
  <2>4. e.out = <<>> /\ e.got = <<>>  BY <1>2, <2>2, <2>3, ClosedDrained DEF Gone
  <2> HIDE DEF e
  <2>5. Update(i, e) /\ Ship(e.node, e.remoteNode, e.out)  BY <1>1 DEF LocalStep
  <2>6. e.node = Peer /\ e.remoteNode = Origin
    BY <1>4, <1>7, <2>1 DEF Evolutions, SameIdentity, Cast, MintedFrom, Origin, Peer
  <2>7. Ship(Peer, Origin, <<>>) /\ NetTypes /\ <<>> \in Seq(Packet)
    BY <2>4, <2>5, <2>6 DEF Inv
  <2>8. /\ net'[From] \in Seq(Packet) /\ LeftOf(net'[From], net[From] \o <<>>)
        /\ \A l \in Link \ {From} : net'[l] = net[l]
    BY <2>1, <2>7, ShipLeft DEF From
  <2>9. net'[To] = net[To] /\ LeftOf(net[To], net[To])  BY <2>1, <2>8, LeftSelf
  <2>10. net[From] \o <<>> = net[From]  BY <2>1
  <2>11. Together(circuit[1], Other, net'[To], net'[From])
    BY <2>1, <2>8, <2>9, <2>10, TogetherQueues
  <2>12. Together(IF i = 1 THEN AtRest(e) ELSE circuit[1],
                IF Newest = 1 THEN Unborn ELSE IF i = Newest THEN AtRest(e) ELSE circuit[Newest],
                net'[To], net'[From])
    BY <1>7, <2>11 DEF Other
  <2> QED  BY <1>2, <1>4, <2>4, <2>5, <2>8, <2>12, EndStep
<1>8. CASE i = 1
  <2> HIDE DEF e
  <2>1. OpenerBecomes(e)  BY <1>5, <1>8
  <2> QED  BY <1>1, <1>2, <1>4, <1>8, <2>1, LocalOpener
<1>9. CASE i = Newest /\ i # 1
  <2> HIDE DEF e
  <2>1. PeerBecomes(e)  BY <1>6, <1>9 DEF Other
  <2> QED  BY <1>1, <1>2, <1>4, <1>9, <2>1, LocalPeer
<1> QED  BY <1>7, <1>8, <1>9

\* A circuit the listener left for later is the newest peer.
LEMMA DeferredIs ==
    ASSUME Inv, StreamInv, NEW i \in DOMAIN circuit, Deferred(i)
    PROVE  /\ circuit[i] \in Sound /\ circuit # <<>> /\ i # 1
           /\ circuit[i].state = "Disconnected" /\ circuit[i].reason = "None"
           /\ circuit[i].peerKey[2] \in Key /\ circuit[i].remoteNode \in Node
           /\ WindowSize[circuit[i].remoteNode] = circuit[1].windowSize
<1>1. /\ circuit[i] \in Sound /\ circuit[i].state = "Disconnected" /\ circuit[i].reason = "None"
      /\ circuit[i].peerKey[2] \in Key /\ circuit[i].remoteNode \in Node
  BY DeferredFacts
<1>2. circuit # <<>>  OBVIOUS
<1>3. Cast  BY <1>2, StreamFacts
<1>4. i # 1  BY <1>3 DEF Cast, Deferred
<1>5. circuit[i].remoteNode = Origin  BY <1>3, <1>4 DEF Cast, MintedFrom, Origin
<1>6. circuit[1].windowSize = WindowSize[Origin]  BY <1>2, <1>3, StreamFacts DEF Cast, Origin
<1> QED  BY <1>1, <1>2, <1>4, <1>5, <1>6

\* The host accepts an inbound circuit.
LEMMA AcceptIncomingStream ==
    ASSUME Inv, StreamInv, NEW i \in DOMAIN circuit, AcceptIncoming(i)
    PROVE  StreamInv'
<1> DEFINE w == Clamp(WindowSize[circuit[i].remoteNode], 1, MaxWindow)
           k == circuit[i].peerKey[2]
           e == AcceptInbound(circuit[i], k, w)
<1>1. Deferred(i) /\ LocalStep(i, e)  BY DEF AcceptIncoming
<1>2. /\ circuit[i] \in Sound /\ circuit # <<>> /\ i # 1
      /\ circuit[i].state = "Disconnected" /\ circuit[i].reason = "None"
      /\ k \in Key /\ circuit[i].remoteNode \in Node
      /\ WindowSize[circuit[i].remoteNode] = circuit[1].windowSize
  BY <1>1, DeferredIs
<1>3. w \in Nat /\ w = Clamp(circuit[1].windowSize, 1, MaxWindow)
  <2>1. WindowSize[circuit[i].remoteNode] \in Nat  BY <1>2, NetworkAssumption
  <2> QED  BY <1>2, <2>1, HorizonFacts DEF Clamp
<1> HIDE DEF w
<1>4. e \in Evolutions(circuit[i])  BY <1>2, <1>3, AcceptInboundType
<1>5. ASSUME Other = circuit[i] PROVE PeerBecomes(e)
  BY <1>2, <1>3, <1>5, EndsJoined, PeerAcceptsTogether DEF PeerBecomes
<1> HIDE DEF e
<1> QED  BY <1>1, <1>2, <1>4, <1>5, LocalStream

\* The host refuses an inbound circuit.
LEMMA RefuseIncomingStream ==
    ASSUME Inv, StreamInv, NEW i \in DOMAIN circuit, RefuseIncoming(i)
    PROVE  StreamInv'
<1> DEFINE k == circuit[i].peerKey[2]
           e == [RefuseInbound(circuit[i], k) EXCEPT !.reason = "Refused"]
<1>1. Deferred(i) /\ LocalStep(i, e)  BY DEF RefuseIncoming
<1>2. /\ circuit[i] \in Sound /\ circuit # <<>> /\ i # 1
      /\ circuit[i].state = "Disconnected" /\ circuit[i].reason = "None" /\ k \in Key
  BY <1>1, DeferredIs
<1>3. e \in Evolutions(circuit[i])  BY <1>2, RefuseInboundType
<1>4. ASSUME Other = circuit[i] PROVE PeerBecomes(e)
  BY <1>2, <1>4, EndsJoined, PeerRefusesTogether DEF PeerBecomes
<1> HIDE DEF e
<1> QED  BY <1>1, <1>2, <1>3, <1>4, LocalStream

\* A timer expires; by assumption nothing is under way when it gives up.
LEMMA TickCircuitStream ==
    ASSUME Inv, StreamInv, OneStream, NEW i \in DOMAIN circuit, TickCircuit(i)
    PROVE  StreamInv'
<1> DEFINE e == Tick(circuit[i])
<1>1. TimerRunning(circuit[i]) /\ LocalStep(i, e)  BY DEF TickCircuit
<1>2. circuit[i] \in Sound /\ circuit # <<>>  BY SoundCircuit
<1>3. e \in Evolutions(circuit[i])  BY <1>1, <1>2, TickType
<1>4. circuit[i].reason = "None"  BY <1>1, <1>2 DEF TimerRunning, Sound, EndIsSound
<1>5. ASSUME i = 1 PROVE OpenerBecomes(e)
  BY <1>1, <1>2, <1>5, EndsJoined, OpenerTicksTogether DEF OpenerBecomes
<1>6. ASSUME i # 1, Other = circuit[i] PROVE PeerBecomes(e)
  <2>1. Cast  BY <1>2, StreamFacts
  <2>2. circuit[i].node = Peer /\ circuit[i].remoteNode = Origin
    BY <1>6, <2>1 DEF Cast, MintedFrom, Origin, Peer
  <2>3. RetriesSpent(circuit[i]) => net[To] = <<>> /\ net[From] = <<>>
    BY <2>2 DEF TickCircuit, OneStream, Quiet, To, From
  <2> QED  BY <1>1, <1>2, <1>6, <2>3, EndsJoined, PeerTicksTogether DEF PeerBecomes
<1> HIDE DEF e
<1> QED  BY <1>1, <1>3, <1>4, <1>5, <1>6, LocalStream

-----------------------------------------------------------------------------
(* The network's steps *)

\* The tables stay and the queues shrink, or grow by an answer.
LEMMA NetStep ==
    ASSUME Inv, StreamInv, circuit # <<>>, UNCHANGED tables,
           \A l \in Link \ {To, From} : net'[l] = net[l],
           Together(circuit[1], Other, net'[To], net'[From])
    PROVE  StreamInv'
<1>1. circuit' = circuit /\ byPeerKey' = byPeerKey  BY DEF tables
<1>2. /\ circuit \in Seq(Circuit) /\ DOMAIN circuit = 1 .. Newest /\ Newest \in DOMAIN circuit
      /\ 1 \in DOMAIN circuit /\ Cast
  BY StreamFacts
<1>3. circuit' \in Seq(Circuit) /\ Len(circuit') = Len(circuit)  BY <1>1, <1>2
<1>4. \A i \in DOMAIN circuit : SameIdentity(circuit[i], circuit'[i])
  BY <1>1 DEF SameIdentity
<1>5. \A i \in DOMAIN circuit \ {1, Newest} :
         Gone(circuit'[i])
  BY <1>1, <1>2 DEF Cast
<1>6. Newest # 1 /\ circuit'[Newest].reason = "None" =>
         byPeerKey'[Peer][KeyOf(circuit[1])] = Newest
  BY <1>1, <1>2 DEF Cast
<1>7. Together(circuit'[1], IF Newest = 1 THEN Unborn ELSE circuit'[Newest], net'[To], net'[From])
  BY <1>1 DEF Other
<1> QED  BY <1>3, <1>4, <1>5, <1>6, <1>7, CastKept

\* Only the links between the two ends ever carry anything.
LEMMA BusyLinks ==
    ASSUME Inv, StreamInv, NEW l \in Link, net[l] # <<>>
    PROVE  circuit # <<>> /\ l \in {To, From}
<1>1. circuit # <<>>  BY DEF StreamInv
<1> QED  BY <1>1, StreamFacts DEF Cast

\* The network loses a packet.
LEMMA LoseStream ==
    ASSUME Inv, StreamInv, NEW l \in Link, Lose(l)
    PROVE  StreamInv'
<1>1. net[l] # <<>> /\ net' = [net EXCEPT ![l] = Tail(net[l])] /\ UNCHANGED tables  BY DEF Lose
<1>2. circuit # <<>> /\ l \in {To, From}  BY <1>1, BusyLinks
<1>3. /\ To \in Link /\ From \in Link /\ To # From
      /\ net[To] \in Seq(Packet) /\ net[From] \in Seq(Packet)
      /\ Together(circuit[1], Other, net[To], net[From])
  BY <1>2, StreamFacts
<1>4. net \in [Link -> Seq(Packet)]  BY DEF Inv, NetTypes
<1>5. Tail(net[l]) \in Seq(Packet) /\ LeftOf(Tail(net[l]), net[l])
  BY <1>1, <1>4, TakenLeft
<1>6. /\ net'[l] = Tail(net[l])
      /\ \A k \in Link \ {l} : net'[k] = net[k]
  BY <1>1, <1>4
<1>7. /\ net'[To] \in Seq(Packet) /\ LeftOf(net'[To], net[To])
      /\ net'[From] \in Seq(Packet) /\ LeftOf(net'[From], net[From])
  <2>1. LeftOf(net[To], net[To]) /\ LeftOf(net[From], net[From])  BY <1>3, LeftSelf
  <2> QED  BY <1>2, <1>3, <1>5, <1>6, <2>1
<1>8. Together(circuit[1], Other, net'[To], net'[From])  BY <1>3, <1>7, TogetherQueues
<1>9. \A k \in Link \ {To, From} : net'[k] = net[k]  BY <1>2, <1>6
<1> QED  BY <1>1, <1>2, <1>8, <1>9, NetStep

\* The receipt of a packet by the opener's circuit.
LEMMA HandleAtOpener ==
    ASSUME Inv, StreamInv, circuit # <<>>, net[From] # <<>>, NEW e \in Evolutions(circuit[1]),
           circuit[1].reason = "None", Update(1, e),
           Exchange(Peer, Origin, 1, e.remoteNode, e.out), OpenerBecomes(e)
    PROVE  StreamInv'
<1>1. 1 \in DOMAIN circuit /\ To \in Link /\ From \in Link  BY StreamFacts
<1>2. Exchange(Peer, Origin, 1, Peer, e.out) /\ NetTypes
  BY DEF Evolutions, SameIdentity, Peer, Inv
<1>3. e.out \in Seq(Packet)  BY AtRestType DEF Evolutions
<1>4. /\ net'[From] \in Seq(Packet) /\ net'[To] \in Seq(Packet)
      /\ LeftOf(net'[From], net[From]) /\ LeftOf(net'[To], net[To] \o e.out)
      /\ \A l \in Link \ {To, From} : net'[l] = net[l]
  BY <1>1, <1>2, <1>3, ExchangeLeft DEF To, From
<1>5. Together(AtRest(e), Other, net'[To], net'[From])  BY <1>4 DEF OpenerBecomes
<1>6. Together(AtRest(e), IF Newest = 1 THEN Unborn
                        ELSE IF 1 = Newest THEN AtRest(e) ELSE circuit[Newest],
             net'[To], net'[From])
  BY <1>5 DEF Other
<1> QED  BY <1>1, <1>4, <1>6, EndStep

\* The receipt of a packet by the peer's circuit.
LEMMA HandleAtPeer ==
    ASSUME Inv, StreamInv, circuit # <<>>, net[To] # <<>>, Newest # 1,
           NEW e \in Evolutions(circuit[Newest]), circuit[Newest].reason = "None",
           Update(Newest, e), Exchange(Origin, Peer, 1, e.remoteNode, e.out), PeerBecomes(e)
    PROVE  StreamInv'
<1>1. Newest \in DOMAIN circuit /\ To \in Link /\ From \in Link /\ Cast  BY StreamFacts
<1>2. e.remoteNode = Origin
  BY <1>1 DEF Evolutions, SameIdentity, Cast, MintedFrom, Origin
<1>3. Exchange(Origin, Peer, 1, Origin, e.out) /\ NetTypes  BY <1>2 DEF Inv
<1>4. e.out \in Seq(Packet)  BY AtRestType DEF Evolutions
<1>5. /\ net'[From] \in Seq(Packet) /\ net'[To] \in Seq(Packet)
      /\ LeftOf(net'[To], net[To]) /\ LeftOf(net'[From], net[From] \o e.out)
      /\ \A l \in Link \ {To, From} : net'[l] = net[l]
  BY <1>1, <1>3, <1>4, ExchangeLeft DEF To, From
<1>6. Together(circuit[1], AtRest(e), net'[To], net'[From])  BY <1>5 DEF PeerBecomes
<1>7. Together(IF Newest = 1 THEN AtRest(e) ELSE circuit[1],
             IF Newest = 1 THEN Unborn
             ELSE IF Newest = Newest THEN AtRest(e) ELSE circuit[Newest],
             net'[To], net'[From])
  BY <1>6
<1> QED  BY <1>1, <1>5, <1>7, EndStep

\* A packet for no circuit reaches the opener's node.
LEMMA AnswerAtOpener ==
    ASSUME Inv, StreamInv, circuit # <<>>, net[From] # <<>>, NEW ps \in Seq(Packet),
           Answer(Origin, Peer, 1, ps),
           \A t, f \in Seq(Packet) : LeftOf(t, net[To] \o ps) /\ LeftOf(f, net[From]) =>
               Together(circuit[1], Other, t, f)
    PROVE  StreamInv'
<1>1. To \in Link /\ From \in Link  BY StreamFacts
<1>2. Exchange(Peer, Origin, 1, Peer, ps) /\ UNCHANGED tables /\ NetTypes  BY DEF Answer, Inv
<1>3. /\ net'[From] \in Seq(Packet) /\ net'[To] \in Seq(Packet)
      /\ LeftOf(net'[From], net[From]) /\ LeftOf(net'[To], net[To] \o ps)
      /\ \A l \in Link \ {To, From} : net'[l] = net[l]
  BY <1>1, <1>2, ExchangeLeft DEF To, From
<1>4. Together(circuit[1], Other, net'[To], net'[From])  BY <1>3
<1> QED  BY <1>2, <1>3, <1>4, NetStep

\* A packet for no circuit reaches the peer's node.
LEMMA AnswerAtPeer ==
    ASSUME Inv, StreamInv, circuit # <<>>, net[To] # <<>>, NEW ps \in Seq(Packet),
           Answer(Peer, Origin, 1, ps),
           \A t, f \in Seq(Packet) : LeftOf(t, net[To]) /\ LeftOf(f, net[From] \o ps) =>
               Together(circuit[1], Other, t, f)
    PROVE  StreamInv'
<1>1. To \in Link /\ From \in Link  BY StreamFacts
<1>2. Exchange(Origin, Peer, 1, Origin, ps) /\ UNCHANGED tables /\ NetTypes  BY DEF Answer, Inv
<1>3. /\ net'[From] \in Seq(Packet) /\ net'[To] \in Seq(Packet)
      /\ LeftOf(net'[To], net[To]) /\ LeftOf(net'[From], net[From] \o ps)
      /\ \A l \in Link \ {To, From} : net'[l] = net[l]
  BY <1>1, <1>2, ExchangeLeft DEF To, From
<1>4. Together(circuit[1], Other, net'[To], net'[From])  BY <1>3
<1> QED  BY <1>2, <1>3, <1>4, NetStep

-----------------------------------------------------------------------------
(* Inbound packets *)

\* What comes in on a link is the oldest packet, on one of the two links.
LEMMA Arrival ==
    ASSUME Inv, StreamInv, OneStream, NEW from \in Node, NEW n \in Node, <<from, n>> \in Link,
           NEW i \in Deliverable(<<from, n>>)
    PROVE  /\ i = 1 /\ circuit # <<>> /\ net[<<from, n>>] # <<>>
           /\ \/ from = Origin /\ n = Peer /\ <<from, n>> = To
              \/ from = Peer /\ n = Origin /\ <<from, n>> = From
           /\ net[<<from, n>>][1] \in Packet /\ 1 \in DOMAIN net[<<from, n>>]
           /\ net[<<from, n>>][1].key \in Key /\ net[<<from, n>>][1].inc \in Nat
<1> DEFINE q == net[<<from, n>>]
<1>1. q \in Seq(Packet)  BY DEF Inv, NetTypes
<1>2. i \in 1 .. Lesser(1, Len(q))  BY DEF Deliverable, OneStream
<1>3. i = 1 /\ q # <<>>
  <2>1. Len(q) \in Nat /\ (q = <<>> => Len(q) = 0)  BY <1>1
  <2> HIDE DEF q
  <2> QED  BY <1>2, <2>1 DEF Lesser
<1>4. circuit # <<>> /\ <<from, n>> \in {To, From}  BY <1>3, BusyLinks
<1>5. \/ from = Origin /\ n = Peer /\ <<from, n>> = To
      \/ from = Peer /\ n = Origin /\ <<from, n>> = From
  BY <1>4 DEF To, From
<1>6. q[1] \in Packet /\ 1 \in DOMAIN q  BY <1>1, <1>3
<1>7. q[1].key \in Key /\ q[1].inc \in Nat  BY <1>6, PacketFields
<1> QED  BY <1>3, <1>4, <1>5, <1>6, <1>7

\* The circuit a packet at the opener's node is routed to is the opener.
LEMMA RoutedToOpener ==
    ASSUME Inv, StreamInv, circuit # <<>>, NEW k \in Key, NEW j, j = byLocalKey[Origin][k], j # 0
    PROVE  j = 1 /\ circuit[1].reason = "None"
<1>1. /\ Cast /\ Origin \in Node /\ Origin # Peer  BY StreamFacts
<1>2. j \in DOMAIN circuit /\ circuit[j].node = Origin /\ circuit[j].reason = "None"
  BY <1>1, LocalEntry DEF Inv
<1>3. j # 1 => circuit[j].node = Peer  BY <1>1, <1>2 DEF Cast, MintedFrom, Peer
<1> QED  BY <1>1, <1>2, <1>3

\* The circuit a packet at the peer's node is routed to is the newest peer.
LEMMA RoutedToPeer ==
    ASSUME Inv, StreamInv, circuit # <<>>, NEW k \in Key, NEW j, j = byLocalKey[Peer][k], j # 0
    PROVE  /\ j = Newest /\ Newest # 1 /\ circuit[Newest].reason = "None"
           /\ Other = circuit[Newest] /\ circuit[Newest] \in Sound
<1>1. /\ Cast /\ Peer \in Node /\ Origin # Peer  BY StreamFacts
<1>2. j \in DOMAIN circuit /\ circuit[j].node = Peer /\ circuit[j].reason = "None"
  BY <1>1, LocalEntry DEF Inv
<1>3. j # 1  BY <1>1, <1>2 DEF Origin
<1>4. j = Newest /\ Newest # 1 /\ Other = circuit[Newest]  BY <1>2, <1>3, LiveEnds
<1>5. circuit[Newest] \in Sound  BY <1>2, <1>4, SoundCircuit
<1> QED  BY <1>2, <1>4, <1>5

\* What reaches the opener's node is no Connect Request, and a Disconnect
\* Request there names the opener's key.
LEMMA ToOpener ==
    ASSUME Inv, StreamInv, circuit # <<>>, net[From] # <<>>
    PROVE  LET p == net[From][1]
           IN  /\ p.op # "ConnectRequest"
               /\ p.op = "DisconnectRequest" => p.key = circuit[1].localKey
<1>1. net[From] \in Seq(Packet) /\ Joined(circuit[1], Other, net[To], net[From])
      /\ net[To] \in Seq(Packet)
  BY StreamFacts
<1>2. 1 \in DOMAIN net[From]  BY <1>1
<1>3. /\ Shaken(Other, net[From]) /\ Other.mintedFor # 0 /\ Other.peerKey[2] = circuit[1].localKey
  BY <1>1, JoinedFacts DEF Pair, Direction
<1> QED  BY <1>2, <1>3 DEF Shaken

\* What a Connect Request that reaches the peer's node says.
LEMMA ToPeer ==
    ASSUME Inv, StreamInv, circuit # <<>>, net[To] # <<>>
    PROVE  LET p == net[To][1]
           IN  p.op = "ConnectRequest" =>
                  /\ p.key = circuit[1].localKey /\ p.inc = 1
                  /\ p.win = Clamp(circuit[1].windowSize, 1, MaxWindow)
                  /\ HasRequest(net[To])
<1>1. net[To] \in Seq(Packet) /\ Joined(circuit[1], Other, net[To], net[From])
      /\ net[From] \in Seq(Packet) /\ circuit[1].inc = 1
  BY StreamFacts
<1>2. 1 \in DOMAIN net[To]  BY <1>1
<1>3. Shaken(circuit[1], net[To])  BY <1>1, JoinedFacts DEF Pair, Direction
<1> QED  BY <1>1, <1>2, <1>3 DEF Shaken, HasRequest

\* Any packet but a Connect Request, at the opener's node.
LEMMA OtherAtOpener ==
    ASSUME Inv, StreamInv, circuit # <<>>, net[From] # <<>>, NEW p, p = net[From][1],
           p \in Packet, p.key \in Key, p.inc \in Nat, NEW r \in Reaction,
           NEW j, j = byLocalKey[Origin][p.key],
           \/ j # 0 /\ Handle(Origin, Peer, 1, p, j, r)
           \/ j = 0 /\ Reflect(Origin, Peer, 1, p)
    PROVE  StreamInv'
<1>1. /\ net[To] \in Seq(Packet) /\ net[From] \in Seq(Packet)
      /\ Together(circuit[1], Other, net[To], net[From]) /\ 1 \in DOMAIN circuit
      /\ circuit[1].localKey \in Key
  BY StreamFacts
<1>2. CASE j # 0
  <2> DEFINE e == OnPacket(circuit[1], p, r)
  <2>1. j = 1 /\ circuit[1].reason = "None"  BY <1>2, RoutedToOpener
  <2>2. e \in Evolutions(circuit[1])  BY <1>1, SoundCircuit, OnPacketType
  <2>3. Update(1, e) /\ Exchange(Peer, Origin, 1, e.remoteNode, e.out)
    BY <1>2, <2>1 DEF Handle
  <2>4. OpenerBecomes(e)  BY <1>1, <2>1, OpenerReceivesTogether DEF OpenerBecomes
  <2> HIDE DEF e
  <2> QED  BY <2>1, <2>2, <2>3, <2>4, HandleAtOpener
<1>3. CASE j = 0 /\ p.op = "DisconnectRequest"
  <2> DEFINE q == Blank("DisconnectAcknowledge", p.key, p.inc)
  <2>1. Answer(Origin, Peer, 1, <<q>>)  BY <1>3 DEF Reflect
  <2>2. <<q>> \in Seq(Packet)  BY ReflectedIs
  <2>3. p.key = circuit[1].localKey  BY <1>3, ToOpener
  <2>4. circuit[1].state = "Disconnected"
    <3>1. ASSUME circuit[1].state # "Disconnected" PROVE FALSE
      <4>1. byLocalKey[circuit[1].node][circuit[1].localKey] = 1
        BY <1>1, <3>1, LiveEntry DEF Inv
      <4>2. byLocalKey[Origin][circuit[1].localKey] = 1  BY <4>1 DEF Origin
      <4>3. byLocalKey[Origin][p.key] = 0  BY <1>3
      <4> QED  BY <2>3, <4>2, <4>3
    <3> QED  BY <3>1
  <2>5. \A t, f \in Seq(Packet) : LeftOf(t, net[To] \o <<q>>) /\ LeftOf(f, net[From]) =>
             Together(circuit[1], Other, t, f)
    BY <1>1, <1>3, <2>4, OpenerReflectsTogether
  <2> HIDE DEF q
  <2> QED  BY <2>1, <2>2, <2>5, AnswerAtOpener
<1>4. CASE j = 0 /\ p.op # "DisconnectRequest"
  <2>1. Answer(Origin, Peer, 1, <<>>) /\ <<>> \in Seq(Packet)  BY <1>4 DEF Reflect
  <2>2. net[To] \o <<>> = net[To]  BY <1>1
  <2>3. \A t, f \in Seq(Packet) : LeftOf(t, net[To] \o <<>>) /\ LeftOf(f, net[From]) =>
             Together(circuit[1], Other, t, f)
    BY <1>1, <2>2, TogetherQueues
  <2> QED  BY <2>1, <2>3, AnswerAtOpener
<1> QED  BY <1>2, <1>3, <1>4

\* Any packet but a Connect Request, at the peer's node.
LEMMA OtherAtPeer ==
    ASSUME Inv, StreamInv, circuit # <<>>, net[To] # <<>>, NEW p, p = net[To][1],
           p \in Packet, p.key \in Key, p.inc \in Nat, NEW r \in Reaction,
           NEW j, j = byLocalKey[Peer][p.key],
           \/ j # 0 /\ Handle(Peer, Origin, 1, p, j, r)
           \/ j = 0 /\ Reflect(Peer, Origin, 1, p)
    PROVE  StreamInv'
<1>1. /\ net[To] \in Seq(Packet) /\ net[From] \in Seq(Packet)
      /\ Together(circuit[1], Other, net[To], net[From])
      /\ Cast /\ Newest \in DOMAIN circuit /\ Newest \in Nat /\ Newest >= 1
  BY StreamFacts
<1>2. CASE j # 0
  <2> DEFINE e == OnPacket(circuit[Newest], p, r)
  <2>1. /\ j = Newest /\ Newest # 1 /\ circuit[Newest].reason = "None"
        /\ Other = circuit[Newest] /\ circuit[Newest] \in Sound
    BY <1>2, RoutedToPeer
  <2>2. e \in Evolutions(circuit[Newest])  BY <2>1, OnPacketType
  <2>3. Update(Newest, e) /\ Exchange(Origin, Peer, 1, e.remoteNode, e.out)
    BY <1>2, <2>1 DEF Handle
  <2>4. PeerBecomes(e)  BY <1>1, <2>1, PeerReceivesTogether DEF PeerBecomes
  <2> HIDE DEF e
  <2> QED  BY <2>1, <2>2, <2>3, <2>4, HandleAtPeer
<1>3. CASE j = 0 /\ p.op = "DisconnectRequest"
  <2> DEFINE q == Blank("DisconnectAcknowledge", p.key, p.inc)
  <2>1. Answer(Peer, Origin, 1, <<q>>)  BY <1>3 DEF Reflect
  <2>2. <<q>> \in Seq(Packet)  BY ReflectedIs
  <2>3. HangsUpOpen => Other.state = "Disconnected"
    <3> SUFFICES ASSUME HangsUpOpen, Other.state # "Disconnected" PROVE FALSE  OBVIOUS
    <3>1. p.key = Other.localKey
      BY <1>1, <1>3, OldestIn DEF Together, Parted, Addressed
    <3>2. Newest # 1  BY DEF Other, Unborn, NewCircuit
    <3>3. Other = circuit[Newest]  BY <3>2 DEF Other
    <3>4. byLocalKey[circuit[Newest].node][circuit[Newest].localKey] = Newest
      BY <1>1, <3>3, LiveEntry DEF Inv
    <3>5. circuit[Newest].node = Peer  BY <1>1, <3>2 DEF Cast, MintedFrom, Peer
    <3>6. byLocalKey[Peer][p.key] = Newest  BY <3>1, <3>3, <3>4, <3>5
    <3>7. Newest # 0
      <4>1. Newest \in Nat /\ Newest >= 1  BY <1>1
      <4> QED  BY <4>1
    <3> QED  BY <1>3, <3>6, <3>7
  <2>4. \A t, f \in Seq(Packet) : LeftOf(t, net[To]) /\ LeftOf(f, net[From] \o <<q>>) =>
             Together(circuit[1], Other, t, f)
    BY <1>1, <1>3, <2>3, PeerReflectsTogether
  <2> HIDE DEF q
  <2> QED  BY <2>1, <2>2, <2>4, AnswerAtPeer
<1>4. CASE j = 0 /\ p.op # "DisconnectRequest"
  <2>1. Answer(Peer, Origin, 1, <<>>) /\ <<>> \in Seq(Packet)  BY <1>4 DEF Reflect
  <2>2. net[From] \o <<>> = net[From]  BY <1>1
  <2>3. \A t, f \in Seq(Packet) : LeftOf(t, net[To]) /\ LeftOf(f, net[From] \o <<>>) =>
             Together(circuit[1], Other, t, f)
    BY <1>1, <2>2, TogetherQueues
  <2> QED  BY <2>1, <2>3, AnswerAtPeer
<1> QED  BY <1>2, <1>3, <1>4

-----------------------------------------------------------------------------
(* New circuits *)

\* When a Connect Request finds no circuit at the peer's node, the newest peer
\* has closed, and no data was ever sent.
LEMMA PeerIsGone ==
    ASSUME Inv, StreamInv, circuit # <<>>, net[To] # <<>>, net[To][1].op = "ConnectRequest",
           byPeerKey[Peer][KeyOf(circuit[1])] = 0
    PROVE  /\ Apart(circuit[1], Other, net[To])
           /\ Newest # 1 => Gone(circuit[Newest])
<1>1. /\ net[To] \in Seq(Packet) /\ net[From] \in Seq(Packet) /\ Cast
      /\ Newest \in DOMAIN circuit /\ Newest \in Nat /\ Newest >= 1
      /\ Joined(circuit[1], Other, net[To], net[From])
      /\ Together(circuit[1], Other, net[To], net[From])
  BY StreamFacts
<1>2. HasRequest(net[To])  BY ToPeer
<1>3. CASE Newest = 1
  <2>1. Unborn.state = "Disconnected" /\ Unborn.reason = "None"  BY DEF Unborn, NewCircuit
  <2> QED  BY <1>2, <1>3, <2>1 DEF Apart, Other
<1>4. CASE Newest # 1
  <2>1. Other = circuit[Newest]  BY <1>4 DEF Other
  <2>2. circuit[Newest].reason # "None"  BY <1>1, <1>4 DEF Cast
  <2>3. circuit[Newest].state = "Disconnected"
    BY <1>1, <2>2, SoundCircuit DEF Sound, EndIsSound
  <2>4. Apart(circuit[1], Other, net[To])  BY <1>2, <2>1, <2>3 DEF Apart
  <2>5. /\ Virgin(circuit[1]) /\ Pair(circuit[1], circuit[Newest], net[To], net[From])
        /\ circuit[Newest].out = <<>> /\ circuit[Newest] \in Circuit
    BY <1>1, <2>1, <2>4, JoinedFacts DEF Clean
  <2>6. circuit[Newest].got = <<>>
    <3> DEFINE c == circuit[1]
               d == circuit[Newest]
    <3>1. Assembled(d, c) /\ c.sent = <<>>  BY <2>5 DEF Pair, Direction, Virgin
    <3>2. d.got \in Seq(Seq(Body)) /\ (d.got # <<>> => 1 \in DOMAIN d.got)
      BY <2>5, Fields
    <3> HIDE DEF c, d
    <3>3. ASSUME d.got # <<>> PROVE FALSE
      <4>1. WholeFrame(d, 1, c)  BY <3>1, <3>2, <3>3 DEF Assembled
      <4>2. d.got[1] # <<>> /\ d.got[1] \in Seq(Body)  BY <3>2, <3>3, <4>1 DEF WholeFrame
      <4>3. 1 \in DOMAIN d.got[1]  BY <4>2
      <4>4. 1 + 1 - 1 \in DOMAIN c.sent  BY <4>1, <4>3 DEF WholeFrame
      <4>5. DOMAIN c.sent = {}  BY <3>1
      <4> QED  BY <4>4, <4>5
    <3> QED  BY <3>3 DEF d
  <2>7. HangsUpOpen => circuit[Newest].reason # "Normal"
    BY <1>1, <2>1, <2>4, ApartFacts DEF Together
  <2> QED  BY <2>2, <2>4, <2>5, <2>6, <2>7 DEF Gone
<1> QED  BY <1>3, <1>4

\* The answer to a minted circuit joins it to the opener.
LEMMA MintedJoins ==
    ASSUME NEW c, NEW b, NEW to \in Seq(Packet), NEW from \in Seq(Packet), Together(c, b, to, from),
           b.state = "Disconnected", b.reason = "None", NEW p \in Packet, p.key = b.peerKey[2],
           p.win = Clamp(c.windowSize, 1, MaxWindow),
           NEW disposition \in {"accept", "refuse", "defer"},
           NEW e, e = Answered(b, p, disposition),
           NEW t \in Seq(Packet), LeftOf(t, to), NEW f \in Seq(Packet), LeftOf(f, from \o e.out)
    PROVE  Together(c, AtRest(e), t, f)
<1>1. p.key \in Key /\ p.win \in Nat  BY PacketFields
<1>2. CASE disposition = "accept"
  <2>1. e = AcceptInbound(b, p.key, p.win)  BY <1>2 DEF Answered
  <2> QED  BY <1>1, <2>1, PeerAcceptsTogether
<1>3. CASE disposition = "refuse"
  <2>1. e = [RefuseInbound(b, p.key) EXCEPT !.reason = "Refused"]  BY <1>3 DEF Answered
  <2> QED  BY <1>1, <2>1, PeerRefusesTogether
<1>4. CASE disposition = "defer"
  <2>1. e = b  BY <1>4 DEF Answered
  <2>2. b \in Sound /\ b.out = <<>>  BY JoinedFacts DEF Together
  <2>3. AtRest(e) = b /\ from \o e.out = from  BY <2>1, <2>2, RestFields
  <2> QED  BY <2>3, TogetherQueues
<1> QED  BY <1>2, <1>3, <1>4

\* mintInbound.
LEMMA MintStream ==
    ASSUME Inv, StreamInv, circuit # <<>>, net[To] # <<>>, NEW p, p = net[To][1], p \in Packet,
           p.op = "ConnectRequest", NEW disposition \in {"accept", "refuse", "defer"},
           byPeerKey[Peer][<<Origin, p.key>>] = 0, FreeKeys(Peer) # {},
           MintInbound(Peer, Origin, 1, p, disposition)
    PROVE  StreamInv'
<1> DEFINE k == AllocateKey(Peer)
           L == Len(circuit) + 1
           b == NewCircuit(Peer, Origin, k, <<Origin, p.key>>, WindowSize[Peer], L, p.inc)
           c == Answered(b, p, disposition)
<1>1. /\ circuit' = Append(circuit, AtRest(c))
      /\ IF c.reason # "None" THEN UNCHANGED <<byLocalKey, byPeerKey>>
         ELSE /\ byLocalKey' = [byLocalKey EXCEPT ![Peer][k] = L]
              /\ byPeerKey' = [byPeerKey EXCEPT ![Peer][c.peerKey] = L]
      /\ Exchange(Origin, Peer, 1, Origin, c.out)
  <2>1. PICK k0 \in {k}, j0 \in {L} :
          \E c0 \in {Answered(NewCircuit(Peer, Origin, k0, <<Origin, p.key>>, WindowSize[Peer],
                                         j0, p.inc), p, disposition)} :
            /\ circuit' = Append(circuit, AtRest(c0))
            /\ IF c0.reason # "None" THEN UNCHANGED <<byLocalKey, byPeerKey>>
               ELSE /\ byLocalKey' = [byLocalKey EXCEPT ![Peer][k0] = j0]
                    /\ byPeerKey' = [byPeerKey EXCEPT ![Peer][c0.peerKey] = j0]
            /\ nextKey' = [nextKey EXCEPT ![Peer] = (k0 + 1) % NumKeys]
            /\ Exchange(Origin, Peer, 1, Origin, c0.out)
    BY Zenon DEF MintInbound
  <2>2. k0 = k /\ j0 = L  OBVIOUS
  <2> HIDE DEF k, L
  <2> QED  BY Zenon, <2>1, <2>2
<1>2. /\ TableInv /\ NetTypes /\ Cast /\ Origin # Peer /\ Origin \in Node /\ Peer \in Node
      /\ circuit \in Seq(Circuit) /\ Newest \in Nat /\ Newest >= 1 /\ DOMAIN circuit = 1 .. Newest
      /\ To \in Link /\ From \in Link /\ net[To] \in Seq(Packet) /\ net[From] \in Seq(Packet)
      /\ Together(circuit[1], Other, net[To], net[From]) /\ circuit[1].inc = 1
      /\ KeyOf(circuit[1]) \in Node \X Key /\ 1 \in DOMAIN circuit /\ Newest \in DOMAIN circuit
  BY StreamFacts DEF Inv
<1>3. k \in Key /\ byLocalKey[Peer][k] = 0  BY <1>2, AllocateKeyType
<1>4. L \in Nat /\ L = Newest + 1  BY <1>2 DEF Newest
<1>5. /\ p.key \in Key /\ p.key = circuit[1].localKey /\ p.inc = 1
      /\ p.win = Clamp(circuit[1].windowSize, 1, MaxWindow)
  BY PacketFields, ToPeer
<1>6. <<Origin, p.key>> = KeyOf(circuit[1])  BY <1>5 DEF KeyOf, Origin
<1> HIDE DEF k, L
<1>7. /\ b \in Sound /\ Virgin(b) /\ b.state = "Disconnected" /\ b.reason = "None"
      /\ b.out = <<>> /\ b.mintedFor = 1 /\ b.peerKey = KeyOf(circuit[1])
      /\ b.windowSize = WindowSize[Peer]
      /\ b.node = Peer /\ b.remoteNode = Origin /\ b.localKey = k /\ b.inc = L
  <2>1. WindowSize[Peer] \in Nat /\ 1 \in Nat  BY <1>2, NetworkAssumption
  <2>2. b = NewCircuit(Peer, Origin, k, KeyOf(circuit[1]), WindowSize[Peer], L, 1)
    BY <1>5, <1>6
  <2> DEFINE n == Peer
             m == Origin
             pk == KeyOf(circuit[1])
             w == WindowSize[Peer]
  <2>3. /\ n \in Node /\ m \in Node /\ k \in Key /\ pk \in Node \X Key /\ w \in Nat /\ L \in Nat
        /\ 1 \in Nat /\ 1 # 0 /\ b = NewCircuit(n, m, k, pk, w, L, 1)
    BY <1>2, <1>3, <1>4, <2>1, <2>2
  <2> HIDE DEF b, n, m, pk, w
  <2>4. b \in Sound
    <3>1. pk \in (Node \X Key) \cup {NoPeerKey}  BY <2>3
    <3>2. NewCircuit(n, m, k, pk, w, L, 1) \in Sound  BY ONLY <2>3, <3>1, NewCircuitType
    <3> QED  BY <2>3, <3>2
  <2>5. /\ Virgin(b) /\ b.state = "Disconnected" /\ b.reason = "None"
        /\ b.out = <<>> /\ b.mintedFor = 1 /\ b.peerKey = pk /\ b.windowSize = w
        /\ b.node = n /\ b.remoteNode = m /\ b.localKey = k /\ b.inc = L
    BY ONLY <2>3 DEF NewCircuit, Virgin
  <2> QED  BY <2>4, <2>5 DEF n, m, pk, w
<1> HIDE DEF b
<1>8. Together(circuit[1], b, net[To], net[From])
  <2>1. Apart(circuit[1], Other, net[To])  BY <1>6, PeerIsGone
  <2>2. b.peerKey[2] = circuit[1].localKey  BY <1>7 DEF KeyOf
  <2> QED  BY SMTT(60), <1>2, <1>7, <2>1, <2>2, PeerIsMintedTogether
<1>9. PeerBecomes(c)
  <2>1. p.key = b.peerKey[2]  BY <1>5, <1>7 DEF KeyOf
  <2> QED  BY <1>2, <1>5, <1>7, <1>8, <2>1, MintedJoins DEF PeerBecomes
<1>10. c \in Evolutions(b)  BY <1>7, AnsweredType
<1> HIDE DEF c
<1>11. /\ c \in Sound /\ c.mintedFor = 1 /\ c.peerKey = KeyOf(circuit[1]) /\ c.node = Peer
       /\ c.remoteNode = Origin /\ c.inc = L /\ c.windowSize = WindowSize[Peer]
  BY <1>7, <1>10, Transitivity DEF Evolutions, SameIdentity
<1>12. Fresh(c)
  <2>1. c.peerKey # NoPeerKey  BY <1>2, <1>11, PeerKeysDiffer
  <2> QED  BY <1>11, <2>1 DEF Fresh, L
<1>13. /\ circuit' \in Seq(Circuit) /\ Len(circuit') = L
       /\ DOMAIN circuit' = DOMAIN circuit \cup {L} /\ L \notin DOMAIN circuit
       /\ circuit'[L] = AtRest(c)
       /\ \A j \in DOMAIN circuit : circuit'[j] = circuit[j]
       /\ SameIdentity(c, AtRest(c)) /\ AtRest(c).reason = c.reason
  BY <1>1, <1>2, <1>12, AppendFacts DEF L
<1>14. /\ net'[To] \in Seq(Packet) /\ net'[From] \in Seq(Packet)
       /\ LeftOf(net'[To], net[To]) /\ LeftOf(net'[From], net[From] \o c.out)
       /\ \A l \in Link \ {To, From} : net'[l] = net[l]
  <2>1. c.out \in Seq(Packet)  BY <1>11, AtRestType
  <2> QED  BY <1>1, <1>2, <2>1, ExchangeLeft DEF To, From
<1>15. /\ Newest' = L /\ L # 1 /\ circuit' # <<>> /\ circuit'[1] = circuit[1]
       /\ Origin' = Origin /\ Peer' = Peer /\ To' = To /\ From' = From
       /\ KeyOf(circuit[1])' = KeyOf(circuit[1]) /\ Other' = AtRest(c)
  <2>1. Newest' = L /\ L # 1 /\ circuit'[1] = circuit[1]  BY <1>2, <1>4, <1>13 DEF Newest
  <2>2. Origin' = Origin /\ Peer' = Peer  BY <2>1 DEF Origin, Peer
  <2>3. To' = To /\ From' = From  BY <2>2 DEF To, From
  <2>4. KeyOf(circuit[1])' = KeyOf(circuit[1])  BY <2>1 DEF KeyOf
  <2>5. Other' = AtRest(c)  BY <1>13, <2>1 DEF Other
  <2>6. circuit' # <<>>
    <3>1. Len(circuit') # 0  BY <1>2, <1>4, <1>13
    <3>2. circuit' = <<>> => Len(circuit') = 0  OBVIOUS
    <3> QED  BY <3>1, <3>2
  <2> QED  BY <2>1, <2>2, <2>3, <2>4, <2>5, <2>6
<1>16. Together(circuit'[1], Other', net'[To'], net'[From'])
  BY <1>9, <1>14, <1>15 DEF PeerBecomes
<1>17. Cast'
  <2>1. /\ circuit'[1].mintedFor = 0 /\ Origin' # Peer'
        /\ \A i \in DOMAIN circuit' : circuit'[i].windowSize = WindowSize[circuit'[i].node]
    BY <1>2, <1>11, <1>13, <1>15 DEF Cast, SameIdentity
  <2>2. MintedFrom(circuit[1], AtRest(c))
    BY <1>2, <1>11, <1>13 DEF MintedFrom, SameIdentity, Origin, Peer
  <2>3. \A i \in DOMAIN circuit' \ {1} : MintedFrom(circuit'[1], circuit'[i])
    BY <1>2, <1>13, <1>15, <2>2 DEF Cast
  <2>4. \A i \in DOMAIN circuit' \ {1, Newest'} :
           Gone(circuit'[i])
    <3> SUFFICES ASSUME NEW i \in DOMAIN circuit, i # 1
                 PROVE  Gone(circuit[i])
      BY <1>13, <1>15
    <3>1. CASE i = Newest  BY <1>6, <3>1, PeerIsGone
    <3>2. CASE i # Newest  BY <1>2, <3>2 DEF Cast
    <3> QED  BY <3>1, <3>2
  <2>5. \A l \in Link \ {To', From'} : net'[l] = <<>>  BY <1>2, <1>14, <1>15 DEF Cast
  <2>6. ASSUME c.reason = "None" PROVE byPeerKey'[Peer][KeyOf(circuit[1])] = L
    <3>1. byPeerKey' = [byPeerKey EXCEPT ![Peer][KeyOf(circuit[1])] = L]
      BY <1>1, <1>11, <2>6
    <3>2. byPeerKey \in [Node -> [Node \X Key -> 0 .. Len(circuit)]]  BY <1>2, TableFacts
    <3> QED  BY <1>2, <3>1, <3>2
  <2>7. Newest' # 1 /\ circuit'[Newest'].reason = "None" =>
           byPeerKey'[Peer'][KeyOf(circuit'[1])] = Newest'
    BY <1>13, <1>15, <2>6 DEF KeyOf
  <2> QED  BY <2>1, <2>3, <2>4, <2>5, <2>7 DEF Cast
<1> QED  BY <1>15, <1>16, <1>17 DEF StreamInv

\* A Connect Request at the peer's node.
LEMMA RequestAtPeer ==
    ASSUME Inv, StreamInv, circuit # <<>>, net[To] # <<>>, NEW p, p = net[To][1], p \in Packet,
           p.op = "ConnectRequest", NEW disposition \in {"accept", "refuse", "defer"},
           NEW j, j = byPeerKey[Peer][<<Origin, p.key>>],
           \/ j # 0 /\ Handle(Peer, Origin, 1, p, j, "drain")
           \/ j = 0 /\ Drop(Peer, Origin, 1)
           \/ j = 0 /\ FreeKeys(Peer) # {} /\ MintInbound(Peer, Origin, 1, p, disposition)
    PROVE  StreamInv'
<1>1. /\ net[To] \in Seq(Packet) /\ net[From] \in Seq(Packet) /\ Peer \in Node /\ Origin \in Node
      /\ Together(circuit[1], Other, net[To], net[From])
  BY StreamFacts
<1>2. p.key \in Key  BY PacketFields
<1>3. ASSUME j # 0, Handle(Peer, Origin, 1, p, j, "drain") PROVE StreamInv'
  <2> DEFINE e == OnPacket(circuit[Newest], p, "drain")
  <2>1. <<Origin, p.key>> \in Node \X Key  BY SMTT(60), <1>1, <1>2
  <2>2. /\ j \in DOMAIN circuit /\ byLocalKey[Peer][circuit[j].localKey] = j
    BY <1>1, <1>3, <2>1, PeerEntry DEF Inv
  <2>3. circuit[j].localKey \in Key  BY <2>2, CircuitIsSound DEF Inv
  <2>4. /\ j = Newest /\ Newest # 1 /\ circuit[Newest].reason = "None"
        /\ Other = circuit[Newest] /\ circuit[Newest] \in Sound
    BY <1>3, <2>2, <2>3, RoutedToPeer
  <2>5. "drain" \in Reaction  BY DEF Reaction
  <2>6. e \in Evolutions(circuit[Newest])  BY <2>4, <2>5, OnPacketType
  <2>7. Update(Newest, e) /\ Exchange(Origin, Peer, 1, e.remoteNode, e.out)
    BY <1>3, <2>4 DEF Handle
  <2>8. PeerBecomes(e)  BY <1>1, <2>4, <2>5, PeerReceivesTogether DEF PeerBecomes
  <2> HIDE DEF e
  <2> QED  BY <2>4, <2>6, <2>7, <2>8, HandleAtPeer
<1>4. ASSUME Drop(Peer, Origin, 1) PROVE StreamInv'
  <2>1. Answer(Peer, Origin, 1, <<>>) /\ <<>> \in Seq(Packet)  BY <1>4 DEF Drop
  <2>2. net[From] \o <<>> = net[From]  BY <1>1
  <2>3. \A t, f \in Seq(Packet) : LeftOf(t, net[To]) /\ LeftOf(f, net[From] \o <<>>) =>
             Together(circuit[1], Other, t, f)
    BY <1>1, <2>2, TogetherQueues
  <2> QED  BY <2>1, <2>3, AnswerAtPeer
<1>5. ASSUME j = 0, FreeKeys(Peer) # {}, MintInbound(Peer, Origin, 1, p, disposition)
      PROVE  StreamInv'
  BY <1>5, MintStream
<1> QED  BY <1>3, <1>4, <1>5

\* The receipt of any packet.
LEMMA ReceiveStream ==
    ASSUME Inv, StreamInv, OneStream, NEW from \in Node, NEW n \in Node, <<from, n>> \in Link,
           Receive(from, n)
    PROVE  StreamInv'
<1>1. PICK i \in Deliverable(<<from, n>>) :
          \/ \E d \in {"accept", "refuse", "defer"} : ReceiveConnectRequest(from, n, i, d)
          \/ \E r \in Reactions : ReceiveOther(from, n, i, r)
  BY DEF Receive
<1> DEFINE p == net[<<from, n>>][1]
<1>2. /\ i = 1 /\ circuit # <<>> /\ net[<<from, n>>] # <<>>
      /\ \/ from = Origin /\ n = Peer /\ <<from, n>> = To
         \/ from = Peer /\ n = Origin /\ <<from, n>> = From
      /\ p \in Packet /\ p.key \in Key /\ p.inc \in Nat
  BY <1>1, Arrival
<1>3. CASE \E d \in {"accept", "refuse", "defer"} : ReceiveConnectRequest(from, n, i, d)
  <2>1. PICK d \in {"accept", "refuse", "defer"} : ReceiveConnectRequest(from, n, i, d)
    BY <1>3
  <2> DEFINE j == byPeerKey[n][<<from, p.key>>]
  <2>2. p.op = "ConnectRequest"  BY <1>2, <2>1 DEF ReceiveConnectRequest
  <2>3. \/ j # 0 /\ Handle(n, from, 1, p, j, "drain")
        \/ j = 0 /\ Drop(n, from, 1)
        \/ j = 0 /\ FreeKeys(n) # {} /\ MintInbound(n, from, 1, p, d)
    BY <1>2, <2>1 DEF ReceiveConnectRequest
  <2>4. from = Origin /\ n = Peer /\ <<from, n>> = To  BY <1>2, <2>2, ToOpener
  <2> HIDE DEF p
  <2>5. p = net[To][1]  BY <2>4 DEF p
  <2> QED  BY <1>2, <2>2, <2>3, <2>4, <2>5, RequestAtPeer
<1>4. CASE \E r \in Reactions : ReceiveOther(from, n, i, r)
  <2>1. PICK r \in Reactions : ReceiveOther(from, n, i, r)  BY <1>4
  <2> DEFINE j == byLocalKey[n][p.key]
  <2>2. r \in Reaction  BY NetworkAssumption DEF Reaction
  <2>3. \/ j # 0 /\ Handle(n, from, 1, p, j, r)
        \/ j = 0 /\ Reflect(n, from, 1, p)
    BY <1>2, <2>1 DEF ReceiveOther
  <2> HIDE DEF p
  <2>4. CASE from = Origin /\ n = Peer /\ <<from, n>> = To
    <3>1. p = net[To][1]  BY <2>4 DEF p
    <3> QED  BY <1>2, <2>2, <2>3, <2>4, <3>1, OtherAtPeer
  <2>5. CASE from = Peer /\ n = Origin /\ <<from, n>> = From
    <3>1. p = net[From][1]  BY <2>5 DEF p
    <3> QED  BY <1>2, <2>2, <2>3, <2>5, <3>1, OtherAtOpener
  <2> QED  BY <1>2, <2>4, <2>5
<1> QED  BY <1>1, <1>3, <1>4

\* The host opens the circuit: no other was opened before, so there is none.
LEMMA OpenCircuitStream ==
    ASSUME Inv, StreamInv, OneStream, NEW n \in Node, NEW m \in Node, OpenCircuit(n, m)
    PROVE  StreamInv'
<1> DEFINE k == AllocateKey(n)
           e == Connect(NewCircuit(n, m, k, NoPeerKey, WindowSize[n], 1, 0))
<1>1. circuit \in Seq(Circuit) /\ Len(circuit) \in Nat /\ DOMAIN circuit = 1 .. Len(circuit)
  BY TableFacts DEF Inv
<1>2. circuit = <<>>
  <2> DEFINE O == {i \in DOMAIN circuit : circuit[i].mintedFor = 0}
  <2>1. Cardinality(O) < 1  BY DEF OpenCircuit, OpenedSoFar, OneStream
  <2>2. IsFiniteSet(O)
    <3>1. IsFiniteSet(1 .. Len(circuit))  BY <1>1, FS_Interval
    <3>2. O \subseteq 1 .. Len(circuit)  BY <1>1
    <3> QED  BY <3>1, <3>2, FS_Subset
  <2>3. Cardinality(O) = 0  BY <2>1, <2>2, FS_CardinalityType
  <2>4. O = {}  BY <2>2, <2>3, FS_EmptySet
  <2>5. SUFFICES ASSUME circuit # <<>> PROVE FALSE  OBVIOUS
  <2>6. 1 \in DOMAIN circuit /\ circuit[1].mintedFor = 0  BY <2>5, StreamFacts DEF Cast
  <2> QED  BY <2>4, <2>6
<1>3. /\ n # m /\ FreeKeys(n) # {}
      /\ circuit' = Append(circuit, AtRest(e))
      /\ Ship(n, m, e.out)
  <2>1. Len(circuit) + 1 = 1  BY <1>2
  <2> QED  BY <2>1 DEF OpenCircuit
<1>4. k \in Key  BY <1>3, AllocateKeyType DEF Inv
<1> HIDE DEF k
<1> DEFINE w == WindowSize[n]
           u == NewCircuit(m, n, 0, <<n, k>>, WindowSize[m], 0, 1)
<1>5. WindowSize[n] \in Nat /\ WindowSize[m] \in Nat  BY NetworkAssumption
<1>6. /\ u \in Sound /\ Virgin(u) /\ u.state = "Disconnected" /\ u.reason = "None" /\ u.out = <<>>
      /\ u.mintedFor = 1 /\ u.peerKey = <<n, k>>
  <2> DEFINE pk == <<n, k>>
             v == WindowSize[m]
  <2>1. /\ m \in Node /\ n \in Node /\ 0 \in Key /\ pk \in Node \X Key /\ v \in Nat /\ 0 \in Nat
        /\ 1 \in Nat /\ 1 # 0 /\ u = NewCircuit(m, n, 0, pk, v, 0, 1)
    BY <1>4, <1>5, ZeroIsKeyAndSeqno
  <2> HIDE DEF u, pk, v
  <2>2. u \in Sound
    <3>1. pk \in (Node \X Key) \cup {NoPeerKey}  BY <2>1
    <3>2. NewCircuit(m, n, 0, pk, v, 0, 1) \in Sound  BY ONLY <2>1, <3>1, NewCircuitType
    <3> QED  BY <2>1, <3>2
  <2>3. /\ Virgin(u) /\ u.state = "Disconnected" /\ u.reason = "None" /\ u.out = <<>>
        /\ u.mintedFor = 1 /\ u.peerKey = pk
    BY ONLY <2>1 DEF NewCircuit, Virgin
  <2> QED  BY <2>2, <2>3 DEF pk
<1> HIDE DEF u
<1>7. e \in Sound /\ e.node = n /\ e.remoteNode = m /\ e.localKey = k /\ e.inc = 1
      /\ e.mintedFor = 0 /\ e.windowSize = WindowSize[n] /\ e.peerKey = NoPeerKey
  <2> DEFINE b == NewCircuit(n, m, k, NoPeerKey, WindowSize[n], 1, 0)
  <2>1. b \in Sound /\ b.reason = "None"  BY <1>4, <1>5, OpenedType, 1 \in Nat
  <2>2. b.node = n /\ b.remoteNode = m /\ b.localKey = k /\ b.inc = 1 /\ b.mintedFor = 0
        /\ b.windowSize = WindowSize[n] /\ b.peerKey = NoPeerKey
    BY DEF NewCircuit
  <2> HIDE DEF b
  <2>3. Connect(b) \in Evolutions(b)  BY <2>1, ConnectType
  <2>4. e = Connect(b)  BY DEF b
  <2> HIDE DEF e
  <2> QED  BY <2>2, <2>3, <2>4 DEF Evolutions, SameIdentity
<1>8. \A t \in Seq(Packet) : LeftOf(t, <<>> \o e.out) => Together(AtRest(e), u, t, <<>>)
  <2> TAKE t \in Seq(Packet)
  <2> HAVE LeftOf(t, <<>> \o e.out)
  <2>1. u.mintedFor # 0 /\ u.peerKey[2] = k /\ w \in Nat /\ 1 \in Nat  BY <1>5, <1>6
  <2>2. e = Connect(NewCircuit(n, m, k, NoPeerKey, w, 1, 0))  OBVIOUS
  <2> HIDE DEF e, w
  <2> QED  BY <1>4, <1>6, <2>1, <2>2, OpenerIsNewTogether
<1> HIDE DEF e, w
<1> DEFINE d == AtRest(e)
<1>9. d \in Sound /\ SameIdentity(e, d)  BY <1>7, RestFields
<1>10. /\ d.node = n /\ d.remoteNode = m /\ d.localKey = k /\ d.mintedFor = 0
       /\ d.windowSize = WindowSize[n]
  BY <1>7, <1>9 DEF SameIdentity
<1> HIDE DEF d
<1>11. circuit' = <<d>>  BY <1>2, <1>3 DEF d
<1>12. /\ Newest' = 1 /\ circuit' # <<>> /\ circuit'[1] = d /\ DOMAIN circuit' = {1}
  BY <1>11 DEF Newest
<1>13. Origin' = n /\ Peer' = m  BY <1>10, <1>12 DEF Origin, Peer
<1>14. To' = <<n, m>> /\ From' = <<m, n>>  BY <1>13 DEF To, From
<1>15. KeyOf(circuit[1])' = <<n, k>>  BY <1>10, <1>12 DEF KeyOf
<1>16. Other' = u  BY <1>12, <1>13, <1>15 DEF Other, Unborn, u
<1>17. /\ net'[<<n, m>>] \in Seq(Packet) /\ LeftOf(net'[<<n, m>>], <<>> \o e.out)
       /\ \A l \in Link \ {<<n, m>>} : net'[l] = <<>>
  <2>1. <<n, m>> \in Link  BY <1>3 DEF Link
  <2>2. e.out \in Seq(Packet) /\ NetTypes  BY <1>7, AtRestType DEF Inv
  <2>3. \A l \in Link : net[l] = <<>>  BY <1>2 DEF StreamInv
  <2> QED  BY <1>3, <2>1, <2>2, <2>3, ShipLeft
<1>18. net'[<<m, n>>] = <<>>
  <2>1. <<m, n>> \in Link /\ <<m, n>> # <<n, m>>  BY <1>3 DEF Link
  <2> QED  BY <1>17, <2>1
<1>19. Together(circuit'[1], Other', net'[To'], net'[From'])
  BY <1>8, <1>12, <1>14, <1>16, <1>17, <1>18 DEF d
<1>20. Cast'
  <2>1. /\ circuit'[1].mintedFor = 0 /\ Origin' # Peer'
        /\ \A i \in DOMAIN circuit' : circuit'[i].windowSize = WindowSize[circuit'[i].node]
    BY <1>3, <1>10, <1>12, <1>13
  <2>2. \A l \in Link \ {To', From'} : net'[l] = <<>>  BY <1>14, <1>17
  <2> QED  BY <1>12, <2>1, <2>2 DEF Cast
<1> QED  BY <1>12, <1>19, <1>20 DEF StreamInv

-----------------------------------------------------------------------------
(* The invariant *)

\* Before a circuit is opened nothing is under way.
LEMMA InitStream == ASSUME Init PROVE StreamInv
BY DEF Init, StreamInv

\* Every step keeps the two ends joined.
LEMMA NextStream == ASSUME Inv, StreamInv, OneStream, [Next]_vars PROVE StreamInv'
<1>1. ASSUME NEW l \in Link, OpenCircuit(l[1], l[2]) PROVE StreamInv'
  BY <1>1, OpenCircuitStream DEF Link
<1>2. ASSUME NEW l \in Link, Receive(l[1], l[2]) PROVE StreamInv'
  <2>1. l[1] \in Node /\ l[2] \in Node /\ <<l[1], l[2]>> \in Link  BY DEF Link
  <2> QED  BY <1>2, <2>1, ReceiveStream
<1>3. ASSUME NEW l \in Link, Lose(l) PROVE StreamInv'  BY <1>3, LoseStream
<1>4. ASSUME NEW i \in DOMAIN circuit, AppStep(i) PROVE StreamInv'
  BY <1>4, AppSendStream, AppDisconnectStream, AppDrainStream, AcceptIncomingStream,
     RefuseIncomingStream
  DEF AppStep
<1>5. ASSUME NEW i \in DOMAIN circuit, TickCircuit(i) PROVE StreamInv'
  BY <1>5, TickCircuitStream
<1>6. CASE UNCHANGED vars
  <2>1. circuit' = circuit /\ byPeerKey' = byPeerKey /\ net' = net  BY <1>6 DEF vars
  <2> QED  BY <2>1 DEF StreamInv, Cast, Newest, Origin, Peer, To, From, KeyOf, Other, Unborn
<1> QED  BY <1>1, <1>2, <1>3, <1>4, <1>5, <1>6 DEF Next

\* In every reachable state the opener and its newest peer are joined, and no
\* other circuit has data: what the theorems below rest on.
THEOREM StreamInvariance == ASSUME OneStream PROVE Spec => [](Inv /\ StreamInv)
<1>1. Init => Inv /\ StreamInv  BY InitInv, InitStream
<1>2. Inv /\ StreamInv /\ [Next]_vars => (Inv /\ StreamInv)'  BY NextInv, NextStream
<1> QED  BY <1>1, <1>2, PTL DEF Spec

-----------------------------------------------------------------------------
(* What the invariant says of every circuit *)

\* One direction of the stream, from an end that writes to the end that reads.
LEMMA EndsAre ==
    ASSUME Inv, StreamInv, NEW i \in DOMAIN circuit
    PROVE  \/ /\ i = 1 /\ Newest = 1
              /\ Direction(circuit[1], Unborn, net[To], net[From])
              /\ Direction(Unborn, circuit[1], net[From], net[To])
           \/ /\ i = 1 /\ Newest # 1 /\ Newest \in DOMAIN circuit /\ Linked(i, Newest)
              /\ Direction(circuit[1], circuit[Newest], net[To], net[From])
              /\ Direction(circuit[Newest], circuit[1], net[From], net[To])
           \/ /\ i # 1 /\ i = Newest /\ 1 \in DOMAIN circuit /\ Linked(i, 1)
              /\ Direction(circuit[1], circuit[i], net[To], net[From])
              /\ Direction(circuit[i], circuit[1], net[From], net[To])
           \/ /\ circuit[i].state = "Disconnected" /\ circuit[i].got = <<>>
              /\ circuit[i].unacked = <<>>
<1>1. circuit # <<>>  OBVIOUS
<1>2. /\ Cast /\ 1 \in DOMAIN circuit /\ Newest \in DOMAIN circuit /\ circuit[1].inc = 1
      /\ net[To] \in Seq(Packet) /\ net[From] \in Seq(Packet)
      /\ Joined(circuit[1], Other, net[To], net[From])
  BY <1>1, StreamFacts
<1>3. /\ Direction(circuit[1], Other, net[To], net[From])
      /\ Direction(Other, circuit[1], net[From], net[To])
  BY <1>2 DEF Joined, Pair
<1>4. \A j \in DOMAIN circuit \ {1} : Linked(1, j) /\ Linked(j, 1)
  BY <1>2 DEF Cast, MintedFrom, Linked
<1>5. CASE i = 1 /\ Newest = 1  BY <1>3, <1>5 DEF Other
<1>6. CASE i = 1 /\ Newest # 1  BY <1>2, <1>3, <1>4, <1>6 DEF Other
<1>7. CASE i # 1 /\ i = Newest  BY <1>2, <1>3, <1>4, <1>7 DEF Other
<1>8. CASE i # 1 /\ i # Newest
  <2>1. circuit[i].reason # "None" /\ circuit[i].got = <<>>  BY <1>2, <1>8 DEF Cast, Gone
  <2> QED  BY <2>1, SoundCircuit DEF Sound, EndIsSound
<1> QED  BY <1>5, <1>6, <1>7, <1>8

\* Nothing is received of a stream nothing was written to.
LEMMA NothingSent ==
    ASSUME NEW r \in Circuit, NEW s, Assembled(r, s), s.sent = <<>>
    PROVE  r.got = <<>> /\ r.reassembly = <<>> /\ Accepted(r) = 0
<1>1. /\ r.got \in Seq(Seq(Body)) /\ (r.got # <<>> => 1 \in DOMAIN r.got)
      /\ r.reassembly \in Seq(Body) /\ (r.reassembly # <<>> => 1 \in DOMAIN r.reassembly)
  BY Fields
<1>2. DOMAIN s.sent = {}  OBVIOUS
<1>3. ASSUME r.got # <<>> PROVE FALSE
  <2>1. WholeFrame(r, 1, s)  BY <1>1, <1>3 DEF Assembled
  <2>2. r.got[1] # <<>> /\ r.got[1] \in Seq(Body)  BY <1>1, <1>3, <2>1 DEF WholeFrame
  <2>3. 1 \in DOMAIN r.got[1]  BY <2>2
  <2>4. 1 + 1 - 1 \in DOMAIN s.sent  BY <2>1, <2>3 DEF WholeFrame
  <2> QED  BY <1>2, <2>4
<1>4. ASSUME r.reassembly # <<>> PROVE FALSE
  <2>1. Delivered(r) + 1 \in DOMAIN s.sent  BY <1>1, <1>4 DEF Assembled
  <2> QED  BY <1>2, <2>1
<1> QED  BY <1>3, <1>4 DEF Accepted

\* A frame assembled from circuit j's stream is the next frame j wrote.
LEMMA FrameIsNext ==
    ASSUME Inv, NEW c, NEW j \in DOMAIN circuit, Assembled(c, circuit[j]), NEW f \in DOMAIN c.got
    PROVE  IsNextFrame(c, f, j)
<1>1. WholeFrame(c, f, circuit[j])  BY DEF Assembled
<1>2. circuit[j].inc = j  BY CircuitIsSound DEF Inv
<1> QED  BY <1>1, <1>2 DEF WholeFrame, IsNextFrame

\* The frames delivered are those written.
LEMMA InOrder == ASSUME Inv, StreamInv PROVE InOrderDelivery
<1> SUFFICES ASSUME NEW i \in DOMAIN circuit, circuit[i].got # <<>>
             PROVE  \E j \in DOMAIN circuit :
                       /\ Linked(i, j)
                       /\ \A f \in DOMAIN circuit[i].got : IsNextFrame(circuit[i], f, j)
  BY DEF InOrderDelivery
<1>1. CASE i = 1 /\ Newest = 1 /\ Direction(Unborn, circuit[1], net[From], net[To])
  <2>1. Unborn.sent = <<>>  BY DEF Unborn, NewCircuit
  <2>2. Assembled(circuit[1], Unborn) /\ circuit[1] \in Circuit
    BY <1>1, SoundCircuit DEF Direction, Sound
  <2> QED  BY <1>1, <2>1, <2>2, NothingSent
<1>2. ASSUME NEW j \in DOMAIN circuit, Linked(i, j), Assembled(circuit[i], circuit[j])
      PROVE  \A f \in DOMAIN circuit[i].got : IsNextFrame(circuit[i], f, j)
  BY <1>2, FrameIsNext
<1> QED  BY <1>1, <1>2, EndsAre DEF Direction

\* What leaves the in-flight list was accepted.
LEMMA AckedAccepted == ASSUME Inv, StreamInv PROVE AckedWereAccepted
<1> SUFFICES ASSUME NEW i \in DOMAIN circuit, circuit[i].state = "Connected",
                    Acknowledged(circuit[i]) > 0
             PROVE  \E j \in DOMAIN circuit :
                       /\ Linked(i, j)
                       /\ \/ circuit[j].reason # "None"
                          \/ Accepted(circuit[j]) >= Acknowledged(circuit[i])
  BY DEF AckedWereAccepted
<1>1. circuit[i] \in Circuit /\ circuit[i].reason = "None"
  BY SoundCircuit DEF Sound, EndIsSound
<1>2. CASE i = 1 /\ Newest = 1 /\ Direction(circuit[1], Unborn, net[To], net[From])
  <2>1. Unborn.reason = "None" /\ Accepted(Unborn) = 0  BY DEF Unborn, NewCircuit, Accepted
  <2>2. Acknowledged(circuit[1]) <= 0  BY <1>1, <1>2, <2>1 DEF Direction, Returned
  <2>3. Acknowledged(circuit[1]) \in Nat  BY <1>1, <1>2, Positions DEF Direction
  <2> QED  BY <1>2, <2>2, <2>3
<1>3. ASSUME NEW j \in DOMAIN circuit, Linked(i, j),
             NEW fwd, NEW back, Direction(circuit[i], circuit[j], fwd, back)
      PROVE  circuit[j].reason # "None" \/ Accepted(circuit[j]) >= Acknowledged(circuit[i])
  <2>1. circuit[j].reason = "None" => Acknowledged(circuit[i]) <= Accepted(circuit[j])
    BY <1>1, <1>3 DEF Direction, Returned
  <2>2. Acknowledged(circuit[i]) \in Nat  BY <1>1, <1>3, Positions DEF Direction
  <2>3. Accepted(circuit[j]) \in Nat
    BY <1>1, <1>3, SoundCircuit, AcceptedIs DEF Direction, Sound
  <2> QED  BY <2>1, <2>2, <2>3
<1> QED  BY <1>2, <1>3, EndsAre

\* What is in flight is numbered up to V(s), from V(a) on.
LEMMA FlightIs ==
    ASSUME NEW s \in Circuit, Numbered(s), s.reason = "None"
    PROVE  /\ \A k \in DOMAIN s.unacked :
                 s.unacked[k].seq = (s.vs - Len(s.unacked) + k - 1) % Modulus
           /\ s.va = (s.vs - Len(s.unacked)) % Modulus
<1> DEFINE T == Transmitted(s)
           K == Acknowledged(s)
           u == Len(s.unacked)
<1>1. /\ T \in Nat /\ K \in Nat /\ u \in Nat /\ T = K + u
      /\ s.vs = T % Modulus /\ s.va = K % Modulus
      /\ DOMAIN s.unacked = 1 .. u
      /\ \A k \in DOMAIN s.unacked : s.unacked[k].seq = (K + k - 1) % Modulus
  BY Positions, Fields DEF Numbered
<1>2. s.va = (s.vs - u) % Modulus
  <2>1. ((T % Modulus) - u) % Modulus = (T - u) % Modulus
    <3>1. T \in Int /\ u \in Int  BY <1>1
    <3> QED  BY <3>1, ModAdd
  <2>2. T - u = K  BY <1>1
  <2> QED  BY <1>1, <2>1, <2>2
<1>3. ASSUME NEW k \in 1 .. u PROVE s.unacked[k].seq = (s.vs - u + k - 1) % Modulus
  <2>1. ((T % Modulus) + (k - 1 - u)) % Modulus = (T + (k - 1 - u)) % Modulus
    <3>1. T \in Int /\ k - 1 - u \in Int  BY <1>1
    <3> QED  BY <3>1, ModAdd
  <2>2. T + (k - 1 - u) = K + k - 1
    <3>1. T \in Int /\ K \in Int /\ u \in Int /\ T = K + u /\ k \in Int  BY <1>1
    <3> HIDE DEF T, K, u
    <3> QED  BY ONLY <3>1
  <2>3. T % Modulus \in Int
    <3>1. T \in Int  BY <1>1
    <3>2. T % Modulus \in 0 .. Modulus - 1  BY <3>1, ModBasic
    <3> QED  BY <3>2, ModulusAssumption
  <2>4. (T % Modulus) + (k - 1 - u) = (T % Modulus) - u + k - 1
    <3> DEFINE t == T % Modulus
    <3>1. t \in Int /\ u \in Int /\ k \in Int  BY <1>1, <2>3
    <3> HIDE DEF t
    <3>2. t + (k - 1 - u) = t - u + k - 1  BY ONLY <3>1
    <3> QED  BY <3>2 DEF t
  <2> QED  BY <1>1, <2>1, <2>2, <2>4
<1> QED  BY <1>1, <1>2, <1>3 DEF u

\* Every circuit that holds data in flight or is connected numbers its stream.
LEMMA NumberedEnd ==
    ASSUME Inv, StreamInv, NEW i \in DOMAIN circuit,
           circuit[i].state = "Connected" \/ circuit[i].unacked # <<>>
    PROVE  /\ circuit[i] \in Circuit /\ Numbered(circuit[i]) /\ circuit[i].reason = "None"
           /\ circuit[i].inc = i
<1>1. circuit[i] \in Circuit /\ EndIsSound(circuit[i]) /\ circuit[i].inc = i
  BY CircuitIsSound DEF Inv, Sound
<1>2. circuit[i].reason = "None"  BY <1>1 DEF EndIsSound
<1>3. Numbered(circuit[i])  BY EndsAre DEF Direction
<1> QED  BY <1>1, <1>2, <1>3

\* The in-flight messages are the newest transmitted ones.
LEMMA Contiguous == ASSUME Inv, StreamInv PROVE InFlightIsContiguous
<1> SUFFICES ASSUME NEW i \in DOMAIN circuit, NEW k \in DOMAIN circuit[i].unacked
             PROVE  /\ circuit[i].unacked[k].seq
                         = (circuit[i].vs - Len(circuit[i].unacked) + k - 1) % Modulus
                    /\ circuit[i].unacked[k].body = <<i, Acknowledged(circuit[i]) + k>>
  BY DEF InFlightIsContiguous
<1>1. circuit[i].unacked # <<>>  OBVIOUS
<1>2. /\ circuit[i] \in Circuit /\ Numbered(circuit[i]) /\ circuit[i].reason = "None"
      /\ circuit[i].inc = i
  BY <1>1, NumberedEnd
<1>3. circuit[i].unacked[k].body = <<i, Acknowledged(circuit[i]) + k>>
  BY <1>2 DEF Numbered
<1> QED  BY <1>2, <1>3, FlightIs

\* V(a) is the oldest one.
LEMMA Oldest == ASSUME Inv, StreamInv PROVE AckStateIsOldest
<1> SUFFICES ASSUME NEW i \in DOMAIN circuit, circuit[i].state = "Connected"
             PROVE  circuit[i].va = (circuit[i].vs - Len(circuit[i].unacked)) % Modulus
  BY DEF AckStateIsOldest
<1>1. circuit[i] \in Circuit /\ Numbered(circuit[i]) /\ circuit[i].reason = "None"
  BY NumberedEnd
<1> QED  BY <1>1, FlightIs

\* Two linked ends that are both connected are the opener and its newest peer.
LEMMA LinkedAre ==
    ASSUME Inv, StreamInv, NEW i \in DOMAIN circuit, NEW j \in DOMAIN circuit, Linked(i, j),
           circuit[i].state = "Connected", circuit[j].state = "Connected"
    PROVE  /\ Newest # 1 /\ Joined(circuit[1], circuit[Newest], net[To], net[From])
           /\ (i = 1 /\ j = Newest) \/ (j = 1 /\ i = Newest)
           /\ circuit[i] \in Sound /\ circuit[j] \in Sound
           /\ circuit[i].reason = "None" /\ circuit[j].reason = "None"
           /\ circuit[i].windowSize = WindowSize[circuit[i].node] /\ circuit[i].node \in Node
           /\ circuit[j].windowSize = WindowSize[circuit[j].node] /\ circuit[j].node \in Node
<1>1. /\ circuit # <<>> /\ Cast /\ circuit[1].inc = 1 /\ 1 \in DOMAIN circuit
      /\ Joined(circuit[1], Other, net[To], net[From])
  BY StreamFacts
<1>2. circuit[i] \in Sound /\ circuit[j] \in Sound /\ i \in Nat /\ j \in Nat
      /\ circuit[i].node \in Node /\ circuit[j].node \in Node
  BY CircuitIsSound DEF Inv
<1>3. circuit[i].reason = "None" /\ circuit[j].reason = "None"
  BY <1>2 DEF Sound, EndIsSound
<1>4. circuit[1].mintedFor = 0 /\ \A k \in DOMAIN circuit \ {1} : circuit[k].mintedFor = 1
  BY <1>1 DEF Cast, MintedFrom
<1>5. i \in {1, Newest} /\ j \in {1, Newest}  BY <1>1, <1>3 DEF Cast, Gone
<1>6. (i = 1 /\ j # 1) \/ (j = 1 /\ i # 1)
  <2>1. 0 \notin DOMAIN circuit  BY CircuitIsSound DEF Inv
  <2> QED  BY <1>4, <1>5, <2>1 DEF Linked
<1> QED  BY <1>1, <1>2, <1>3, <1>5, <1>6 DEF Cast, Other

\* The windows two connected ends agreed to.
LEMMA WindowsAre ==
    ASSUME NEW c, NEW d, NEW to, NEW from, Joined(c, d, to, from),
           c.state = "Connected", d.state = "Connected", c.windowSize >= 1, d.windowSize >= 1
    PROVE  /\ c.window = d.window /\ c.window \in 1 .. MaxWindow
           /\ c.window <= c.windowSize /\ d.window <= d.windowSize
<1>1. Open(c) /\ Open(d)  BY DEF Open
<1>2. c.window = d.window /\ d.window <= c.windowSize /\ d.window <= d.windowSize
  BY <1>1 DEF Joined, Agreed
<1>3. d.window \in 1 .. MaxWindow
  BY <1>1 DEF Joined, Roles, Pair, Direction, Shaken
<1> QED  BY <1>2, <1>3

\* Two connected ends agree on the window.
LEMMA Negotiated ==
    ASSUME Inv, StreamInv, \A n \in Node : WindowSize[n] >= 1 PROVE WindowAgreed
<1> SUFFICES ASSUME NEW i \in DOMAIN circuit, NEW j \in DOMAIN circuit, Linked(i, j),
                    circuit[i].state = "Connected", circuit[j].state = "Connected"
             PROVE  /\ circuit[i].window = circuit[j].window
                    /\ circuit[i].window \in 1 .. MaxWindow
                    /\ circuit[i].window <= circuit[i].windowSize
  BY DEF WindowAgreed
<1>1. /\ Joined(circuit[1], circuit[Newest], net[To], net[From])
      /\ (i = 1 /\ j = Newest) \/ (j = 1 /\ i = Newest)
      /\ circuit[i].windowSize >= 1 /\ circuit[j].windowSize >= 1
  BY LinkedAre
<1>2. CASE i = 1 /\ j = Newest  BY <1>1, <1>2, WindowsAre
<1>3. CASE j = 1 /\ i = Newest  BY <1>1, <1>3, WindowsAre
<1> QED  BY <1>1, <1>2, <1>3

\* No end sends more than the other agreed to hold.
LEMMA Fits ==
    ASSUME Inv, StreamInv, \A n \in Node : WindowSize[n] >= 1 PROVE NoOverrun
<1> SUFFICES ASSUME NEW i \in DOMAIN circuit, NEW j \in DOMAIN circuit, Linked(i, j),
                    circuit[i].state = "Connected", circuit[j].state = "Connected"
             PROVE  Transmitted(circuit[i]) - Accepted(circuit[j]) <= circuit[j].window
  BY DEF NoOverrun
<1>1. /\ Joined(circuit[1], circuit[Newest], net[To], net[From])
      /\ (i = 1 /\ j = Newest) \/ (j = 1 /\ i = Newest)
      /\ circuit[i] \in Sound /\ circuit[j] \in Sound
      /\ circuit[i].reason = "None" /\ circuit[j].reason = "None"
  BY LinkedAre
<1>2. circuit[i].window = circuit[j].window /\ circuit[i].window \in Nat
  BY Negotiated, HorizonFacts DEF WindowAgreed
<1>3. ASSUME NEW fwd, NEW back, Direction(circuit[i], circuit[j], fwd, back)
      PROVE  Transmitted(circuit[i]) - Accepted(circuit[j]) <= circuit[j].window
  <2>1. /\ circuit[i] \in Circuit /\ circuit[j] \in Circuit
        /\ circuit[i].unacked = <<>> \/ Len(circuit[i].unacked) <= circuit[i].window
    BY <1>1 DEF Sound, EndIsSound
  <2>2. Len(circuit[i].unacked) <= circuit[i].window
    <3>1. Len(<<>>) = 0  OBVIOUS
    <3> QED  BY <1>2, <2>1, <3>1
  <2>3. /\ Transmitted(circuit[i]) = Acknowledged(circuit[i]) + Len(circuit[i].unacked)
        /\ Transmitted(circuit[i]) \in Nat /\ Acknowledged(circuit[i]) \in Nat
        /\ Len(circuit[i].unacked) \in Nat
    BY <1>3, <2>1, Positions, Fields DEF Direction
  <2>4. Acknowledged(circuit[i]) <= Accepted(circuit[j])
    BY <1>1, <1>3 DEF Direction, Returned
  <2>5. Accepted(circuit[j]) \in Nat  BY <1>3, <2>1, AcceptedIs DEF Direction
  <2> QED  BY <1>2, <2>2, <2>3, <2>4, <2>5
<1> QED  BY <1>1, <1>3 DEF Joined, Pair

\* Whoever closed normally, the other end left as well.
LEMMA CleanClose == ASSUME Inv, StreamInv, HangsUpOpen PROVE CleanCloseIsMutual
<1> SUFFICES ASSUME NEW i \in DOMAIN circuit, NEW j \in DOMAIN circuit,
                    circuit[i].reason = "Normal", circuit[j].state = "Connected"
             PROVE  FALSE
  BY DEF CleanCloseIsMutual
<1>1. circuit # <<>>  OBVIOUS
<1>2. Cast /\ Together(circuit[1], Other, net[To], net[From])  BY <1>1, StreamFacts
<1>3. circuit[j].reason = "None" /\ ~Leaving(circuit[j])
  BY SoundCircuit DEF Sound, EndIsSound, Leaving
<1>4. i \in {1, Newest} /\ j \in {1, Newest} /\ i # j
  BY <1>2, <1>3 DEF Cast, Gone
<1>5. Other = circuit[Newest]  BY <1>4 DEF Other
<1>6. Parted(circuit[1], circuit[Newest], net[To], net[From])  BY <1>2, <1>5 DEF Together
<1>7. /\ circuit[1].reason = "Normal" => Leaving(circuit[Newest])
      /\ circuit[Newest].reason = "Normal" => Leaving(circuit[1])
  BY <1>6 DEF Parted, Parting
<1> QED  BY <1>3, <1>4, <1>7

-----------------------------------------------------------------------------
(* What holds of one circuit, whatever is lost, resent, choked or NAKed *)

\* circuit.ts, onInformation and pumpSendQueue: the frames an application has
\* been handed are a prefix of those the other end wrote, with their
\* boundaries, for every window and every even sequence space.
THEOREM FramesInOrder == ASSUME OneStream PROVE Spec => []InOrderDelivery
<1>1. Inv /\ StreamInv => InOrderDelivery  BY InOrder
<1> QED  BY <1>1, StreamInvariance, PTL

\* circuit.ts, absorbAck: a fragment leaves the in-flight list only after the
\* other end accepted it, though the acknowledgement names it by a number of
\* the sequence space that is used again and again.
THEOREM NothingLost == ASSUME OneStream PROVE Spec => []AckedWereAccepted
<1>1. Inv /\ StreamInv => AckedWereAccepted  BY AckedAccepted
<1> QED  BY <1>1, StreamInvariance, PTL

\* circuit.ts, pumpSendQueue and retransmitFrom: what is in flight is the
\* newest part of what was transmitted, numbered without gaps up to V(s).
THEOREM FlightContiguous == ASSUME OneStream PROVE Spec => []InFlightIsContiguous
<1>1. Inv /\ StreamInv => InFlightIsContiguous  BY Contiguous
<1> QED  BY <1>1, StreamInvariance, PTL

\* circuit.ts, absorbAck: V(a) is the oldest unacknowledged number, as the
\* comment on ackState says.
THEOREM AckStateOldest == ASSUME OneStream PROVE Spec => []AckStateIsOldest
<1>1. Inv /\ StreamInv => AckStateIsOldest  BY Oldest
<1> QED  BY <1>1, StreamInvariance, PTL

\* circuit.ts, acceptInbound and onConnectAcknowledge: two connected ends have
\* the same window, within both proposals.
THEOREM WindowsAgreed ==
    ASSUME OneStream, \A n \in Node : WindowSize[n] >= 1 PROVE Spec => []WindowAgreed
<1>1. Inv /\ StreamInv => WindowAgreed  BY Negotiated
<1> QED  BY <1>1, StreamInvariance, PTL

\* circuit.ts, pumpSendQueue: an end never has more beyond what the other
\* accepted than the window that one agreed to hold.
THEOREM NeverOverrun ==
    ASSUME OneStream, \A n \in Node : WindowSize[n] >= 1 PROVE Spec => []NoOverrun
<1>1. Inv /\ StreamInv => NoOverrun  BY Fits
<1> QED  BY <1>1, StreamInvariance, PTL

\* circuit.ts, disconnect, onDisconnectRequest and onDisconnectAcknowledge: an
\* end that reports a normal close never leaves the other connected, whatever
\* was lost or resent, when applications hang up on circuits that are open.
THEOREM CleanCloseMutual ==
    ASSUME OneStream, HangsUpOpen PROVE Spec => []CleanCloseIsMutual
<1>1. Inv /\ StreamInv => CleanCloseIsMutual  BY CleanClose
<1> QED  BY <1>1, StreamInvariance, PTL

=============================================================================
