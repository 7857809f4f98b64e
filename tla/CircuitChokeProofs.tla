--------------------------- MODULE CircuitChokeProofs ---------------------------
(***************************************************************************)
(* Flow control of a circuit, for any window sizes, threshold, losses and  *)
(* timing, while the hosts open one circuit and data goes one way          *)
(* (OneStream, OneWay): a choked end transmits nothing new (HonoursChoke), *)
(* and a stalled reader's backlog is bounded (BacklogBounded).             *)
(*                                                                         *)
(* The first rests on the other end having nothing to send (OneWayInv).    *)
(* The second relates what the reader has pending to how far the writer    *)
(* may have come, and to what every acknowledgement under way says of the  *)
(* choke (Paced).  What a handler of the writer may do for that is Writes, *)
(* what one of the reader may do is Reads; the manager's steps are turned  *)
(* into such handlers by OpenerMoves and PeerMoves.                        *)
(*                                                                         *)
(* With data both ways neither holds: an acknowledgement absorbed from an  *)
(* Information message transmits before its choke flag is looked at.       *)
(***************************************************************************)
EXTENDS CircuitStreamProofs

-----------------------------------------------------------------------------
(* Flow control: what a handler leaves alone *)

\* The written stream, what was received and its choke.
Keeps(c, e) ==
    /\ e.sent = c.sent /\ e.got = c.got /\ e.reassembly = c.reassembly /\ e.vr = c.vr
    /\ e.pending = c.pending /\ e.localChoked = c.localChoked

\* An end that is choked was so before, and has numbered nothing new.
Held(c, e) == e.peerChoked => c.peerChoked /\ e.vs = c.vs

\* Both compose.
LEMMA KeepsOn ==
    ASSUME NEW c, NEW d, NEW e
    PROVE  /\ Keeps(c, c) /\ Held(c, c)
           /\ Keeps(c, d) /\ Keeps(d, e) => Keeps(c, e)
           /\ Held(c, d) /\ Held(d, e) => Held(c, e)
BY DEF Keeps, Held

\* Emission touches neither.
LEMMA EmissionKeeps ==
    ASSUME NEW c \in Circuit, NEW e \in Emissions(c)
    PROVE  Keeps(c, e) /\ Held(c, e)
<1>1. e = [c EXCEPT !.out = e.out]  BY DEF Emissions
<1> QED  BY <1>1 DEF Keeps, Held, Circuit

\* Nor does closing, but for the frame being assembled.
LEMMA CloseKeeps ==
    ASSUME NEW c \in Circuit, NEW reason
    PROVE  LET e == Close(c, reason)
           IN  /\ e.sent = c.sent /\ e.got = c.got /\ e.pending = c.pending /\ e.out = c.out
               /\ e.vs = c.vs /\ e.peerChoked = c.peerChoked /\ e.window = c.window
BY DEF Close, Circuit

\* The pump numbers data only where the end is not choked.
LEMMA PumpKeeps ==
    ASSUME NEW c \in Circuit
    PROVE  Keeps(c, Pump(c)) /\ Held(c, Pump(c)) /\ Pump(c).peerChoked = c.peerChoked
<1> DEFINE n == Lesser(Len(c.sendQueue), c.window - Len(c.unacked))
<1>1. CASE c.state # "Connected" \/ c.peerChoked \/ Len(c.unacked) >= c.window
  <2>1. Pump(c) = c  BY <1>1 DEF Pump
  <2> QED  BY <2>1 DEF Keeps, Held
<1>2. CASE ~(c.state # "Connected" \/ c.peerChoked \/ Len(c.unacked) >= c.window)
  <2>1. Pump(c) = Fill(c, n)  BY <1>2 DEF Pump
  <2> HIDE DEF n
  <2>2. Keeps(c, Fill(c, n)) /\ Fill(c, n).peerChoked = c.peerChoked
    BY DEF Fill, SendInformation, Emit, Keeps, Circuit
  <2> QED  BY <1>2, <2>1, <2>2 DEF Held
<1> QED  BY <1>1, <1>2

\* Absorbing an acknowledgement, sending again and asserting the choke keep
\* both; the peer's choke flag keeps what was received.
LEMMA AbsorbAckKeeps ==
    ASSUME NEW c \in Sound, c.state = "Connected", NEW expected \in Seqno
    PROVE  Keeps(c, AbsorbAck(c, expected)) /\ Held(c, AbsorbAck(c, expected))
<1> DEFINE us == Pick(c.unacked, StillHeld(c, expected))
           d == [c EXCEPT !.va = expected, !.unacked = us]
<1>1. c \in Circuit /\ EndIsSound(c) /\ c.unacked \in Seq(Unacked) /\ Len(c.unacked) \in Nat
      /\ c.window \in Nat
  BY SoundFields DEF Sound
<1>2. us \in Seq(Unacked) /\ Len(us) \in Nat /\ Len(us) <= Len(c.unacked)
  BY <1>1, PickType DEF StillHeld
<1>3. CASE c.unacked = <<>>
  BY <1>1, <1>3 DEF AbsorbAck, Keeps, Held, Circuit
<1>4. CASE c.unacked # <<>>
  <2>1. AbsorbAck(c, expected) = Pump(d)  BY <1>4 DEF AbsorbAck
  <2>2. us = <<>> \/ Len(us) <= c.window  BY SMTT(60), <1>1, <1>2, <1>4 DEF EndIsSound
  <2> HIDE DEF us
  <2>3. d \in DataSteps(c)  BY <1>1, <1>2, <2>2, FlightType, SoundFields
  <2>4. d \in Circuit  BY <2>3 DEF DataSteps, SameState, Evolutions, Sound
  <2>5. Keeps(c, d) /\ Held(c, d)  BY <1>1 DEF Keeps, Held, Circuit
  <2> HIDE DEF d
  <2>6. Keeps(d, Pump(d)) /\ Held(d, Pump(d))  BY <2>4, PumpKeeps
  <2> QED  BY <2>1, <2>5, <2>6, KeepsOn
<1> QED  BY <1>3, <1>4

\* Sending again.
LEMMA ResendKeeps ==
    ASSUME NEW c \in Circuit, NEW I
    PROVE  Keeps(c, Resend(c, I)) /\ Held(c, Resend(c, I))
BY DEF Resend, SendInformation, Emit, Keeps, Held, Circuit

\* The peer's choke flag: an end left choked has numbered nothing.
LEMMA ApplyPeerChokeKeeps ==
    ASSUME NEW c \in Sound, NEW choke \in BOOLEAN
    PROVE  LET e == ApplyPeerChoke(c, choke)
           IN  Keeps(c, e) /\ (e.peerChoked => e.vs = c.vs)
<1>1. c \in Circuit  BY DEF Sound
<1> DEFINE d == [c EXCEPT !.peerChoked = FALSE]
<1>2. CASE choke
  <2>1. ApplyPeerChoke(c, choke) = [c EXCEPT !.peerChoked = TRUE]  BY <1>2 DEF ApplyPeerChoke
  <2> QED  BY <1>1, <2>1 DEF Keeps, Circuit
<1>3. CASE ~choke /\ c.peerChoked
  <2>1. ApplyPeerChoke(c, choke) = Pump(d)  BY <1>3 DEF ApplyPeerChoke
  <2>2. d \in Circuit  BY QuietFieldType DEF DataSteps, SameState, Evolutions, Sound
  <2>3. Keeps(c, d) /\ d.peerChoked = FALSE  BY <1>1 DEF Keeps, Circuit
  <2> HIDE DEF d
  <2>4. Keeps(d, Pump(d)) /\ Pump(d).peerChoked = FALSE  BY <2>2, <2>3, PumpKeeps
  <2> QED  BY <2>1, <2>3, <2>4, KeepsOn
<1>4. CASE ~choke /\ ~c.peerChoked
  <2>1. ApplyPeerChoke(c, choke) = c  BY <1>4 DEF ApplyPeerChoke
  <2> QED  BY <2>1, KeepsOn
<1> QED  BY <1>2, <1>3, <1>4

\* Writing and the frames consumed leave what was received.
LEMMA SendHeld ==
    ASSUME NEW c \in Sound, NEW size \in Nat
    PROVE  LET e == Send(c, size)
           IN  Held(c, e) /\ e.got = c.got /\ e.pending = c.pending
<1> DEFINE more  == [i \in 1 .. size |-> i < size]
           frame == [i \in 1 .. size |-> [body |-> <<c.inc, Len(c.sent) + i>>, more |-> more[i]]]
           d == [c EXCEPT !.sendQueue = c.sendQueue \o frame, !.sent = c.sent \o more]
<1>1. c \in Circuit  BY DEF Sound
<1>2. CASE c.state # "Connected"
  <2>1. Send(c, size) = c  BY <1>2 DEF Send
  <2> QED  BY <2>1, KeepsOn
<1>3. CASE c.state = "Connected"
  <2>1. Send(c, size) = Pump(d)  BY <1>3 DEF Send
  <2>2. Len(c.sent) \in Nat /\ c.inc \in Nat  BY <1>1, Fields
  <2>3. more \in Seq(BOOLEAN) /\ frame \in Seq(Fragment)
    <3>1. \A i \in 1 .. size : frame[i] \in Fragment
      <4> SUFFICES ASSUME NEW i \in 1 .. size
                   PROVE  [body |-> <<c.inc, Len(c.sent) + i>>, more |-> more[i]] \in Fragment
        OBVIOUS
      <4>1. Len(c.sent) + i \in Nat /\ more[i] \in BOOLEAN  BY <2>2
      <4> QED  BY <2>2, <4>1 DEF Fragment, Body
    <3>2. frame \in [1 .. size -> Fragment]  BY <3>1
    <3>3. more \in Seq(BOOLEAN)  OBVIOUS
    <3> HIDE DEF frame
    <3> QED  BY <3>2, <3>3
  <2> HIDE DEF more, frame
  <2>4. c.sendQueue \o frame \in Seq(Fragment) /\ c.sent \o more \in Seq(BOOLEAN)
    BY <1>1, <2>3, Fields, CatType
  <2>5. d \in Circuit  BY <1>1, <2>4 DEF Circuit
  <2>6. d.got = c.got /\ d.pending = c.pending /\ Held(c, d)  BY <1>1 DEF Circuit, Held
  <2> HIDE DEF d
  <2>7. Keeps(d, Pump(d)) /\ Held(d, Pump(d))  BY <2>5, PumpKeeps
  <2> QED  BY <2>1, <2>6, <2>7, KeepsOn DEF Keeps
<1> QED  BY <1>2, <1>3

\* A frame consumed, or one too many pending.
LEMMA DrainedKeeps ==
    ASSUME NEW c \in Circuit
    PROVE  LET e == OnDeliveryDrained(c)
           IN  /\ e.sent = c.sent /\ e.got = c.got /\ e.reassembly = c.reassembly /\ e.vr = c.vr
               /\ e.pending = (IF c.pending > 0 THEN c.pending - 1 ELSE 0)
               /\ Held(c, e)
BY DEF OnDeliveryDrained, SendInformationAcknowledge, Emit, Held, Circuit

\* Asserting the choke.
LEMMA MaybeAssertChokeKeeps ==
    ASSUME NEW c \in Circuit
    PROVE  LET e == MaybeAssertChoke(c)
           IN  /\ e.sent = c.sent /\ e.got = c.got /\ e.reassembly = c.reassembly /\ e.vr = c.vr
               /\ e.pending = c.pending /\ e.out = c.out /\ Held(c, e)
BY DEF MaybeAssertChoke, Held, Circuit

\* Hanging up.
LEMMA DisconnectKeeps ==
    ASSUME NEW c \in Circuit
    PROVE  LET e == Disconnect(c)
           IN  e.sent = c.sent /\ e.got = c.got /\ e.pending = c.pending /\ Held(c, e)
BY DEF Disconnect, Close, SendDisconnectRequest, Emit, Held, Circuit

-----------------------------------------------------------------------------
(* Flow control: what each handler does to a choked end *)

\* With nothing queued the pump does nothing.
LEMMA IdlePump == ASSUME NEW c \in Circuit, c.sendQueue = <<>> PROVE Pump(c) = c
<1> DEFINE room == c.window - Len(c.unacked)
           e == Fill(c, 0)
<1>1. /\ c.window \in Nat /\ c.unacked \in Seq(Unacked) /\ Len(c.unacked) \in Nat
      /\ c.vs \in Seqno /\ c.out \in Seq(Packet)
  BY DEF Circuit
<1>2. CASE c.state # "Connected" \/ c.peerChoked \/ Len(c.unacked) >= c.window
  BY <1>2 DEF Pump
<1>3. CASE ~(c.state # "Connected" \/ c.peerChoked \/ Len(c.unacked) >= c.window)
  <2>1. Lesser(Len(c.sendQueue), room) = 0  BY <1>1, <1>3 DEF Lesser
  <2>2. Pump(c) = Fill(c, 0)  BY <1>3, <2>1 DEF Pump
  <2>3. NextSeq(c.vs, 0) = c.vs
    <3>1. c.vs \in 0 .. Modulus - 1 /\ c.vs + 0 = c.vs  BY <1>1, ModulusAssumption DEF Seqno
    <3> QED  BY <3>1, ModSmall DEF NextSeq
  <2> DEFINE fresh == [i \in 1 .. 0 |-> [seq |-> NextSeq(c.vs, i - 1), retries |-> 0,
                                         body |-> c.sendQueue[i].body, more |-> c.sendQueue[i].more]]
             q == SubSeq(c.sendQueue, 0 + 1, Len(c.sendQueue))
             us == c.unacked \o fresh
             d == [c EXCEPT !.vs = NextSeq(c.vs, 0), !.unacked = us, !.sendQueue = q]
             ps == [i \in DOMAIN fresh |-> InformationOf(d, fresh[i])]
  <2>4. Fill(c, 0) = [d EXCEPT !.out = d.out \o ps]
    BY DEF Fill, SendInformation, Emit
  <2>5. fresh = <<>>  OBVIOUS
  <2>6. q = <<>>  OBVIOUS
  <2>7. us = c.unacked  BY <1>1, <2>5
  <2>8. ps = <<>>
    <3> HIDE DEF d
    <3> QED  BY <2>5
  <2> HIDE DEF ps, us, q
  <2>9. d = c  BY <2>3, <2>6, <2>7 DEF Circuit
  <2>10. c.out \o <<>> = c.out  BY <1>1
  <2> HIDE DEF d
  <2>11. Fill(c, 0) = [c EXCEPT !.out = c.out]  BY <2>4, <2>8, <2>9, <2>10
  <2>12. [c EXCEPT !.out = c.out] = c  BY DEF Circuit
  <2> QED  BY <2>2, <2>11, <2>12
<1> QED  BY <1>2, <1>3

\* What the application does in the data callback.
LEMMA ReactHeld ==
    ASSUME NEW c \in Sound, NEW reaction \in Reaction
    PROVE  LET e == React(c, reaction)
           IN  Held(c, e) /\ e.got = c.got /\ (reaction # "reply" => e.sent = c.sent)
<1>1. c \in Circuit  BY DEF Sound
<1>2. CASE reaction = "hold"
  <2>1. React(c, reaction) = c  BY <1>2 DEF React
  <2> QED  BY <2>1, KeepsOn
<1>3. CASE reaction = "drain"
  <2>1. React(c, reaction) = OnDeliveryDrained(c)  BY <1>3 DEF React
  <2> QED  BY <1>1, <2>1, DrainedKeeps
<1>4. CASE reaction = "reply"
  <2> DEFINE d == Send(c, 1)
  <2>1. React(c, reaction) = OnDeliveryDrained(d)  BY <1>4 DEF React
  <2>2. d \in DataSteps(c) /\ Held(c, d) /\ d.got = c.got  BY SendType, SendHeld
  <2>3. d \in Circuit  BY <2>2, Transitivity DEF Sound
  <2> HIDE DEF d
  <2>4. OnDeliveryDrained(d).got = d.got /\ Held(d, OnDeliveryDrained(d))  BY <2>3, DrainedKeeps
  <2>5. Held(c, OnDeliveryDrained(d))  BY <2>2, <2>4, KeepsOn
  <2> QED  BY <1>4, <2>1, <2>2, <2>4, <2>5
<1>5. CASE reaction = "dispose"
  <2> DEFINE d == Disconnect(c)
  <2>1. React(c, reaction) = OnDeliveryDrained(d)  BY <1>5 DEF React
  <2>2. d \in Evolutions(c) /\ Held(c, d) /\ d.got = c.got /\ d.sent = c.sent
    BY <1>1, DisconnectType, DisconnectKeeps
  <2>3. d \in Circuit  BY <2>2, Transitivity DEF Sound
  <2> HIDE DEF d
  <2>4. /\ OnDeliveryDrained(d).got = d.got /\ OnDeliveryDrained(d).sent = d.sent
        /\ Held(d, OnDeliveryDrained(d))
    BY <2>3, DrainedKeeps
  <2>5. Held(c, OnDeliveryDrained(d))  BY <2>2, <2>4, KeepsOn
  <2> QED  BY <2>1, <2>2, <2>4, <2>5
<1> QED  BY <1>2, <1>3, <1>4, <1>5 DEF Reaction

\* A frame that is delivered.
LEMMA DeliverHeld ==
    ASSUME NEW c \in Sound, NEW reaction \in Reaction
    PROVE  LET e == Deliver(c, reaction)
           IN  Held(c, e) /\ e.got # <<>> /\ (reaction # "reply" => e.sent = c.sent)
<1> DEFINE got == Append(c.got, c.reassembly)
           n == IF ChokeThreshold > 0 THEN c.pending + 1 ELSE c.pending
           b == [c EXCEPT !.got = got, !.reassembly = <<>>, !.pending = n]
           x == React(b, reaction)
<1>1. /\ c \in Circuit /\ c.got \in Seq(Seq(Body)) /\ c.reassembly \in Seq(Body)
      /\ c.pending \in Nat /\ c.vr \in Seqno
  BY DEF Sound, Circuit
<1>2. got \in Seq(Seq(Body)) /\ n \in Nat /\ <<>> \in Seq(Body) /\ got # <<>>
  <2>1. got \in Seq(Seq(Body)) /\ got # <<>>  BY <1>1, AppendIndex
  <2> QED  BY <1>1, <2>1
<1>3. Deliver(c, reaction) = MaybeAssertChoke(React(b, reaction))
  <2>1. [c EXCEPT !.got = Append(@, c.reassembly), !.reassembly = <<>>,
                  !.pending = IF ChokeThreshold > 0 THEN @ + 1 ELSE @] = b
    BY <1>1 DEF Circuit
  <2> QED  BY <2>1 DEF Deliver
<1> HIDE DEF got, n
<1>4. b \in DataSteps(c)  BY <1>1, <1>2, ReceiptType
<1>5. b \in Sound  BY <1>4, Transitivity
<1>6. b.got = got /\ b.sent = c.sent /\ Held(c, b)  BY <1>1 DEF Circuit, Held
<1> HIDE DEF b
<1>7. x \in Sound  BY <1>5, ReactType, OutcomeSteps
<1>8. Held(b, x) /\ x.got = b.got /\ (reaction # "reply" => x.sent = b.sent)  BY <1>5, ReactHeld
<1> HIDE DEF x
<1>9. x \in Circuit  BY <1>7 DEF Sound
<1>10. /\ Held(x, MaybeAssertChoke(x)) /\ MaybeAssertChoke(x).got = x.got
       /\ MaybeAssertChoke(x).sent = x.sent
  BY <1>9, MaybeAssertChokeKeeps
<1>11. Held(c, MaybeAssertChoke(x))  BY <1>6, <1>8, <1>10, KeepsOn
<1> QED  BY <1>2, <1>3, <1>6, <1>8, <1>10, <1>11 DEF x

\* An Information message finds an end with nothing queued, so that absorbing
\* its acknowledgement sends nothing before its choke flag is looked at.
LEMMA OnInformationHonours ==
    ASSUME NEW c \in Sound, c.state = "Connected" => c.sendQueue = <<>>,
           NEW p \in Packet, NEW reaction \in Reaction
    PROVE  LET e == OnInformation(c, p, reaction)
           IN  /\ e.peerChoked => e.vs = c.vs
               /\ reaction # "reply" => e.sent = c.sent
               /\ e.got = <<>> => c.got = <<>> /\ e.pending = c.pending
<1>1. c \in Circuit /\ EndIsSound(c)  BY DEF Sound
<1>2. CASE c.state # "Connected"
  <2>1. OnInformation(c, p, reaction) = c  BY <1>2 DEF OnInformation
  <2> QED  BY <2>1
<1>3. CASE c.state = "Connected"
  <2> DEFINE z == AbsorbAck(c, p.rx)
             a == ApplyPeerChoke(z, p.choke)
             v == NextSeq(a.vr, 1)
             r == Append(a.reassembly, p.body)
             d == [a EXCEPT !.vr = v, !.reassembly = r]
             y == Deliver(d, reaction)
             x == IF p.more THEN d ELSE y
             nak == Mod256After(p.tx, a.vr)
  <2>1. /\ p.rx \in Seqno /\ p.choke \in BOOLEAN /\ p.body \in Body /\ p.more \in BOOLEAN
    BY PacketFields
  <2>2. z \in DataSteps(c) /\ Keeps(c, z)  BY <1>3, <2>1, AbsorbAckType, AbsorbAckKeeps
  <2>3. z \in Sound  BY <2>2, Transitivity
  <2>4. z.vs = c.vs
    <3> DEFINE us == Pick(c.unacked, StillHeld(c, p.rx))
               g == [c EXCEPT !.va = p.rx, !.unacked = us]
    <3>1. CASE c.unacked = <<>>  BY <1>1, <3>1 DEF AbsorbAck, Circuit
    <3>2. CASE c.unacked # <<>>
      <4>1. z = Pump(g)  BY <3>2 DEF AbsorbAck
      <4>2. c.unacked \in Seq(Unacked) /\ StillHeld(c, p.rx) \in SUBSET DOMAIN c.unacked
        BY <1>1 DEF Circuit, StillHeld
      <4>3. us \in Seq(Unacked)  BY <4>2, PickType
      <4> HIDE DEF us, z
      <4>4. g \in Circuit /\ g.sendQueue = <<>> /\ g.vs = c.vs
        BY <1>1, <1>3, <2>1, <4>3 DEF Circuit
      <4> HIDE DEF g
      <4>5. Pump(g) = g  BY <4>4, IdlePump
      <4> QED  BY <4>1, <4>4, <4>5
    <3> QED  BY <3>1, <3>2
  <2> HIDE DEF z
  <2>5. a \in DataSteps(z) /\ Keeps(z, a) /\ (a.peerChoked => a.vs = z.vs)
    BY <2>1, <2>3, ApplyPeerChokeType, ApplyPeerChokeKeeps
  <2>6. a \in Sound /\ Keeps(c, a) /\ a.got = c.got /\ a.sent = c.sent /\ a.pending = c.pending
    BY <2>2, <2>5, KeepsOn, Transitivity DEF Keeps
  <2>7. a \in Circuit /\ a.vr \in Seqno /\ a.reassembly \in Seq(Body)
        /\ a.got \in Seq(Seq(Body)) /\ a.pending \in Nat
    BY <2>6 DEF Sound, Circuit
  <2> HIDE DEF a
  <2>8. v \in Seqno
    <3>1. a.vr \in Nat /\ 1 \in Int  BY <2>7, ModulusAssumption DEF Seqno
    <3> QED  BY <3>1, NextSeqType
  <2>9. r \in Seq(Body)  BY <2>1, <2>7, AppendIndex
  <2> HIDE DEF v, r
  <2>10. d \in DataSteps(a)  BY <2>6, <2>7, <2>8, <2>9, ReceiptType
  <2>11. /\ d \in Sound /\ Held(a, d) /\ d.sent = c.sent /\ d.got = c.got /\ d.pending = c.pending
    <3>1. Held(a, d) /\ d.sent = c.sent /\ d.got = c.got /\ d.pending = c.pending
      BY <2>6, <2>7 DEF Held, Circuit
    <3>2. d \in Sound  BY <2>10, Transitivity
    <3> QED  BY <3>1, <3>2
  <2> DEFINE Obey(e) == /\ e.peerChoked => e.vs = c.vs
                        /\ reaction # "reply" => e.sent = c.sent
                        /\ e.got = <<>> => c.got = <<>> /\ e.pending = c.pending
  <2> HIDE DEF d
  <2>12. Obey(a)  BY <2>4, <2>5, <2>6
  <2>13. Obey(d)  BY <2>4, <2>5, <2>11 DEF Held
  <2>14. y \in Sound /\ Held(d, y) /\ y.got # <<>> /\ (reaction # "reply" => y.sent = d.sent)
    BY <2>11, DeliverHeld, DeliverType, OutcomeSteps
  <2> HIDE DEF y
  <2>15. Obey(y)  BY <2>4, <2>5, <2>11, <2>14 DEF Held
  <2>16. x \in Sound /\ Obey(x)  BY <2>11, <2>13, <2>14, <2>15
  <2>17. nak \in BOOLEAN  BY DEF Mod256After
  <2>18. OnInformation(c, p, reaction)
            \in {SendInformationAcknowledge(a, nak), SendInformationAcknowledge(x, FALSE)}
    <3>1. d = [a EXCEPT !.vr = NextSeq(@, 1), !.reassembly = Append(@, p.body)]
      BY <2>7 DEF d, v, r, Circuit
    <3> QED  BY <1>3, <3>1 DEF OnInformation, a, z, y
  <2> HIDE DEF x, nak, Obey
  <2>19. \A s \in Sound, b \in BOOLEAN : Obey(s) => Obey(SendInformationAcknowledge(s, b))
    <3> SUFFICES ASSUME NEW s \in Sound, NEW b \in BOOLEAN, Obey(s)
                 PROVE  Obey(SendInformationAcknowledge(s, b))
      OBVIOUS
    <3>1. SendInformationAcknowledge(s, b) \in Emissions(s) /\ s \in Circuit
      BY SendInformationAcknowledgeType DEF Sound
    <3>2. Keeps(s, SendInformationAcknowledge(s, b)) /\ Held(s, SendInformationAcknowledge(s, b))
      BY <3>1, EmissionKeeps
    <3> QED  BY <3>2 DEF Keeps, Held, Obey
  <2>20. Obey(OnInformation(c, p, reaction))
    BY <2>6, <2>12, <2>16, <2>17, <2>18, <2>19
  <2> QED  BY <2>20 DEF Obey
<1> QED  BY <1>2, <1>3

\* An acknowledgement sets or clears the choke before it lets anything move.
LEMMA OnAcknowledgeHonours ==
    ASSUME NEW c \in Sound, NEW p \in Packet
    PROVE  LET e == OnInformationAcknowledge(c, p)
           IN  Keeps(c, e) /\ (e.peerChoked => e.vs = c.vs)
<1>1. CASE c.state # "Connected"
  <2>1. OnInformationAcknowledge(c, p) = c  BY <1>1 DEF OnInformationAcknowledge
  <2> QED  BY <2>1, KeepsOn
<1>2. CASE c.state = "Connected"
  <2> DEFINE z == ApplyPeerChoke(c, p.choke)
             a == AbsorbAck(z, p.rx)
             y == RetransmitFrom(a, p.rx)
             x == IF p.nak THEN y ELSE a
  <2>1. p.rx \in Seqno /\ p.choke \in BOOLEAN  BY PacketFields
  <2>2. OnInformationAcknowledge(c, p) = Pump(x)  BY <1>2 DEF OnInformationAcknowledge
  <2>3. z \in DataSteps(c) /\ Keeps(c, z) /\ (z.peerChoked => z.vs = c.vs)
    BY <2>1, ApplyPeerChokeType, ApplyPeerChokeKeeps
  <2>4. z \in Sound /\ z.state = "Connected"  BY <1>2, <2>3, Transitivity DEF DataSteps, SameState
  <2> HIDE DEF z
  <2>5. a \in DataSteps(z) /\ Keeps(z, a) /\ Held(z, a)
    BY <2>1, <2>4, AbsorbAckType, AbsorbAckKeeps
  <2>6. a \in Sound /\ a.state = "Connected"  BY <2>4, <2>5, Transitivity DEF DataSteps, SameState
  <2> HIDE DEF a
  <2>7. y \in Sound /\ Keeps(a, y) /\ Held(a, y)
    <3>1. a \in Circuit  BY <2>6 DEF Sound
    <3>2. Keeps(a, y) /\ Held(a, y)  BY <3>1, ResendKeeps DEF RetransmitFrom
    <3> QED  BY <2>6, <3>2, RetransmitFromType, Transitivity
  <2> HIDE DEF y
  <2>8. x \in Circuit /\ Keeps(a, x) /\ Held(a, x)  BY <2>6, <2>7, KeepsOn DEF Sound
  <2> HIDE DEF x
  <2>9. Keeps(x, Pump(x)) /\ Held(x, Pump(x))  BY <2>8, PumpKeeps
  <2>10. Keeps(c, Pump(x))  BY <2>3, <2>5, <2>8, <2>9, KeepsOn
  <2>11. Held(z, Pump(x))  BY <2>5, <2>8, <2>9, KeepsOn
  <2> QED  BY <2>2, <2>3, <2>10, <2>11 DEF Held
<1> QED  BY <1>1, <1>2

\* The answer to a Connect Request.
LEMMA OnConnectAcknowledgeHeld ==
    ASSUME NEW c \in Sound, NEW p \in Packet
    PROVE  LET e == OnConnectAcknowledge(c, p)
           IN  /\ Held(c, e) /\ e.sent = c.sent /\ e.got = c.got /\ e.pending = c.pending
               /\ e.localChoked = c.localChoked
<1> DEFINE key == p.own
           w == IF p.win \in 1 .. MaxWindow THEN Lesser(c.window, p.win) ELSE c.window
           d == [c EXCEPT !.remoteKey = key, !.armed = FALSE]
           g == [d EXCEPT !.window = w, !.state = "Connected"]
<1>1. c \in Circuit /\ key \in Key /\ c.window \in Nat /\ p.win \in Nat
  BY PacketFields DEF Sound, Circuit
<1>2. w \in Nat  BY <1>1 DEF Lesser
<1>3. CASE c.state # "Connecting"
  BY <1>3, KeepsOn DEF OnConnectAcknowledge
<1>4. CASE c.state = "Connecting" /\ p.choke
  <2>1. OnConnectAcknowledge(c, p) = Close(d, "Refused")  BY <1>4 DEF OnConnectAcknowledge
  <2> HIDE DEF key
  <2> QED  BY <1>1, <2>1 DEF Close, Circuit, Held
<1>5. CASE c.state = "Connecting" /\ ~p.choke
  <2>1. OnConnectAcknowledge(c, p) = Pump(g)  BY <1>5 DEF OnConnectAcknowledge
  <2> HIDE DEF key, w
  <2>2. g \in Circuit  BY <1>1, <1>2 DEF Circuit, State
  <2>3. Keeps(c, g) /\ Held(c, g)  BY <1>1 DEF Keeps, Held, Circuit
  <2> HIDE DEF g
  <2>4. Keeps(g, Pump(g)) /\ Held(g, Pump(g))  BY <2>2, PumpKeeps
  <2>5. Keeps(c, Pump(g)) /\ Held(c, Pump(g))  BY <2>3, <2>4, KeepsOn
  <2> QED  BY <2>1, <2>5 DEF Keeps
<1> QED  BY <1>3, <1>4, <1>5

\* The retransmit timer.
LEMMA TickHeld ==
    ASSUME NEW c \in Circuit
    PROVE  LET e == Tick(c)
           IN  /\ Held(c, e) /\ e.sent = c.sent /\ e.got = c.got /\ e.pending = c.pending
               /\ e.localChoked = c.localChoked
<1> DEFINE again == [c EXCEPT !.retries = c.retries + 1]
<1>1. CASE RetriesSpent(c)
  <2>1. Tick(c) = Close(c, "Timeout")  BY <1>1 DEF Tick
  <2> QED  BY <2>1 DEF Close, Circuit, Held
<1>2. CASE ~RetriesSpent(c) /\ c.state = "Connecting"
  <2>1. Tick(c) = SendConnectRequest(again)  BY <1>2 DEF Tick, Circuit
  <2> QED  BY <2>1 DEF SendConnectRequest, Emit, Circuit, Held
<1>3. CASE ~RetriesSpent(c) /\ c.state = "Disconnecting"
  <2>1. Tick(c) = SendDisconnectRequest(again)  BY <1>3 DEF Tick, Circuit
  <2> QED  BY <2>1 DEF SendDisconnectRequest, Emit, Circuit, Held
<1>4. CASE ~RetriesSpent(c) /\ c.state \notin {"Connecting", "Disconnecting"}
  <2>1. Tick(c) = Resend(c, DOMAIN c.unacked)  BY <1>4 DEF Tick
  <2> QED  BY <2>1, ResendKeeps DEF Keeps
<1> QED  BY <1>1, <1>2, <1>3, <1>4

\* What a handler leaves of the choke and of what was written, and whether a
\* frame that is pending was delivered.
Counted(c) == c.got = <<>> => c.pending = 0
Restrained(c, e) ==
    /\ e.peerChoked => e.vs = c.vs
    /\ Counted(c) => Counted(e)

\* Any packet.
LEMMA OnPacketRestrained ==
    ASSUME NEW c \in Sound, NEW p \in Packet, NEW reaction \in Reaction,
           IsInfo(p) /\ c.state = "Connected" => c.sendQueue = <<>>
    PROVE  LET e == OnPacket(c, p, reaction)
           IN  Restrained(c, e) /\ (reaction # "reply" => e.sent = c.sent)
<1> DEFINE e == OnPacket(c, p, reaction)
<1>1. c \in Circuit /\ p.op \in Opcode /\ p.inc \in Nat  BY PacketFields DEF Sound
<1>2. CASE p.op = "ConnectRequest"
  <2>1. e = OnConnectRequest(c)  BY <1>2 DEF OnPacket
  <2>2. e = c \/ e \in Emissions(c)
    BY <1>1, <2>1, SendConnectAcknowledgeType DEF OnConnectRequest
  <2>3. Keeps(c, e) /\ Held(c, e)  BY <1>1, <2>2, EmissionKeeps, KeepsOn
  <2> QED  BY <2>3 DEF Keeps, Held, Restrained, Counted
<1>3. CASE p.op = "ConnectAcknowledge"
  <2>1. e = OnConnectAcknowledge(c, p)  BY <1>3 DEF OnPacket
  <2> QED  BY <2>1, OnConnectAcknowledgeHeld DEF Held, Restrained, Counted
<1>4. CASE p.op = "DisconnectRequest"
  <2> DEFINE x == SendDisconnectAcknowledge(c, p.inc)
  <2>1. e = Close(x, "Normal")  BY <1>4 DEF OnPacket, OnDisconnectRequest
  <2>2. x \in Emissions(c)  BY <1>1, SendDisconnectType
  <2>3. x \in Circuit /\ Keeps(c, x) /\ Held(c, x)  BY <1>1, <2>2, EmissionKeeps DEF Emissions
  <2> HIDE DEF x, e
  <2>4. /\ Close(x, "Normal").sent = x.sent /\ Close(x, "Normal").got = x.got
        /\ Close(x, "Normal").pending = x.pending /\ Close(x, "Normal").vs = x.vs
        /\ Close(x, "Normal").peerChoked = x.peerChoked
    BY <2>3, CloseKeeps
  <2> QED  BY <2>1, <2>3, <2>4 DEF Keeps, Held, Restrained, Counted, e
<1>5. CASE p.op = "DisconnectAcknowledge"
  <2>1. e = OnDisconnectAcknowledge(c)  BY <1>5 DEF OnPacket
  <2>2. e = c \/ e = Close(c, "Normal")  BY <2>1 DEF OnDisconnectAcknowledge
  <2> QED  BY <1>1, <2>2, CloseKeeps DEF Restrained, Counted
<1>6. CASE p.op = "Information"
  <2>1. e = OnInformation(c, p, reaction)  BY <1>6 DEF OnPacket
  <2>2. IsInfo(p)  BY <1>6 DEF IsInfo
  <2> HIDE DEF e
  <2> QED  BY <2>1, <2>2, OnInformationHonours DEF Restrained, Counted, e
<1>7. CASE p.op = "InformationAcknowledge"
  <2>1. e = OnInformationAcknowledge(c, p)  BY <1>7 DEF OnPacket
  <2> HIDE DEF e
  <2> QED  BY <2>1, OnAcknowledgeHonours DEF Keeps, Restrained, Counted, e
<1> QED  BY <1>1, <1>2, <1>3, <1>4, <1>5, <1>6, <1>7 DEF Opcode

-----------------------------------------------------------------------------
(* Flow control: data in one direction *)

\* One node's applications write, and none writes in the data callback.
OneWay == (\A n, m \in Writers : n = m) /\ "reply" \notin Reactions

\* Where no application writes nothing was sent; a frame that is pending was
\* delivered.
OneWayInv ==
    \A i \in DOMAIN circuit :
        /\ circuit[i].node \notin Writers => circuit[i].sent = <<>>
        /\ Counted(circuit[i])

\* A circuit no data has passed.
Untouched(c) == c.sent = <<>> /\ c.got = <<>> /\ c.pending = 0

\* What every step does to the circuits there are, and to a new one.
Complies(c, e) ==
    /\ e.node = c.node /\ Restrained(c, e)
    /\ c.node \notin Writers => e.sent = c.sent

AllComply ==
    /\ \A i \in DOMAIN circuit : i \in DOMAIN circuit' /\ Complies(circuit[i], circuit'[i])
    /\ \A i \in DOMAIN circuit' \ DOMAIN circuit : Untouched(circuit'[i])

\* An end that has written nothing holds nothing, and no message is from it.
LEMMA Unwritten ==
    ASSUME NEW s \in Circuit, Numbered(s), s.sent = <<>>
    PROVE  /\ s.sendQueue = <<>> /\ s.unacked = <<>>
           /\ Transmitted(s) = 0 /\ Acknowledged(s) = 0
<1>1. /\ s.sendQueue \in Seq(Fragment) /\ s.unacked \in Seq(Unacked)
      /\ Len(s.sendQueue) \in Nat /\ Len(s.unacked) \in Nat
  BY Fields
<1>2. Len(s.sent) = 0  OBVIOUS
<1>3. Len(s.sendQueue) + Len(s.unacked) <= 0  BY <1>2 DEF Numbered
<1>4. \A a, b \in Nat : a + b <= 0 => a = 0 /\ b = 0  OBVIOUS
<1>5. Len(s.sendQueue) = 0 /\ Len(s.unacked) = 0  BY <1>1, <1>3, <1>4, Zenon
<1> QED  BY <1>1, <1>2, <1>5 DEF Transmitted, Acknowledged

\* No Information message under way is from an end that has written nothing.
LEMMA UnwrittenIsQuiet ==
    ASSUME NEW s \in Circuit, NEW r, NEW fwd, NEW back, Direction(s, r, fwd, back), s.sent = <<>>,
           NEW k \in DOMAIN fwd
    PROVE  ~IsInfo(fwd[k])
<1>1. Transmitted(s) = 0 /\ Carried(s, r, fwd)  BY Unwritten DEF Direction
<1>2. ASSUME IsInfo(fwd[k]) PROVE FALSE
  <2>1. Position(fwd[k]) \in 1 .. 0  BY <1>1, <1>2 DEF Carried
  <2> QED  BY <2>1
<1> QED  BY <1>2

\* Of the two ends one has written nothing.
LEMMA OneIsMute ==
    ASSUME Inv, StreamInv, OneWayInv, OneWay, circuit # <<>>
    PROVE  circuit[1].sent = <<>> \/ Other.sent = <<>>
<1>1. /\ 1 \in DOMAIN circuit /\ Newest \in DOMAIN circuit /\ Cast /\ Origin # Peer
  BY StreamFacts
<1>2. CASE Newest = 1  BY <1>2 DEF Other, Unborn, NewCircuit
<1>3. CASE Newest # 1
  <2>1. circuit[Newest].node = Peer /\ Other = circuit[Newest]
    BY <1>1, <1>3 DEF Cast, MintedFrom, Peer, Other
  <2>2. Origin \notin Writers \/ Peer \notin Writers  BY <1>1 DEF OneWay
  <2> QED  BY <1>1, <2>1, <2>2 DEF OneWayInv, Origin
<1> QED  BY <1>2, <1>3

\* What the invariant says of the two ends and their queues.
LEMMA TwoEnds ==
    ASSUME Inv, StreamInv, circuit # <<>>
    PROVE  /\ circuit[1] \in Circuit /\ Other \in Circuit
           /\ net[To] \in Seq(Packet) /\ net[From] \in Seq(Packet)
           /\ Direction(circuit[1], Other, net[To], net[From])
           /\ Direction(Other, circuit[1], net[From], net[To])
<1>1. /\ Joined(circuit[1], Other, net[To], net[From])
      /\ net[To] \in Seq(Packet) /\ net[From] \in Seq(Packet)
  BY StreamFacts
<1> QED  BY <1>1, JoinedFacts DEF Pair

\* An Information message finds an end that has nothing to send.
LEMMA InfoFindsIdle ==
    ASSUME Inv, StreamInv, OneWayInv, OneWay, circuit # <<>>
    PROVE  /\ net[From] # <<>> /\ IsInfo(net[From][1]) => circuit[1].sendQueue = <<>>
           /\ net[To] # <<>> /\ IsInfo(net[To][1]) => Other.sendQueue = <<>>
<1>1. /\ circuit[1] \in Circuit /\ Other \in Circuit
      /\ net[To] \in Seq(Packet) /\ net[From] \in Seq(Packet)
      /\ Direction(circuit[1], Other, net[To], net[From])
      /\ Direction(Other, circuit[1], net[From], net[To])
  BY TwoEnds
<1>2. circuit[1].sent = <<>> => circuit[1].sendQueue = <<>>  BY <1>1, Unwritten DEF Direction
<1>3. Other.sent = <<>> => Other.sendQueue = <<>>  BY <1>1, Unwritten DEF Direction
<1>4. net[From] # <<>> => 1 \in DOMAIN net[From]  BY <1>1
<1>5. net[To] # <<>> => 1 \in DOMAIN net[To]  BY <1>1
<1>6. net[From] # <<>> /\ IsInfo(net[From][1]) => Other.sent # <<>>
  BY <1>1, <1>4, UnwrittenIsQuiet
<1>7. net[To] # <<>> /\ IsInfo(net[To][1]) => circuit[1].sent # <<>>
  BY <1>1, <1>5, UnwrittenIsQuiet
<1> QED  BY <1>2, <1>3, <1>6, <1>7, OneIsMute

\* A handler ran on circuit j, the others stay.
LEMMA UpdateComplies ==
    ASSUME Inv, NEW j \in DOMAIN circuit, NEW e \in Evolutions(circuit[j]), Update(j, e),
           Restrained(circuit[j], e), circuit[j].node \notin Writers => e.sent = circuit[j].sent
    PROVE  AllComply
<1>1. e \in Circuit /\ e.node = circuit[j].node  BY DEF Evolutions, Sound, SameIdentity
<1>2. AtRest(e).node = e.node /\ AtRest(e).peerChoked = e.peerChoked /\ AtRest(e).vs = e.vs
      /\ AtRest(e).got = e.got /\ AtRest(e).pending = e.pending /\ AtRest(e).sent = e.sent
  BY <1>1 DEF AtRest, Circuit
<1>3. Complies(circuit[j], AtRest(e))
  BY <1>1, <1>2 DEF Complies, Restrained, Counted
<1>4. circuit \in Seq(Circuit)  BY TableFacts DEF Inv
<1>5. circuit' = [circuit EXCEPT ![j] = AtRest(e)]  BY DEF Update
<1>6. DOMAIN circuit' = DOMAIN circuit
      /\ \A i \in DOMAIN circuit : circuit'[i] = IF i = j THEN AtRest(e) ELSE circuit[i]
  BY <1>4, <1>5
<1>7. \A i \in DOMAIN circuit : Complies(circuit[i], circuit[i])
  BY DEF Complies, Restrained
<1> QED  BY <1>3, <1>6, <1>7 DEF AllComply

\* So do they all where the step touches none, or adds one without data.
LEMMA OthersComply ==
    ASSUME Inv, circuit' = circuit \/ \E c : circuit' = Append(circuit, c) /\ Untouched(c)
    PROVE  AllComply
<1>1. circuit \in Seq(Circuit)  BY TableFacts DEF Inv
<1>2. \A c : /\ DOMAIN Append(circuit, c) = DOMAIN circuit \cup {Len(circuit) + 1}
             /\ Append(circuit, c)[Len(circuit) + 1] = c
             /\ \A i \in DOMAIN circuit : Append(circuit, c)[i] = circuit[i]
  BY <1>1
<1>3. /\ \A i \in DOMAIN circuit : i \in DOMAIN circuit' /\ circuit'[i] = circuit[i]
      /\ \A i \in DOMAIN circuit' \ DOMAIN circuit : Untouched(circuit'[i])
  BY <1>2
<1> QED  BY <1>3 DEF AllComply, Complies, Restrained

\* What the host opens and what a manager mints is one.
LEMMA OpenedComplies ==
    ASSUME Inv, NEW n, NEW m, OpenCircuit(n, m)
    PROVE  AllComply
<1> DEFINE c == Connect(NewCircuit(n, m, AllocateKey(n), NoPeerKey, WindowSize[n], Len(circuit) + 1, 0))
<1>1. circuit' = Append(circuit, AtRest(c))  BY Zenon DEF OpenCircuit
<1>2. Untouched(AtRest(c))
  BY DEF Connect, SendConnectRequest, Emit, NewCircuit, AtRest, Untouched
<1> HIDE DEF c
<1> QED  BY <1>1, <1>2, OthersComply

\* The circuit a manager mints for a Connect Request.
LEMMA MintedComplies ==
    ASSUME Inv, NEW n, NEW from, NEW i, NEW p, NEW disposition \in {"accept", "refuse", "defer"},
           MintInbound(n, from, i, p, disposition)
    PROVE  AllComply
<1>1. PICK k, j : circuit' = Append(circuit, AtRest(Answered(NewCircuit(n, from, k, <<from, p.key>>,
                                 WindowSize[n], j, p.inc), p, disposition)))
  BY Zenon DEF MintInbound
<1> DEFINE b == NewCircuit(n, from, k, <<from, p.key>>, WindowSize[n], j, p.inc)
<1>2. \A key, w : Untouched(AtRest(AcceptInbound(b, key, w)))
  BY DEF AcceptInbound, SendConnectAcknowledge, Emit, NewCircuit, AtRest, Untouched
<1>3. \A key : Untouched(AtRest([RefuseInbound(b, key) EXCEPT !.reason = "Refused"]))
  BY DEF RefuseInbound, SendConnectAcknowledge, Emit, NewCircuit, AtRest, Untouched
<1>4. Untouched(AtRest(b))  BY DEF NewCircuit, AtRest, Untouched
<1> HIDE DEF b
<1>5. Untouched(AtRest(Answered(b, p, disposition)))  BY <1>2, <1>3, <1>4 DEF Answered
<1> QED  BY <1>1, <1>5, OthersComply DEF b

\* A packet that is routed to circuit j.
LEMMA HandleComplies ==
    ASSUME Inv, StreamInv, OneWayInv, OneWay, circuit # <<>>, NEW n \in Node, NEW from \in Node,
           \/ from = Origin /\ n = Peer /\ <<from, n>> = To
           \/ from = Peer /\ n = Origin /\ <<from, n>> = From,
           net[<<from, n>>] # <<>>, NEW p \in Packet, p = net[<<from, n>>][1],
           NEW j \in DOMAIN circuit, circuit[j].node = n, circuit[j].reason = "None",
           NEW reaction \in Reaction, reaction # "reply", Handle(n, from, 1, p, j, reaction)
    PROVE  AllComply
<1> DEFINE e == OnPacket(circuit[j], p, reaction)
<1>1. Update(j, e)  BY DEF Handle
<1>2. circuit[j] \in Sound  BY SoundCircuit
<1>3. e \in Evolutions(circuit[j])  BY <1>2, OnPacketType
<1>4. IsInfo(p) => circuit[j].sendQueue = <<>>
  <2>1. Origin # Peer /\ Cast  BY StreamFacts
  <2>2. CASE from = Origin /\ n = Peer /\ <<from, n>> = To
    <3>1. j # 1  BY <2>1, <2>2 DEF Origin
    <3>2. Other = circuit[j]  BY <3>1, LiveEnds
    <3> QED  BY <2>2, <3>2, InfoFindsIdle
  <2>3. CASE from = Peer /\ n = Origin /\ <<from, n>> = From
    <3>1. j = 1  BY <2>1, <2>3 DEF Cast, MintedFrom, Peer
    <3> QED  BY <2>3, <3>1, InfoFindsIdle
  <2> QED  BY <2>2, <2>3
<1>5. Restrained(circuit[j], e) /\ e.sent = circuit[j].sent  BY <1>2, <1>4, OnPacketRestrained
<1> HIDE DEF e
<1> QED  BY <1>1, <1>3, <1>5, UpdateComplies

\* A packet that arrives.
LEMMA ReceiveComplies ==
    ASSUME Inv, StreamInv, OneWayInv, OneStream, OneWay,
           NEW from \in Node, NEW n \in Node, <<from, n>> \in Link, Receive(from, n)
    PROVE  AllComply
<1>1. PICK i \in Deliverable(<<from, n>>) :
          \/ \E d \in {"accept", "refuse", "defer"} : ReceiveConnectRequest(from, n, i, d)
          \/ \E r \in Reactions : ReceiveOther(from, n, i, r)
  BY DEF Receive
<1> DEFINE p == net[<<from, n>>][1]
<1>2. /\ i = 1 /\ circuit # <<>> /\ net[<<from, n>>] # <<>>
      /\ \/ from = Origin /\ n = Peer /\ <<from, n>> = To
         \/ from = Peer /\ n = Origin /\ <<from, n>> = From
      /\ p \in Packet /\ p.key \in Key /\ p.inc \in Nat
  BY <1>1, Arrival
<1>3. \A ps : Answer(n, from, 1, ps) => AllComply
  BY OthersComply DEF Answer, tables
<1>4. CASE \E d \in {"accept", "refuse", "defer"} : ReceiveConnectRequest(from, n, i, d)
  <2>1. PICK d \in {"accept", "refuse", "defer"} : ReceiveConnectRequest(from, n, i, d)
    BY <1>4
  <2> DEFINE j == byPeerKey[n][<<from, p.key>>]
  <2>2. \/ j # 0 /\ Handle(n, from, 1, p, j, "drain")
        \/ j = 0 /\ Drop(n, from, 1)
        \/ j = 0 /\ MintInbound(n, from, 1, p, d)
    BY <1>2, <2>1 DEF ReceiveConnectRequest
  <2> HIDE DEF p
  <2>3. ASSUME j # 0, Handle(n, from, 1, p, j, "drain") PROVE AllComply
    <3>1. <<from, p.key>> \in Node \X Key  BY <1>2
    <3> HIDE DEF j
    <3>2. j \in DOMAIN circuit /\ byLocalKey[n][circuit[j].localKey] = j
      BY <2>3, <3>1, PeerEntry DEF Inv, j
    <3>3. circuit[j].localKey \in Key  BY <3>2, CircuitIsSound DEF Inv
    <3>4. circuit[j].node = n /\ circuit[j].reason = "None"
      BY <2>3, <3>2, <3>3, LocalEntry DEF Inv
    <3>5. "drain" \in Reaction /\ "drain" # "reply" /\ p = net[<<from, n>>][1]
      BY DEF Reaction, p
    <3> QED  BY <1>2, <2>3, <3>2, <3>4, <3>5, HandleComplies
  <2>4. ASSUME Drop(n, from, 1) PROVE AllComply  BY <1>3, <2>4 DEF Drop
  <2>5. ASSUME MintInbound(n, from, 1, p, d) PROVE AllComply  BY <2>5, MintedComplies
  <2> QED  BY <2>2, <2>3, <2>4, <2>5
<1>5. CASE \E r \in Reactions : ReceiveOther(from, n, i, r)
  <2>1. PICK r \in Reactions : ReceiveOther(from, n, i, r)  BY <1>5
  <2> DEFINE j == byLocalKey[n][p.key]
  <2>2. r \in Reaction /\ r # "reply"  BY NetworkAssumption DEF Reaction, OneWay
  <2>3. \/ j # 0 /\ Handle(n, from, 1, p, j, r)
        \/ j = 0 /\ Reflect(n, from, 1, p)
    BY <1>2, <2>1 DEF ReceiveOther
  <2>4. ASSUME j # 0, Handle(n, from, 1, p, j, r) PROVE AllComply
    <3> HIDE DEF j, p
    <3>1. j \in DOMAIN circuit /\ circuit[j].node = n /\ circuit[j].reason = "None"
      BY <1>2, <2>4, LocalEntry DEF Inv, j
    <3>2. p = net[<<from, n>>][1]  BY DEF p
    <3> QED  BY <1>2, <2>2, <2>4, <3>1, <3>2, HandleComplies
  <2> QED  BY <1>3, <2>3, <2>4 DEF Reflect
<1> QED  BY <1>1, <1>4, <1>5

\* Every step of the applications and the timers.
LEMMA CallComplies ==
    ASSUME Inv, OneWay, NEW i \in DOMAIN circuit, AppStep(i) \/ TickCircuit(i)
    PROVE  AllComply
<1>1. circuit[i] \in Sound /\ circuit[i] \in Circuit  BY SoundCircuit DEF Sound
<1>2. ASSUME NEW size \in FrameSizes, AppSend(i, size) PROVE AllComply
  <2> DEFINE e == Send(circuit[i], size)
  <2>1. Update(i, e) /\ circuit[i].node \in Writers  BY <1>2 DEF AppSend, LocalStep
  <2>2. size \in Nat  BY NetworkAssumption
  <2>3. e \in Evolutions(circuit[i])  BY <1>1, <2>2, SendType, Transitivity
  <2>4. Held(circuit[i], e) /\ e.got = circuit[i].got /\ e.pending = circuit[i].pending
    BY <1>1, <2>2, SendHeld
  <2> HIDE DEF e
  <2> QED  BY <2>1, <2>3, <2>4, UpdateComplies DEF Held, Restrained, Counted
<1>3. ASSUME AppDisconnect(i) PROVE AllComply
  <2> DEFINE e == Disconnect(circuit[i])
  <2>1. Update(i, e)  BY <1>3 DEF AppDisconnect, LocalStep
  <2>2. e \in Evolutions(circuit[i])  BY <1>1, DisconnectType
  <2>3. /\ Held(circuit[i], e) /\ e.got = circuit[i].got /\ e.pending = circuit[i].pending
        /\ e.sent = circuit[i].sent
    BY <1>1, DisconnectKeeps
  <2> HIDE DEF e
  <2> QED  BY <2>1, <2>2, <2>3, UpdateComplies DEF Held, Restrained, Counted
<1>4. ASSUME AppDrain(i) PROVE AllComply
  <2> DEFINE e == OnDeliveryDrained(circuit[i])
  <2>1. Update(i, e)  BY <1>4 DEF AppDrain, LocalStep
  <2>2. e \in Evolutions(circuit[i])  BY <1>1, OnDeliveryDrainedType, Transitivity
  <2>3. /\ Held(circuit[i], e) /\ e.got = circuit[i].got /\ e.sent = circuit[i].sent
        /\ e.pending = (IF circuit[i].pending > 0 THEN circuit[i].pending - 1 ELSE 0)
    BY <1>1, DrainedKeeps
  <2> HIDE DEF e
  <2>4. Restrained(circuit[i], e)  BY <2>3 DEF Held, Restrained, Counted
  <2> QED  BY <2>1, <2>2, <2>3, <2>4, UpdateComplies
<1>5. ASSUME AcceptIncoming(i) PROVE AllComply
  <2> DEFINE w == Clamp(WindowSize[circuit[i].remoteNode], 1, MaxWindow)
             k == circuit[i].peerKey[2]
             e == AcceptInbound(circuit[i], k, w)
  <2>1. Deferred(i) /\ Update(i, e)  BY <1>5 DEF AcceptIncoming, LocalStep
  <2>2. /\ circuit[i].state = "Disconnected" /\ circuit[i].reason = "None"
        /\ k \in Key /\ circuit[i].remoteNode \in Node
    BY <2>1, DeferredFacts
  <2>3. w \in Nat
    <3>1. WindowSize[circuit[i].remoteNode] \in Nat  BY <2>2, NetworkAssumption
    <3> QED  BY <3>1, HorizonFacts DEF Clamp
  <2> HIDE DEF w, k
  <2>4. e \in Evolutions(circuit[i])  BY <1>1, <2>2, <2>3, AcceptInboundType
  <2>5. /\ Held(circuit[i], e) /\ e.got = circuit[i].got /\ e.pending = circuit[i].pending
        /\ e.sent = circuit[i].sent
    BY <1>1 DEF AcceptInbound, SendConnectAcknowledge, Emit, Held, Circuit
  <2> HIDE DEF e
  <2> QED  BY <2>1, <2>4, <2>5, UpdateComplies DEF Held, Restrained, Counted
<1>6. ASSUME RefuseIncoming(i) PROVE AllComply
  <2> DEFINE k == circuit[i].peerKey[2]
             e == [RefuseInbound(circuit[i], k) EXCEPT !.reason = "Refused"]
  <2>1. Deferred(i) /\ Update(i, e)  BY <1>6 DEF RefuseIncoming, LocalStep
  <2>2. circuit[i].state = "Disconnected" /\ k \in Key  BY <2>1, DeferredFacts
  <2> HIDE DEF k
  <2>3. e \in Evolutions(circuit[i])  BY <1>1, <2>2, RefuseInboundType
  <2>4. /\ Held(circuit[i], e) /\ e.got = circuit[i].got /\ e.pending = circuit[i].pending
        /\ e.sent = circuit[i].sent
    BY <1>1 DEF RefuseInbound, SendConnectAcknowledge, Emit, Held, Circuit
  <2> HIDE DEF e
  <2> QED  BY <2>1, <2>3, <2>4, UpdateComplies DEF Held, Restrained, Counted
<1>7. ASSUME TickCircuit(i) PROVE AllComply
  <2> DEFINE e == Tick(circuit[i])
  <2>1. TimerRunning(circuit[i]) /\ Update(i, e)  BY <1>7 DEF TickCircuit, LocalStep
  <2>2. e \in Evolutions(circuit[i])  BY <1>1, <2>1, TickType
  <2>3. /\ Held(circuit[i], e) /\ e.got = circuit[i].got /\ e.pending = circuit[i].pending
        /\ e.sent = circuit[i].sent
    BY <1>1, TickHeld
  <2> HIDE DEF e
  <2> QED  BY <2>1, <2>2, <2>3, UpdateComplies DEF Held, Restrained, Counted
<1> QED  BY <1>2, <1>3, <1>4, <1>5, <1>6, <1>7 DEF AppStep

\* Every step.
LEMMA NextComplies ==
    ASSUME Inv, StreamInv, OneWayInv, OneStream, OneWay, [Next]_vars
    PROVE  AllComply
<1>1. ASSUME NEW l \in Link, OpenCircuit(l[1], l[2]) PROVE AllComply  BY <1>1, OpenedComplies
<1>2. ASSUME NEW l \in Link, Receive(l[1], l[2]) PROVE AllComply
  <2>1. l[1] \in Node /\ l[2] \in Node /\ <<l[1], l[2]>> \in Link  BY DEF Link
  <2> QED  BY <1>2, <2>1, ReceiveComplies
<1>3. ASSUME NEW l \in Link, Lose(l) PROVE AllComply  BY <1>3, OthersComply DEF Lose, tables
<1>4. CASE UNCHANGED vars  BY <1>4, OthersComply DEF vars
<1> QED  BY <1>1, <1>2, <1>3, <1>4, CallComplies DEF Next

\* The invariant of one-way data.
LEMMA NextOneWay ==
    ASSUME Inv, StreamInv, OneWayInv, OneStream, OneWay, [Next]_vars
    PROVE  OneWayInv'
<1>1. AllComply  BY NextComplies
<1>2. ASSUME NEW i \in DOMAIN circuit'
      PROVE  /\ circuit'[i].node \notin Writers => circuit'[i].sent = <<>>
             /\ Counted(circuit'[i])
  <2>1. CASE i \in DOMAIN circuit
    BY <1>1, <2>1 DEF AllComply, Complies, Restrained, OneWayInv
  <2>2. CASE i \notin DOMAIN circuit
    BY <1>1, <1>2, <2>2 DEF AllComply, Untouched, Counted
  <2> QED  BY <2>1, <2>2
<1> QED  BY <1>2 DEF OneWayInv, Counted

\* With data one way the ends stay joined, and the other end stays mute.
THEOREM OneWayInvariance ==
    ASSUME OneStream, OneWay PROVE Spec => [](Inv /\ StreamInv /\ OneWayInv)
<1>1. Init => Inv /\ StreamInv /\ OneWayInv
  <2>1. Init => OneWayInv  BY DEF Init, OneWayInv
  <2> QED  BY <2>1, InitInv, InitStream
<1>2. Inv /\ StreamInv /\ OneWayInv /\ [Next]_vars => (Inv /\ StreamInv /\ OneWayInv)'
  BY NextInv, NextStream, NextOneWay
<1> QED  BY <1>1, <1>2, PTL DEF Spec

\* An end that a step leaves choked has numbered nothing new in it, while data
\* flows one way: what the peer's choke flag on an Information message would
\* come too late for is never queued (onInformation absorbs first).
THEOREM ChokeHonoured == ASSUME OneStream, OneWay PROVE Spec => HonoursChoke
<1>1. ASSUME Inv, StreamInv, OneWayInv, [Next]_vars
      PROVE  \A i \in DOMAIN circuit : circuit'[i].peerChoked => circuit'[i].vs = circuit[i].vs
  <2>1. AllComply  BY <1>1, NextComplies
  <2> QED  BY <2>1 DEF AllComply, Complies, Restrained
<1>2. [][Next]_vars /\ [](Inv /\ StreamInv /\ OneWayInv) =>
         [][\A i \in DOMAIN circuit : circuit'[i].peerChoked => circuit'[i].vs = circuit[i].vs]_vars
  BY <1>1, PTL
<1> QED  BY <1>2, OneWayInvariance, PTL DEF Spec, HonoursChoke

-----------------------------------------------------------------------------
(* Flow control: how far a stalled reader lets the writer come *)

Live(c) == c.state # "Disconnected"

\* How far the writer may be acknowledged without having been choked: behind
\* what the reader accepted by as many frames as it has pending beyond the
\* threshold, and one.
Floor(r) == IF r.pending < ChokeThreshold THEN Accepted(r)
            ELSE Accepted(r) + (ChokeThreshold - 1 - r.pending)

\* The writer is no more than a window beyond that; past it, it is choked, and
\* so says every acknowledgement under way that brings it there.
Ahead(s, r, back) ==
    /\ Transmitted(s) <= Floor(r) + s.window
    /\ Acknowledged(s) > Floor(r) => s.peerChoked
    /\ \A k \in DOMAIN back : IsAck(back[k]) /\ ~back[k].choke =>
          Acknowledged(s) + Covers(s, back[k]) <= Floor(r)

\* One direction: s writes, r reads.
Paced(s, r, fwd, back) ==
    /\ r.pending < ChokeThreshold + r.window
    /\ Live(r) =>
          /\ r.pending >= ChokeThreshold => r.localChoked
          /\ s.sent # <<>> => s.window <= r.window
          /\ \A k \in DOMAIN fwd : IsInfo(fwd[k]) => Position(fwd[k]) <= Floor(r) + s.window
          /\ s.reason = "None" => Ahead(s, r, back)

\* Whichever end writes, the other reads.
BothPaced(c, d, to, from) ==
    /\ d.sent = <<>> => Paced(c, d, to, from)
    /\ c.sent = <<>> => Paced(d, c, from, to)

\* What the invariants before say of an end and the one it talks to.
Meets(c, d) ==
    /\ c.state = "Connecting" => Virgin(c)
    /\ Open(c) /\ Live(d) => c.window <= d.window
    /\ c.state = "Disconnected" /\ c.reason = "None" /\ c.mintedFor # 0 => Virgin(d)

Facing(c, d, to, from) ==
    /\ c \in Sound /\ d \in Sound /\ c.out = <<>> /\ d.out = <<>>
    /\ to \in Seq(Packet) /\ from \in Seq(Packet) /\ Pair(c, d, to, from)
    /\ Counted(c) /\ Counted(d) /\ (c.sent = <<>> \/ d.sent = <<>>)
    /\ Meets(c, d) /\ Meets(d, c)

\* The roles are interchangeable.
LEMMA FacingTurned ==
    ASSUME NEW c, NEW d, NEW to, NEW from
    PROVE  /\ Facing(c, d, to, from) => Facing(d, c, from, to)
           /\ BothPaced(c, d, to, from) => BothPaced(d, c, from, to)
BY DEF Facing, BothPaced, Pair

\* The numbers compared are numbers.
LEMMA PaceTypes ==
    ASSUME NEW c, NEW d, NEW to, NEW from, Facing(c, d, to, from)
    PROVE  /\ c \in Circuit /\ EndIsSound(c) /\ c.pending \in Nat /\ c.window \in Nat
           /\ Accepted(c) \in Nat /\ Floor(c) \in Int
           /\ Transmitted(c) \in Nat /\ Acknowledged(c) \in Nat
           /\ Transmitted(c) = Acknowledged(c) + Len(c.unacked) /\ Len(c.unacked) \in Nat
           /\ Direction(c, d, to, from) /\ Direction(d, c, from, to)
<1>1. c \in Circuit /\ d \in Circuit /\ EndIsSound(c) /\ Direction(c, d, to, from) /\ Direction(d, c, from, to)
  BY DEF Facing, Pair, Sound
<1>2. c.pending \in Nat /\ c.window \in Nat /\ Len(c.unacked) \in Nat  BY <1>1 DEF Circuit
<1>3. Accepted(c) \in Nat  BY <1>1, AcceptedIs DEF Direction
<1>4. /\ Transmitted(c) \in Nat /\ Acknowledged(c) \in Nat
      /\ Transmitted(c) = Acknowledged(c) + Len(c.unacked)
  BY <1>1, Positions DEF Direction
<1>5. Floor(c) \in Int  BY <1>2, <1>3, OptionsAssumption DEF Floor
<1> QED  BY <1>1, <1>2, <1>3, <1>4, <1>5

\* A writer that has written nothing keeps any pace.
LEMMA UnwrittenIsPaced ==
    ASSUME ChokeThreshold > 0, NEW s \in Circuit, NEW r \in Circuit, NEW fwd, NEW back \in Seq(Packet),
           Direction(s, r, fwd, back), s.sent = <<>>, Counted(r), EndIsSound(r)
    PROVE  Paced(s, r, fwd, back)
<1>1. Transmitted(s) = 0 /\ Acknowledged(s) = 0 /\ s.unacked = <<>>  BY Unwritten DEF Direction
<1>2. Accepted(r) = 0 /\ r.pending = 0  BY NothingSent DEF Direction, Counted
<1>3. Floor(r) = 0  BY <1>2 DEF Floor
<1>4. r.window \in Nat /\ s.window \in Nat /\ ChokeThreshold \in Nat
  BY OptionsAssumption DEF Circuit
<1>5. \A k \in DOMAIN fwd : ~IsInfo(fwd[k])  BY UnwrittenIsQuiet
<1>6. ASSUME s.reason = "None", NEW k \in DOMAIN back, IsAck(back[k])
      PROVE  Covers(s, back[k]) = 0
  <2>1. back[k] \in Packet  OBVIOUS
  <2>2. Covers(s, back[k]) \in Nat /\ Covers(s, back[k]) <= 0
    BY <1>1, <1>6, <2>1, CoversRange DEF Direction, Returned
  <2> QED  BY <2>2
<1>7. r.pending < ChokeThreshold + r.window  BY <1>2, <1>4
<1>8. 0 <= 0 + s.window /\ 0 + 0 <= 0 /\ ~(0 > 0) /\ ~(0 >= ChokeThreshold)  BY <1>4
<1>9. s.reason = "None" => Ahead(s, r, back)  BY <1>1, <1>3, <1>6, <1>8 DEF Ahead
<1> QED  BY <1>2, <1>5, <1>7, <1>8, <1>9 DEF Paced

-----------------------------------------------------------------------------
(* Flow control: the writer's step *)

\* A handler that absorbs no acknowledgement, and one that absorbs p.
Steady(c, e) ==
    /\ e.va = c.va /\ Acknowledged(e) = Acknowledged(c) /\ e.window = c.window
    /\ e.peerChoked = c.peerChoked /\ (c.peerChoked => Transmitted(e) = Transmitted(c))

Absorbs(c, p, e) ==
    /\ IsAck(p) /\ e.va = p.rx /\ Acknowledged(e) = Acknowledged(c) + Covers(c, p)
    /\ e.window = c.window
    /\ e.peerChoked = p.choke /\ (p.choke => Transmitted(e) = Transmitted(c))

\* What a handler of the writer leaves, whose oldest packet may be in[1].
Writes(c, in, e) ==
    /\ e.window = c.window
    /\ e.sent = c.sent \/ Open(e)
    /\ e.reason # "None" => \A k \in DOMAIN e.out : ~IsInfo(e.out[k])
    /\ e.reason = "None" =>
          c.reason = "None" /\ (Steady(c, e) \/ (in # <<>> /\ Absorbs(c, in[1], e)))

\* What is left of a queue was in it.
LEMMA LeftIn ==
    ASSUME NEW a \in Seq(Packet), NEW b \in Seq(Packet), NEW t \in Seq(Packet), NEW k \in DOMAIN t
    PROVE  /\ LeftOf(t, a \o b) => \/ \E j \in DOMAIN a : t[k] = a[j]
                                   \/ \E j \in DOMAIN b : t[k] = b[j]
           /\ LeftOf(t, a) => \E j \in DOMAIN a : t[k] = a[j]
<1>1. t[k] \in PacketsIn(t)  BY DEF PacketsIn
<1>2. LeftOf(t, a) => t[k] \in PacketsIn(a)  BY <1>1, PacketsInFacts
<1>3. LeftOf(t, a \o b) => t[k] \in PacketsIn(a) \cup PacketsIn(b)  BY <1>1, PacketsInFacts
<1> QED  BY <1>2, <1>3 DEF PacketsIn

\* What the others cover once the oldest acknowledgement is absorbed.
LEMMA CoversRest ==
    ASSUME NEW c \in Circuit, NEW d, NEW from \in Seq(Packet), Returned(c, d, from), c.reason = "None",
           NEW k \in DOMAIN from, IsAck(from[1]), IsAck(from[k]), NEW e, e.va = from[1].rx
    PROVE  /\ Covers(c, from[1]) \in Nat /\ Covers(c, from[k]) \in Nat
           /\ Covers(e, from[k]) = Covers(c, from[k]) - Covers(c, from[1])
<1> DEFINE g == Covers(c, from[k])
           h == Covers(c, from[1])
<1>1. 1 \in DOMAIN from /\ from[1] \in Packet /\ from[k] \in Packet /\ (k = 1 \/ 1 < k)  OBVIOUS
<1>2. g \in Nat /\ h \in Nat  BY <1>1, CoversRange
<1>3. h <= g
  <2>1. CASE k = 1  BY <1>2, <2>1
  <2>2. CASE 1 < k  BY <1>1, <2>2 DEF Returned
  <2> QED  BY <1>1, <2>1, <2>2
<1>4. from[k].rx \in Int /\ from[1].rx \in Int /\ c.va \in Int
  <2>1. from[k].rx \in Seqno /\ from[1].rx \in Seqno /\ c.va \in Seqno
    BY <1>1, PacketFields, Fields
  <2> QED  BY <2>1, ModulusAssumption DEF Seqno
<1>5. g = (from[k].rx - c.va) % Modulus /\ h = (from[1].rx - c.va) % Modulus  BY DEF Covers
<1> HIDE DEF g, h
<1>6. (from[k].rx - from[1].rx) % Modulus = g - h  BY <1>3, <1>4, <1>5, Distances
<1>7. Covers(e, from[k]) = g - h  BY <1>6 DEF Covers
<1> QED  BY <1>2, <1>7 DEF g, h

\* Between handlers what the pace is measured by stays.
LEMMA RestPace ==
    ASSUME NEW e \in Circuit
    PROVE  LET z == AtRest(e)
           IN  /\ z.va = e.va /\ z.window = e.window /\ z.sent = e.sent /\ z.reason = e.reason
               /\ z.state = e.state /\ z.peerChoked = e.peerChoked /\ z.unacked = e.unacked
               /\ z.pending = e.pending /\ z.localChoked = e.localChoked /\ z.got = e.got
               /\ Transmitted(z) = Transmitted(e) /\ Acknowledged(z) = Acknowledged(e)
               /\ Accepted(z) = Accepted(e) /\ Floor(z) = Floor(e)
               /\ \A p : Covers(z, p) = Covers(e, p)
<1> DEFINE z == AtRest(e)
<1>1. /\ z.va = e.va /\ z.window = e.window /\ z.sent = e.sent /\ z.reason = e.reason
      /\ z.state = e.state /\ z.peerChoked = e.peerChoked /\ z.unacked = e.unacked
      /\ z.pending = e.pending /\ z.localChoked = e.localChoked /\ z.got = e.got
      /\ z.sendQueue = e.sendQueue /\ z.reassembly = e.reassembly
  BY DEF AtRest, Circuit
<1> HIDE DEF z
<1>2. Transmitted(z) = Transmitted(e) /\ Acknowledged(z) = Acknowledged(e) /\ Accepted(z) = Accepted(e)
  BY <1>1 DEF Transmitted, Acknowledged, Accepted
<1>3. \A p : Covers(z, p) = Covers(e, p)  BY <1>1 DEF Covers
<1>4. Floor(z) = Floor(e)  BY <1>1, <1>2 DEF Floor
<1> QED  BY <1>1, <1>2, <1>3, <1>4 DEF z

\* The writer stays ahead by no more, whatever it absorbs and sends.
LEMMA WriterAhead ==
    ASSUME NEW x, NEW y, NEW xy, NEW yx, Facing(x, y, xy, yx), Ahead(x, y, yx), x.reason = "None",
           NEW z, Steady(x, z) \/ (yx # <<>> /\ Absorbs(x, yx[1], z)),
           NEW p, NEW q \in Seq(Packet), LeftOf(q, yx), Facing(z, y, p, q)
    PROVE  Ahead(z, y, q)
<1> DEFINE F == Floor(y)
           K == Acknowledged(x)
           L == Acknowledged(z)
<1>1. /\ x \in Circuit /\ K \in Nat /\ Transmitted(x) \in Nat /\ x.window \in Nat /\ F \in Int
      /\ yx \in Seq(Packet) /\ Returned(x, y, yx)
  BY PaceTypes, FacingTurned DEF Facing, Direction
<1>2. /\ L \in Nat /\ Transmitted(z) = L + Len(z.unacked) /\ Len(z.unacked) \in Nat
      /\ (z.unacked = <<>> \/ Len(z.unacked) <= z.window) /\ z.window \in Nat
  BY PaceTypes DEF EndIsSound
<1>3. /\ Transmitted(x) <= F + x.window
      /\ K > F => x.peerChoked
      /\ \A k \in DOMAIN yx : IsAck(yx[k]) /\ ~yx[k].choke => K + Covers(x, yx[k]) <= F
  BY DEF Ahead
<1>4. z.window = x.window  BY DEF Steady, Absorbs
<1>5. yx # <<>> => 1 \in DOMAIN yx  BY <1>1
<1> HIDE DEF F, K, L
<1>6. L > F => z.peerChoked
  <2>1. CASE Steady(x, z)  BY <1>3, <2>1 DEF Steady, K, L
  <2>2. CASE yx # <<>> /\ Absorbs(x, yx[1], z)
    <3>1. IsAck(yx[1]) /\ L = K + Covers(x, yx[1]) /\ z.peerChoked = yx[1].choke
      BY <2>2 DEF Absorbs, K, L
    <3>2. ~yx[1].choke => L <= F  BY <1>3, <1>5, <2>2, <3>1
    <3> QED  BY <1>1, <1>2, <3>1, <3>2
  <2> QED  BY <2>1, <2>2
<1>7. z.peerChoked => Transmitted(z) = Transmitted(x)
  BY DEF Steady, Absorbs
<1>8. Transmitted(z) <= F + z.window
  <2>1. CASE z.peerChoked  BY <1>3, <1>4, <1>7, <2>1
  <2>2. CASE ~z.peerChoked
    <3>1. L <= F  BY <1>1, <1>2, <1>6, <2>2
    <3>2. Len(z.unacked) <= z.window  BY <1>2
    <3>3. \A a, b, w \in Nat : a <= F /\ b <= w => a + b <= F + w  BY <1>1
    <3> QED  BY <1>2, <3>1, <3>2, <3>3
  <2> QED  BY <2>1, <2>2
<1>9. ASSUME NEW k \in DOMAIN q, IsAck(q[k]), ~q[k].choke
      PROVE  L + Covers(z, q[k]) <= F
  <2>1. PICK j \in DOMAIN yx : q[k] = yx[j]  BY <1>1, LeftIn
  <2>2. K + Covers(x, q[k]) <= F  BY <1>3, <1>9, <2>1
  <2>3. CASE Steady(x, z)
    <3>1. L = K /\ Covers(z, q[k]) = Covers(x, q[k])  BY <2>3 DEF Steady, Covers, K, L
    <3> QED  BY <2>2, <3>1
  <2>4. CASE yx # <<>> /\ Absorbs(x, yx[1], z)
    <3>1. IsAck(yx[1]) /\ L = K + Covers(x, yx[1]) /\ z.va = yx[1].rx  BY <2>4 DEF Absorbs, K, L
    <3>2. /\ Covers(x, yx[1]) \in Nat /\ Covers(x, yx[j]) \in Nat
          /\ Covers(z, yx[j]) = Covers(x, yx[j]) - Covers(x, yx[1])
      BY <1>1, <1>9, <2>1, <3>1, CoversRest
    <3>3. \A g, h \in Nat : K + g <= F => (K + h) + (g - h) <= F  BY <1>1
    <3> QED  BY <2>1, <2>2, <3>1, <3>2, <3>3
  <2> QED  BY <2>3, <2>4
<1> QED  BY <1>6, <1>8, <1>9 DEF Ahead, F, L

\* A handler of the writer keeps the pace.
LEMMA WriterKeepsPace ==
    ASSUME NEW x, NEW y, NEW xy, NEW yx, Facing(x, y, xy, yx), Paced(x, y, xy, yx), Live(y),
           NEW e \in Sound, Writes(x, yx, e), NEW z, z = AtRest(e), z.sent # <<>>,
           NEW p \in Seq(Packet), LeftOf(p, xy \o e.out), NEW q \in Seq(Packet), LeftOf(q, yx),
           Facing(z, y, p, q)
    PROVE  Paced(z, y, p, q)
<1>1. e \in Circuit /\ e.out \in Seq(Packet) /\ xy \in Seq(Packet)  BY DEF Sound, Circuit, Facing
<1>2. /\ z.window = e.window /\ z.sent = e.sent /\ z.reason = e.reason /\ z.state = e.state
      /\ z.va = e.va /\ z.peerChoked = e.peerChoked
      /\ Transmitted(z) = Transmitted(e) /\ Acknowledged(z) = Acknowledged(e)
  BY <1>1, RestPace
<1>3. /\ y.pending < ChokeThreshold + y.window
      /\ y.pending >= ChokeThreshold => y.localChoked
      /\ x.sent # <<>> => x.window <= y.window
      /\ \A k \in DOMAIN xy : IsInfo(xy[k]) => Position(xy[k]) <= Floor(y) + x.window
      /\ x.reason = "None" => Ahead(x, y, yx)
  BY DEF Paced
<1>4. z.window = x.window /\ (z.sent = x.sent \/ Open(z))  BY <1>2 DEF Writes, Open
<1>5. z.window <= y.window
  <2>1. CASE z.sent = x.sent  BY <1>3, <1>4, <2>1
  <2>2. CASE Open(z)  BY <2>2 DEF Facing, Meets
  <2> QED  BY <1>4, <2>1, <2>2
<1>6. CASE z.reason = "None"
  <2>1. x.reason = "None" /\ (Steady(x, z) \/ (yx # <<>> /\ Absorbs(x, yx[1], z)))
    BY <1>2, <1>6 DEF Writes, Steady, Absorbs
  <2>2. Ahead(z, y, q)  BY <1>3, <2>1, WriterAhead
  <2>3. /\ Transmitted(z) \in Nat /\ z.window \in Nat /\ Floor(y) \in Int /\ Carried(z, y, p)
    BY SMTT(60), PaceTypes, FacingTurned DEF Direction
  <2>4. ASSUME NEW k \in DOMAIN p, IsInfo(p[k]) PROVE Position(p[k]) <= Floor(y) + z.window
    <3>1. Position(p[k]) \in 1 .. Transmitted(z)  BY <2>3, <2>4 DEF Carried
    <3>2. Transmitted(z) <= Floor(y) + z.window  BY <2>2 DEF Ahead
    <3> QED  BY <2>3, <3>1, <3>2
  <2> QED  BY <1>3, <1>5, <2>2, <2>4 DEF Paced
<1>7. CASE z.reason # "None"
  <2>1. ASSUME NEW k \in DOMAIN p, IsInfo(p[k]) PROVE Position(p[k]) <= Floor(y) + z.window
    <3>1. \A j \in DOMAIN e.out : ~IsInfo(e.out[j])  BY <1>2, <1>7 DEF Writes
    <3>2. PICK j \in DOMAIN xy : p[k] = xy[j]  BY <1>1, <2>1, <3>1, LeftIn
    <3> QED  BY <1>3, <1>4, <2>1, <3>2
  <2> QED  BY <1>3, <1>5, <1>7, <2>1 DEF Paced
<1> QED  BY <1>6, <1>7

-----------------------------------------------------------------------------
(* Flow control: the reader's step *)

\* While it has too many frames pending, e is choked and says so.
Guards(e) ==
    e.pending >= ChokeThreshold =>
        e.localChoked /\ \A k \in DOMAIN e.out : IsAck(e.out[k]) => e.out[k].choke

\* A handler that takes no message, and one that takes p.
Lightens(c, e) ==
    /\ e.pending <= c.pending
    /\ Live(e) => Live(c) /\ Accepted(e) = Accepted(c)

Takes(c, p, e) ==
    /\ c.state = "Connected" /\ IsInfo(p) /\ p.tx = c.vr
    /\ Accepted(e) = Position(p) /\ e.pending <= c.pending + 1

\* What a handler of the reader leaves, whose oldest packet may be in[1].
Reads(c, in, e) ==
    /\ Live(e) => Guards(e)
    /\ Lightens(c, e) \/ (in # <<>> /\ Takes(c, in[1], e))
    /\ \/ e.window = c.window
       \/ /\ in # <<>> /\ c.state = "Connecting" /\ IsAccept(in[1])
          /\ e.window = Lesser(c.window, in[1].win)

\* The bound never recedes while the reader lives.
LEMMA FloorRises ==
    \A a, m, n \in Nat :
       LET f == IF m < ChokeThreshold THEN a ELSE a + (ChokeThreshold - 1 - m)
       IN  /\ n <= m => f <= (IF n < ChokeThreshold THEN a ELSE a + (ChokeThreshold - 1 - n))
           /\ n <= m + 1 => f <= (IF n < ChokeThreshold THEN a + 1
                                  ELSE (a + 1) + (ChokeThreshold - 1 - n))
<1>1. ChokeThreshold \in Nat  BY OptionsAssumption
<1> QED  BY <1>1

\* A handler of the reader keeps the pace.
LEMMA ReaderKeepsPace ==
    ASSUME ChokeThreshold > 0,
           NEW x, NEW y, NEW xy, NEW yx, Facing(x, y, xy, yx), Paced(y, x, yx, xy), y.sent # <<>>,
           NEW e \in Sound, Reads(x, yx, e), NEW z, z = AtRest(e),
           NEW p \in Seq(Packet), LeftOf(p, xy \o e.out), NEW q \in Seq(Packet), LeftOf(q, yx),
           Facing(z, y, p, q)
    PROVE  Paced(y, z, q, p)
<1>1. /\ e \in Circuit /\ e.out \in Seq(Packet) /\ xy \in Seq(Packet) /\ yx \in Seq(Packet)
      /\ ChokeThreshold \in Nat
  BY OptionsAssumption DEF Sound, Circuit, Facing
<1>2. /\ z.window = e.window /\ z.pending = e.pending /\ z.localChoked = e.localChoked
      /\ z.state = e.state /\ Accepted(z) = Accepted(e)
  BY <1>1, RestPace
<1>3. Facing(y, x, yx, xy) /\ Facing(y, z, q, p)  BY FacingTurned
<1>4. /\ x \in Circuit /\ EndIsSound(x) /\ x.pending \in Nat /\ x.window \in Nat
      /\ Accepted(x) \in Nat /\ Floor(x) \in Int /\ Direction(y, x, yx, xy)
  BY PaceTypes
<1>5. /\ EndIsSound(z) /\ z.pending \in Nat /\ z.window \in Nat /\ Accepted(z) \in Nat
      /\ Floor(z) \in Int /\ Direction(y, z, q, p)
  BY PaceTypes
<1>6. /\ y \in Circuit /\ y.window \in Nat /\ Transmitted(y) \in Nat /\ Acknowledged(y) \in Nat
  BY <1>3, PaceTypes
<1>7. /\ x.pending < ChokeThreshold + x.window
      /\ Live(x) =>
            /\ y.window <= x.window
            /\ \A k \in DOMAIN yx : IsInfo(yx[k]) => Position(yx[k]) <= Floor(x) + y.window
            /\ y.reason = "None" => Ahead(y, x, xy)
  BY DEF Paced
<1>8. yx # <<>> => 1 \in DOMAIN yx  BY <1>1
<1> DEFINE Kept == /\ z.pending < ChokeThreshold + z.window
                   /\ Live(z) => Live(x) /\ Floor(x) <= Floor(z) /\ y.window <= z.window
\* What the reader takes is the next message.
<1>9. ASSUME yx # <<>>, Takes(x, yx[1], e) PROVE Kept
  <2>1. /\ x.state = "Connected" /\ IsInfo(yx[1]) /\ yx[1].tx = x.vr
        /\ Accepted(z) = Position(yx[1]) /\ z.pending <= x.pending + 1
    BY <1>2, <1>9 DEF Takes
  <2>2. Live(x) /\ x.reason = "None"  BY <1>4, <2>1 DEF Live, EndIsSound
  <2>3. Accepted(z) = Accepted(x) + 1
    BY <1>1, <1>4, <1>6, <1>8, <1>9, <2>1, <2>2, ExpectedIsNext DEF Direction
  <2>4. z.window = x.window  BY <1>2, <2>1 DEF Reads
  <2>5. Floor(x) <= Floor(z)  BY <1>4, <1>5, <2>1, <2>3, FloorRises DEF Floor
  <2>6. Accepted(x) + 1 <= Floor(x) + y.window  BY <1>7, <1>8, <1>9, <2>1, <2>2, <2>3
  <2>7. \A a, m, n, v, w \in Nat :
           /\ n <= m + 1 /\ w <= v
           /\ a + 1 <= (IF m < ChokeThreshold THEN a ELSE a + (ChokeThreshold - 1 - m)) + w
           => n < ChokeThreshold + v
    BY <1>1
  <2>8. z.pending < ChokeThreshold + z.window
    BY <1>4, <1>5, <1>6, <1>7, <2>1, <2>2, <2>4, <2>6, <2>7 DEF Floor
  <2>9. Live(x) /\ y.window <= z.window  BY <1>7, <2>2, <2>4
  <2> QED  BY <2>5, <2>8, <2>9
<1>10. ASSUME Lightens(x, e) PROVE Kept
  <2>1. z.pending <= x.pending /\ (Live(z) => Live(x) /\ Accepted(z) = Accepted(x))
    BY <1>2, <1>10 DEF Lightens, Live
  <2>2. Live(z) => Floor(x) <= Floor(z)
    BY <1>4, <1>5, <2>1, FloorRises DEF Floor
  <2>3. CASE z.window = x.window
    <3>1. z.pending < ChokeThreshold + z.window  BY SMTT(60), <1>1, <1>4, <1>5, <1>7, <2>1, <2>3
    <3> QED  BY <1>7, <2>1, <2>2, <2>3, <3>1
  <2>4. CASE /\ yx # <<>> /\ x.state = "Connecting" /\ IsAccept(yx[1])
             /\ z.window = Lesser(x.window, yx[1].win)
    <3>1. Live(x) /\ Virgin(x)  BY <2>4 DEF Live, Facing, Meets
    <3>2. x.pending = 0  BY <3>1 DEF Virgin, Facing, Counted
    <3>3. yx[1].win = y.window  BY <1>4, <1>8, <2>4 DEF Direction, Facing, Pair, Shaken
    <3>4. y.window <= x.window  BY <1>7, <3>1
    <3>5. z.window = y.window  BY <1>4, <1>6, <2>4, <3>3, <3>4 DEF Lesser
    <3>6. z.pending < ChokeThreshold + z.window  BY <1>1, <1>5, <2>1, <3>2
    <3> QED  BY <1>6, <2>1, <2>2, <3>5, <3>6
  <2> QED  BY <1>2, <2>3, <2>4 DEF Reads
<1>11. Kept
  BY <1>9, <1>10 DEF Reads
<1>12. SUFFICES ASSUME Live(z)
                PROVE  /\ z.pending >= ChokeThreshold => z.localChoked
                       /\ \A k \in DOMAIN q : IsInfo(q[k]) => Position(q[k]) <= Floor(z) + y.window
                       /\ y.reason = "None" => Ahead(y, z, p)
  BY <1>11 DEF Paced
<1>13. Live(e) /\ Guards(e)  BY <1>2, <1>12 DEF Live, Reads
<1>14. z.pending >= ChokeThreshold => z.localChoked  BY <1>2, <1>13 DEF Guards
<1>15. ASSUME NEW k \in DOMAIN q, IsInfo(q[k]) PROVE Position(q[k]) <= Floor(z) + y.window
  <2>1. PICK j \in DOMAIN yx : q[k] = yx[j]  BY <1>1, LeftIn
  <2>2. Position(q[k]) <= Floor(x) + y.window  BY <1>7, <1>11, <1>12, <1>15, <2>1
  <2>3. Position(q[k]) \in Int
    BY <1>5, <1>6, <1>15 DEF Direction, Carried
  <2> QED  BY <1>4, <1>5, <1>6, <1>11, <1>12, <2>2, <2>3
<1>16. ASSUME y.reason = "None" PROVE Ahead(y, z, p)
  <2>1. /\ Transmitted(y) <= Floor(x) + y.window
        /\ Acknowledged(y) > Floor(x) => y.peerChoked
        /\ \A k \in DOMAIN xy : IsAck(xy[k]) /\ ~xy[k].choke =>
              Acknowledged(y) + Covers(y, xy[k]) <= Floor(x)
    BY <1>7, <1>11, <1>12, <1>16 DEF Ahead
  <2>2. Transmitted(y) <= Floor(z) + y.window
    BY <1>4, <1>5, <1>6, <1>11, <1>12, <2>1
  <2>3. Acknowledged(y) > Floor(z) => y.peerChoked
    BY <1>4, <1>5, <1>6, <1>11, <1>12, <2>1
  <2>4. ASSUME NEW k \in DOMAIN p, IsAck(p[k]), ~p[k].choke
        PROVE  Acknowledged(y) + Covers(y, p[k]) <= Floor(z)
    <3>1. Covers(y, p[k]) \in Nat  BY <1>6, CoversRange
    <3>2. CASE \E j \in DOMAIN xy : p[k] = xy[j]
      <4>1. Acknowledged(y) + Covers(y, p[k]) <= Floor(x)  BY <2>1, <2>4, <3>2
      <4> QED  BY <1>4, <1>5, <1>6, <1>11, <1>12, <3>1, <4>1
    <3>3. CASE \E j \in DOMAIN e.out : p[k] = e.out[j]
      <4>1. z.pending < ChokeThreshold
        BY SMTT(60), <1>1, <1>2, <1>5, <1>13, <2>4, <3>3 DEF Guards
      <4>2. Floor(z) = Accepted(z)  BY <4>1 DEF Floor
      <4>3. z.reason = "None"  BY <1>5, <1>12 DEF Live, EndIsSound
      <4>4. Acknowledged(y) + Covers(y, p[k]) <= Accepted(z)
        BY <1>5, <1>16, <2>4, <4>3 DEF Direction, Returned
      <4> QED  BY <4>2, <4>4
    <3> QED  BY <1>1, <3>2, <3>3, LeftIn
  <2> QED  BY <2>2, <2>3, <2>4 DEF Ahead
<1> QED  BY <1>14, <1>15, <1>16

-----------------------------------------------------------------------------
(* Flow control: the handlers of the writer *)

\* What a handler is made of composes.
LEMMA SteadyOn ==
    ASSUME NEW c, NEW d, NEW e, NEW p
    PROVE  /\ Steady(c, c)
           /\ Steady(c, d) /\ Steady(d, e) => Steady(c, e)
           /\ Absorbs(c, p, d) /\ Steady(d, e) => Absorbs(c, p, e)
BY DEF Steady, Absorbs

\* Fields the pace does not look at.
LEMMA SameSteady ==
    ASSUME NEW c, NEW e, e.va = c.va, e.window = c.window, e.peerChoked = c.peerChoked,
           e.sent = c.sent, e.sendQueue = c.sendQueue, Len(e.unacked) = Len(c.unacked)
    PROVE  Steady(c, e)
BY DEF Steady, Acknowledged, Transmitted

\* Emission.
LEMMA EmissionSteady == ASSUME NEW c \in Circuit, NEW e \in Emissions(c) PROVE Steady(c, e)
<1>1. e = [c EXCEPT !.out = e.out]  BY DEF Emissions
<1>2. /\ e.va = c.va /\ e.window = c.window /\ e.peerChoked = c.peerChoked
      /\ e.sent = c.sent /\ e.sendQueue = c.sendQueue /\ e.unacked = c.unacked
  BY <1>1 DEF Circuit
<1> QED  BY <1>2, SameSteady

\* The pump moves data from the queue into flight.
LEMMA PumpSteady == ASSUME NEW c \in Sound PROVE Steady(c, Pump(c))
<1> DEFINE n == Lesser(Len(c.sendQueue), c.window - Len(c.unacked))
           fresh == FreshMessages(c, n)
           us == c.unacked \o fresh
           q  == SubSeq(c.sendQueue, n + 1, Len(c.sendQueue))
           vs == NextSeq(c.vs, n)
           e  == [c EXCEPT !.vs = vs, !.unacked = us, !.sendQueue = q]
           f  == Fill(c, n)
<1>1. CASE c.state # "Connected" \/ c.peerChoked \/ Len(c.unacked) >= c.window
  <2>1. Pump(c) = c  BY <1>1 DEF Pump
  <2> QED  BY <2>1, SteadyOn
<1>2. CASE ~(c.state # "Connected" \/ c.peerChoked \/ Len(c.unacked) >= c.window)
  <2>1. /\ c \in Circuit /\ Len(c.unacked) \in Nat /\ c.window \in Nat /\ Len(c.sendQueue) \in Nat
        /\ Len(c.unacked) < c.window /\ c.unacked \in Seq(Unacked) /\ c.sendQueue \in Seq(Fragment)
        /\ Len(c.sent) \in Nat
    BY <1>2, SoundFields, Fields
  <2>2. n \in Nat /\ n <= Len(c.sendQueue)  BY <2>1 DEF Lesser
  <2>3. Pump(c) = f  BY <1>2 DEF Pump
  <2>4. f = SendInformation(e, fresh)  BY DEF Fill, FreshMessages
  <2> HIDE DEF n
  <2>5. Len(q) = Len(c.sendQueue) - n  BY <2>1, <2>2, RestOf
  <2>6. Len(us) = Len(c.unacked) + n
    <3>1. \E S : c.unacked \in Seq(S) /\ fresh \in Seq(S) /\ Len(fresh) = n
      <4> DEFINE S == Unacked \cup {fresh[i] : i \in 1 .. n}
      <4>1. fresh \in [1 .. n -> S]
        <5>1. fresh = [i \in 1 .. n |-> fresh[i]]  BY DEF FreshMessages
        <5> HIDE DEF fresh
        <5> QED  BY <5>1
      <4>2. c.unacked \in Seq(S)
        <5> HIDE DEF fresh
        <5> QED  BY <2>1
      <4> HIDE DEF fresh, S
      <4>3. fresh \in Seq(S) /\ Len(fresh) = n  BY <2>2, <4>1
      <4> QED  BY <4>2, <4>3
    <3> HIDE DEF fresh
    <3> QED  BY <3>1, CatIndex
  <2> HIDE DEF fresh, us, q, vs
  <2>7. /\ e.va = c.va /\ e.window = c.window /\ e.peerChoked = c.peerChoked
        /\ e.sent = c.sent /\ e.sendQueue = q /\ e.unacked = us
    BY <2>1 DEF Circuit
  <2>8. /\ f.va = e.va /\ f.window = e.window /\ f.peerChoked = e.peerChoked
        /\ f.sent = e.sent /\ f.sendQueue = e.sendQueue /\ f.unacked = e.unacked
    <3> HIDE DEF f
    <3> QED  BY <2>1, <2>4 DEF SendInformation, Emit, Circuit
  <2> HIDE DEF e, f
  <2>9. \A s, b, u, m \in Nat : m <= b => (s - (b - m)) - (u + m) = (s - b) - u  OBVIOUS
  <2>10. Acknowledged(f) = Acknowledged(c)
    <3>1. /\ Acknowledged(f) = (Len(c.sent) - (Len(c.sendQueue) - n)) - (Len(c.unacked) + n)
          /\ Acknowledged(c) = (Len(c.sent) - Len(c.sendQueue)) - Len(c.unacked)
      BY <2>5, <2>6, <2>7, <2>8 DEF Acknowledged, Transmitted
    <3> QED  BY ONLY <2>1, <2>2, <2>9, <3>1
  <2> QED  BY <1>2, <2>3, <2>7, <2>8, <2>10 DEF Steady
<1> QED  BY <1>1, <1>2

\* Sending again.
LEMMA ResendSteady == ASSUME NEW c \in Circuit, NEW I PROVE Steady(c, Resend(c, I))
<1> DEFINE us == [i \in DOMAIN c.unacked |->
                    IF i \in I THEN Again(c.unacked[i]) ELSE c.unacked[i]]
           d == [c EXCEPT !.unacked = us]
           e == Resend(c, I)
<1>1. Len(us) = Len(c.unacked)  BY Fields
<1>2. e = SendInformation(d, Pick(c.unacked, I))  BY DEF Resend
<1> HIDE DEF us
<1>3. /\ e.va = c.va /\ e.window = c.window /\ e.peerChoked = c.peerChoked
      /\ e.sent = c.sent /\ e.sendQueue = c.sendQueue /\ e.unacked = us
  <2> HIDE DEF e
  <2> QED  BY <1>2 DEF SendInformation, Emit, Circuit
<1> HIDE DEF e
<1>4. Steady(c, e)  BY <1>1, <1>3, SameSteady
<1> QED  BY <1>4 DEF e

\* Writing adds to the queue what it adds to the stream.
LEMMA SendSteady == ASSUME NEW c \in Sound, NEW size \in Nat PROVE Steady(c, Send(c, size))
<1> DEFINE more  == [i \in 1 .. size |-> i < size]
           frame == [i \in 1 .. size |-> [body |-> <<c.inc, Len(c.sent) + i>>, more |-> more[i]]]
           d == [c EXCEPT !.sendQueue = c.sendQueue \o frame, !.sent = c.sent \o more]
<1>1. c \in Circuit  BY DEF Sound
<1>2. CASE c.state # "Connected"
  <2>1. Send(c, size) = c  BY <1>2 DEF Send
  <2> QED  BY <2>1, SteadyOn
<1>3. CASE c.state = "Connected"
  <2>1. Send(c, size) = Pump(d)  BY <1>3 DEF Send
  <2>2. /\ Len(c.sent) \in Nat /\ c.inc \in Nat /\ c.sent \in Seq(BOOLEAN)
        /\ c.sendQueue \in Seq(Fragment) /\ Len(c.sendQueue) \in Nat /\ Len(c.unacked) \in Nat
    BY <1>1, Fields
  <2>3. more \in Seq(BOOLEAN) /\ frame \in Seq(Fragment) /\ Len(more) = size /\ Len(frame) = size
    <3>1. \A i \in 1 .. size : frame[i] \in Fragment
      <4> SUFFICES ASSUME NEW i \in 1 .. size
                   PROVE  [body |-> <<c.inc, Len(c.sent) + i>>, more |-> more[i]] \in Fragment
        OBVIOUS
      <4>1. Len(c.sent) + i \in Nat /\ more[i] \in BOOLEAN  BY <2>2
      <4> QED  BY <2>2, <4>1 DEF Fragment, Body
    <3>2. frame \in [1 .. size -> Fragment]  BY <3>1
    <3>3. more \in Seq(BOOLEAN) /\ Len(more) = size  OBVIOUS
    <3> HIDE DEF frame
    <3> QED  BY <3>2, <3>3
  <2> HIDE DEF more, frame
  <2>4. /\ c.sendQueue \o frame \in Seq(Fragment) /\ c.sent \o more \in Seq(BOOLEAN)
        /\ Len(c.sendQueue \o frame) = Len(c.sendQueue) + size
        /\ Len(c.sent \o more) = Len(c.sent) + size
    <3> HIDE DEF d
    <3>1. c.sendQueue \o frame \in Seq(Fragment)  BY <2>2, <2>3, CatType
    <3>2. c.sent \o more \in Seq(BOOLEAN)  BY <2>2, <2>3, CatType
    <3>3. Len(c.sendQueue \o frame) = Len(c.sendQueue) + Len(frame)
      BY ONLY <2>2, <2>3, CatIndex
    <3>4. Len(c.sent \o more) = Len(c.sent) + Len(more)
      BY ONLY <2>2, <2>3, CatIndex
    <3> QED  BY <2>3, <3>1, <3>2, <3>3, <3>4
  <2>5. /\ d \in Circuit /\ d.va = c.va /\ d.window = c.window /\ d.peerChoked = c.peerChoked
        /\ d.unacked = c.unacked /\ d.sent = c.sent \o more /\ d.sendQueue = c.sendQueue \o frame
        /\ d.armed = c.armed /\ d.state = c.state /\ d.reason = c.reason
    BY ZenonT(60), <1>1, <2>4 DEF Circuit
  <2>6. d \in Sound
    <3> HIDE DEF d
    <3> QED  BY <1>3, <2>5 DEF Sound, EndIsSound
  <2> HIDE DEF d
  <2>7. \A a, b, m \in Nat : (a + m) - (b + m) = a - b  OBVIOUS
  <2>8. Transmitted(d) = Transmitted(c) /\ Acknowledged(d) = Acknowledged(c)
    <3>1. Transmitted(d) = (Len(c.sent) + size) - (Len(c.sendQueue) + size)
      BY <2>4, <2>5 DEF Transmitted
    <3>2. Transmitted(c) = Len(c.sent) - Len(c.sendQueue)  BY DEF Transmitted
    <3>3. Transmitted(d) = Transmitted(c)  BY ONLY <2>2, <2>7, <3>1, <3>2, size \in Nat
    <3> QED  BY <2>5, <3>3 DEF Acknowledged
  <2>9. Steady(c, d)  BY <2>5, <2>8 DEF Steady
  <2> QED  BY <2>1, <2>6, <2>9, PumpSteady, SteadyOn
<1> QED  BY <1>2, <1>3

\* A frame consumed, and hanging up on an open circuit.
LEMMA CallsSteady ==
    ASSUME NEW c \in Circuit
    PROVE  /\ Steady(c, OnDeliveryDrained(c))
           /\ c.state = "Connected" => Steady(c, Disconnect(c))
<1>1. LET e == OnDeliveryDrained(c)
      IN  /\ e.va = c.va /\ e.window = c.window /\ e.peerChoked = c.peerChoked
          /\ e.sent = c.sent /\ e.sendQueue = c.sendQueue /\ e.unacked = c.unacked
  BY DEF OnDeliveryDrained, SendInformationAcknowledge, Emit, Circuit
<1>2. c.state = "Connected" =>
      LET e == Disconnect(c)
      IN  /\ e.va = c.va /\ e.window = c.window /\ e.peerChoked = c.peerChoked
          /\ e.sent = c.sent /\ e.sendQueue = c.sendQueue /\ e.unacked = c.unacked
  BY DEF Disconnect, SendDisconnectRequest, Emit, Circuit
<1> QED  BY <1>1, <1>2, SameSteady

\* The peer's choke flag.
LEMMA ChokeApplied ==
    ASSUME NEW c \in Sound, NEW choke \in BOOLEAN
    PROVE  LET e == ApplyPeerChoke(c, choke)
           IN  /\ e.va = c.va /\ Acknowledged(e) = Acknowledged(c) /\ e.window = c.window
               /\ e.peerChoked = choke /\ (choke => Transmitted(e) = Transmitted(c))
<1>1. c \in Circuit /\ c.peerChoked \in BOOLEAN  BY DEF Sound, Circuit
<1> DEFINE d == [c EXCEPT !.peerChoked = FALSE]
           b == [c EXCEPT !.peerChoked = TRUE]
<1>2. CASE choke
  <2>1. ApplyPeerChoke(c, choke) = b  BY <1>2 DEF ApplyPeerChoke
  <2>2. /\ b.va = c.va /\ b.window = c.window /\ b.peerChoked = TRUE
        /\ b.sent = c.sent /\ b.sendQueue = c.sendQueue /\ b.unacked = c.unacked
    BY <1>1 DEF Circuit
  <2> HIDE DEF b
  <2> QED  BY <1>2, <2>1, <2>2 DEF Acknowledged, Transmitted
<1>3. CASE ~choke /\ c.peerChoked
  <2>1. ApplyPeerChoke(c, choke) = Pump(d)  BY <1>3 DEF ApplyPeerChoke
  <2>2. d \in Sound
    <3>1. d \in DataSteps(c)  BY QuietFieldType
    <3> HIDE DEF d
    <3> QED  BY <3>1, Transitivity
  <2>3. /\ d.va = c.va /\ d.window = c.window /\ d.peerChoked = FALSE
        /\ d.sent = c.sent /\ d.sendQueue = c.sendQueue /\ d.unacked = c.unacked
    BY <1>1 DEF Circuit
  <2> HIDE DEF d
  <2>4. Steady(d, Pump(d))  BY <2>2, PumpSteady
  <2>5. Acknowledged(d) = Acknowledged(c)  BY <2>3 DEF Acknowledged, Transmitted
  <2> QED  BY <1>3, <2>1, <2>3, <2>4, <2>5 DEF Steady
<1>4. CASE ~choke /\ ~c.peerChoked
  <2>1. ApplyPeerChoke(c, choke) = c  BY <1>4 DEF ApplyPeerChoke
  <2> QED  BY <1>1, <1>4, <2>1
<1> QED  BY <1>2, <1>3, <1>4

\* absorbAck.
LEMMA AbsorbSteady ==
    ASSUME NEW c \in Sound, c.state = "Connected", Numbered(c), NEW p \in Packet,
           Covers(c, p) <= Len(c.unacked)
    PROVE  LET e == AbsorbAck(c, p.rx)
           IN  /\ e.va = p.rx /\ Acknowledged(e) = Acknowledged(c) + Covers(c, p)
               /\ e.window = c.window /\ e.peerChoked = c.peerChoked
               /\ c.peerChoked => Transmitted(e) = Transmitted(c)
<1> DEFINE h == Covers(c, p)
           I == StillHeld(c, p.rx)
           us == Pick(c.unacked, I)
           e == [c EXCEPT !.va = p.rx, !.unacked = us]
<1>1. c \in Circuit /\ c.reason = "None" /\ p.rx \in Seqno
  <2>1. c \in Circuit /\ c.reason = "None"  BY DEF Sound, EndIsSound
  <2> QED  BY <2>1, PacketFields
<1>2. h \in Nat /\ h <= Len(c.unacked) /\ I = {i \in DOMAIN c.unacked : i > h}
  BY <1>1, CoversRange, HeldAre
<1>3. CASE c.unacked = <<>>
  <2> DEFINE f == [c EXCEPT !.va = p.rx]
  <2>1. h = 0  BY <1>2, <1>3
  <2>2. AbsorbAck(c, p.rx) = f  BY <1>3 DEF AbsorbAck
  <2>3. /\ f.va = p.rx /\ f.window = c.window /\ f.peerChoked = c.peerChoked
        /\ f.sent = c.sent /\ f.sendQueue = c.sendQueue /\ f.unacked = c.unacked
    BY <1>1 DEF Circuit
  <2> HIDE DEF f
  <2>4. Transmitted(f) = Transmitted(c) /\ Acknowledged(f) = Acknowledged(c)
    BY <2>3 DEF Acknowledged, Transmitted
  <2>5. Acknowledged(c) \in Nat  BY <1>1, Positions
  <2> QED  BY <2>1, <2>2, <2>3, <2>4, <2>5
<1>4. CASE c.unacked # <<>>
  <2>1. AbsorbAck(c, p.rx) = Pump(e)  BY <1>4 DEF AbsorbAck
  <2>2. c.unacked \in Seq(Unacked) /\ Len(c.unacked) <= c.window /\ c.window \in Nat
        /\ Len(c.unacked) \in Nat
    BY <1>4, SoundFields
  <2> DEFINE v == c.unacked
  <2>3. v \in Seq(Unacked) /\ h \in Nat /\ h <= Len(v) /\ I = {i \in DOMAIN v : i > h}  BY <1>2, <2>2
  <2> HIDE DEF I, h, v
  <2>4. /\ Pick(v, I) \in Seq(Unacked) /\ Len(Pick(v, I)) = Len(v) - h
        /\ DOMAIN Pick(v, I) = 1 .. Len(v) - h
        /\ \A k \in 1 .. Len(v) - h : Pick(v, I)[k] = v[h + k] /\ h + k \in DOMAIN v
    BY ONLY <2>3, PickRest, SMTT(30)
  <2>5. /\ us \in Seq(Unacked) /\ Len(us) = Len(c.unacked) - h
        /\ DOMAIN us = 1 .. Len(c.unacked) - h
        /\ \A k \in 1 .. Len(c.unacked) - h : us[k] = c.unacked[h + k] /\ h + k \in DOMAIN c.unacked
    BY <2>4 DEF v
  <2> HIDE DEF us
  <2>6. Len(us) <= c.window  BY SMTT(60), <1>2, <2>2, <2>5
  <2>7. e \in DataSteps(c)
    <3>1. c.state \in {"Connected", "Disconnecting"} /\ c.vs \in Seqno
          /\ c.sendQueue \in Seq(Fragment) /\ p.rx \in Seqno
      BY <1>1, SoundFields
    <3> QED  BY <2>5, <2>6, <3>1, FlightType
  <2>8. /\ e.va = p.rx /\ e.unacked = us /\ e.sendQueue = c.sendQueue /\ e.vs = c.vs
        /\ e.sent = c.sent /\ e.inc = c.inc /\ e.reason = c.reason
        /\ e.state = c.state /\ e.window = c.window /\ e.peerChoked = c.peerChoked
    BY <1>1 DEF Circuit
  <2> HIDE DEF e
  <2>9. e \in Sound  BY <2>7, Transitivity
  <2>10. Transmitted(e) = Transmitted(c) /\ Acknowledged(e) = Acknowledged(c) + h
    <3>1. h = Covers(c, p)  BY DEF h
    <3>2. /\ Len(e.unacked) = Len(c.unacked) - h
          /\ DOMAIN e.unacked = 1 .. Len(c.unacked) - h
          /\ \A k \in 1 .. Len(c.unacked) - h :
               e.unacked[k] = c.unacked[h + k] /\ h + k \in DOMAIN c.unacked
      BY <2>5, <2>8
    <3>3. c \in Circuit /\ Numbered(c) /\ c.reason = "None" /\ p \in Packet /\ h <= Len(c.unacked)
      BY <1>1, <2>3 DEF v
    <3>4. /\ e.va = p.rx /\ e.sendQueue = c.sendQueue /\ e.vs = c.vs
          /\ e.sent = c.sent /\ e.inc = c.inc /\ e.reason = c.reason
          /\ e.state = c.state /\ e.window = c.window
      BY <2>8
    <3> QED  BY ONLY <3>1, <3>2, <3>3, <3>4, AbsorbNumbered
  <2>11. Steady(e, Pump(e))  BY <2>9, PumpSteady
  <2> QED  BY <2>1, <2>8, <2>10, <2>11 DEF Steady, h
<1> QED  BY <1>3, <1>4

\* An acknowledgement, with the choke it carries and the resend a NAK asks for.
LEMMA AcknowledgeAbsorbs ==
    ASSUME NEW c \in Sound, c.state = "Connected", NEW d \in Circuit,
           NEW to \in Seq(Packet), NEW from \in Seq(Packet), Within(c, d, to, from),
           from # <<>>, IsAck(from[1])
    PROVE  Absorbs(c, from[1], OnInformationAcknowledge(c, from[1]))
<1> DEFINE p == from[1]
           b == ApplyPeerChoke(c, p.choke)
           a == AbsorbAck(b, p.rx)
           r == IF p.nak THEN RetransmitFrom(a, p.rx) ELSE a
<1>1. p \in Packet /\ 1 \in DOMAIN from /\ p.choke \in BOOLEAN /\ p.rx \in Seqno
  <2>1. p \in Packet /\ 1 \in DOMAIN from  OBVIOUS
  <2> QED  BY <2>1, PacketFields
<1>2. OnInformationAcknowledge(c, p) = Pump(r)  BY DEF OnInformationAcknowledge
<1>3. b \in DataSteps(c) /\ Within(b, d, to, from)  BY <1>1, ApplyPeerChokeType, ApplyPeerChokeWithin
<1>4. /\ b.va = c.va /\ Acknowledged(b) = Acknowledged(c) /\ b.window = c.window
      /\ b.peerChoked = p.choke /\ (p.choke => Transmitted(b) = Transmitted(c))
  BY <1>1, ChokeApplied
<1> HIDE DEF b, p
<1>5. b \in Sound /\ b \in Circuit /\ b.state = "Connected"
  BY <1>3, Transitivity DEF DataSteps, SameState, Sound
<1>6. b.reason = "None"  BY <1>5 DEF Sound, EndIsSound
<1>7. Numbered(b) /\ Covers(b, p) <= Len(b.unacked)
  <2>1. Numbered(b) /\ Returned(b, d, from)  BY <1>3 DEF Within, Pair, Direction
  <2>2. IsAck(from[1]) /\ 1 \in DOMAIN from /\ p = from[1]  BY <1>1 DEF p
  <2> QED  BY <1>6, <2>1, <2>2 DEF Returned
<1>8. /\ a.va = p.rx /\ Acknowledged(a) = Acknowledged(b) + Covers(b, p)
      /\ a.window = b.window /\ a.peerChoked = b.peerChoked
      /\ b.peerChoked => Transmitted(a) = Transmitted(b)
  BY <1>1, <1>5, <1>7, AbsorbSteady
<1>9. a \in Sound /\ a \in Circuit /\ a.state = "Connected"
  <2>1. a \in DataSteps(b)  BY <1>1, <1>5, AbsorbAckType
  <2> HIDE DEF a
  <2> QED  BY <1>5, <2>1, Transitivity DEF DataSteps, SameState, Sound
<1> HIDE DEF a
<1>10. r \in Sound /\ Steady(a, r)
  <2>1. CASE p.nak
    <3>1. r \in DataSteps(a)  BY <1>9, <2>1, RetransmitFromType
    <3>2. Steady(a, r)  BY <1>9, <2>1, ResendSteady DEF RetransmitFrom
    <3> QED  BY <3>1, <3>2, Transitivity
  <2>2. CASE ~p.nak  BY <1>9, <2>2, SteadyOn
  <2> QED  BY <2>1, <2>2
<1> HIDE DEF r
<1>11. Steady(a, Pump(r))  BY <1>10, PumpSteady, SteadyOn
<1>12. Covers(b, p) = Covers(c, p)  BY <1>4 DEF Covers
<1>13. Absorbs(c, p, a)
  BY <1>4, <1>8, <1>12 DEF Absorbs, p
<1> QED  BY <1>2, <1>11, <1>13, SteadyOn DEF p

\* What an end does in one step, whose oldest packet is in[1].
Runs(c, in, e) ==
    \/ e = c
    \/ \E key \in Key, asker \in Nat : e = Emit(c, <<Blank("DisconnectAcknowledge", key, asker)>>)
    \/ c.state = "Connected" /\ \E size \in Nat \ {0} : e = Send(c, size)
    \/ c.state \in {"Connecting", "Connected"} /\ e = Disconnect(c)
    \/ e = OnDeliveryDrained(c)
    \/ TimerRunning(c) /\ e = Tick(c)
    \/ in # <<>> /\ \E reaction \in Reaction \ {"reply"} : e = OnPacket(c, in[1], reaction)
    \/ /\ c.state = "Disconnected" /\ c.reason = "None" /\ c.mintedFor # 0
       /\ \/ \E key \in Key, win \in Nat : e = AcceptInbound(c, key, win)
          \/ \E key \in Key : e = [RefuseInbound(c, key) EXCEPT !.reason = "Refused"]

\* A steady handler that leaves the reason.
LEMMA SteadyWrites ==
    ASSUME NEW c, NEW in, NEW e, Steady(c, e), e.reason = c.reason, e.sent = c.sent \/ Open(e),
           c.reason # "None" => \A k \in DOMAIN e.out : ~IsInfo(e.out[k])
    PROVE  Writes(c, in, e)
BY DEF Writes, Steady

\* One packet that is no Information message.
LEMMA EmitWrites ==
    ASSUME NEW c \in Sound, c.out = <<>>, NEW in, NEW p \in Packet, ~IsInfo(p),
           NEW e, e = Emit(c, <<p>>)
    PROVE  /\ Writes(c, in, e) /\ e.out = <<p>> /\ e.state = c.state /\ e.reason = c.reason
           /\ e.sent = c.sent /\ e.window = c.window
<1>1. c \in Circuit  BY DEF Sound
<1>2. e.out = <<p>> /\ e.reason = c.reason  BY <1>1, EmitAtRest
<1>3. e \in Emissions(c)  BY <1>1, EmitOne
<1>4. Steady(c, e)  BY <1>1, <1>3, EmissionSteady
<1>5. e.sent = c.sent /\ e.window = c.window /\ e.state = c.state  BY <1>1 DEF Emit, Circuit
<1>6. \A k \in DOMAIN e.out : ~IsInfo(e.out[k])  BY <1>2
<1> QED  BY <1>2, <1>4, <1>5, <1>6, SteadyWrites

\* Closing sends no data, and keeps the window.
LEMMA CloseWrites ==
    ASSUME NEW c \in Sound, NEW b \in Sound, b.window = c.window, b.sent = c.sent,
           \A k \in DOMAIN b.out : ~IsInfo(b.out[k]), b.state # "Disconnected", NEW in,
           NEW reason, reason # "None"
    PROVE  Writes(c, in, Close(b, reason))
<1> DEFINE e == Close(b, reason)
<1>1. b \in Circuit  BY DEF Sound
<1>2. e.sent = b.sent /\ e.out = b.out /\ e.window = b.window  BY <1>1, CloseKeeps
<1>3. e.reason = reason  BY <1>1 DEF Close, Circuit
<1> HIDE DEF e
<1>4. Writes(c, in, e)  BY <1>2, <1>3 DEF Writes
<1> QED  BY <1>4 DEF e

\* The timer of an open writer.
LEMMA TickWrites ==
    ASSUME NEW c \in Sound, c.out = <<>>, TimerRunning(c), c.state # "Connecting", NEW in
    PROVE  Writes(c, in, Tick(c))
<1> DEFINE again == [c EXCEPT !.retries = c.retries + 1]
           e == Tick(c)
<1>1. /\ c \in Circuit /\ c.state # "Disconnected" /\ c.reason = "None" /\ c.retries \in Nat
      /\ ~RetriesSpent(c) => e.reason = "None"
  BY TickDeparts DEF Sound, Circuit
<1>2. c.state \in State  BY <1>1 DEF Circuit
<1>3. CASE RetriesSpent(c)
  <2>1. e = Close(c, "Timeout")  BY <1>3 DEF Tick
  <2>2. \A k \in DOMAIN c.out : ~IsInfo(c.out[k])  OBVIOUS
  <2> HIDE DEF e
  <2> QED  BY <1>1, <2>1, <2>2, CloseWrites DEF e
<1>4. CASE ~RetriesSpent(c) /\ c.state = "Disconnecting"
  <2>1. e = SendDisconnectRequest(again)  BY <1>4 DEF Tick
  <2>2. /\ e.va = c.va /\ e.window = c.window /\ e.peerChoked = c.peerChoked
        /\ e.sent = c.sent /\ e.sendQueue = c.sendQueue /\ e.unacked = c.unacked
    <3> HIDE DEF e
    <3> QED  BY <1>1, <2>1 DEF SendDisconnectRequest, Emit, Circuit
  <2> HIDE DEF e
  <2>3. Steady(c, e)  BY <2>2, SameSteady
  <2>4. Writes(c, in, e)  BY <1>1, <1>4, <2>2, <2>3, SteadyWrites
  <2> QED  BY <2>4 DEF e
<1>5. CASE ~RetriesSpent(c) /\ c.state = "Connected"
  <2>1. e = Resend(c, DOMAIN c.unacked)  BY <1>5 DEF Tick
  <2>2. Steady(c, e)  BY <1>1, <2>1, ResendSteady
  <2>3. e.sent = c.sent  BY <1>1, TickHeld
  <2> HIDE DEF e
  <2>4. Writes(c, in, e)  BY <1>1, <1>5, <2>2, <2>3, SteadyWrites
  <2> QED  BY <2>4 DEF e
<1> QED  BY <1>1, <1>2, <1>3, <1>4, <1>5 DEF State

\* What the peer says to a writer: anything but data.
LEMMA PacketWrites ==
    ASSUME NEW c \in Sound, c.out = <<>>, c.state # "Connecting", NEW d \in Circuit,
           NEW to \in Seq(Packet), NEW from \in Seq(Packet), Within(c, d, to, from),
           from # <<>>, ~IsInfo(from[1]), NEW reaction \in Reaction
    PROVE  Writes(c, from, OnPacket(c, from[1], reaction))
<1> DEFINE p == from[1]
           e == OnPacket(c, p, reaction)
<1>1. /\ c \in Circuit /\ p \in Packet /\ c.state \in State
  <2>1. p \in Packet  OBVIOUS
  <2> QED  BY <2>1 DEF Sound, Circuit
<1>2. p.inc \in Nat /\ p.op \in Opcode  BY <1>1, PacketFields
<1>3. Writes(c, from, c)
  <2>1. \A k \in DOMAIN c.out : ~IsInfo(c.out[k])  OBVIOUS
  <2> QED  BY <2>1, SteadyOn, SteadyWrites
<1>4. CASE p.op = "ConnectRequest"
  <2>1. e = OnConnectRequest(c)  BY <1>4 DEF OnPacket
  <2>2. CASE c.state # "Connected"
    <3>1. e = c  BY <2>1, <2>2 DEF OnConnectRequest
    <3> HIDE DEF e
    <3> QED  BY <1>3, <3>1 DEF e
  <2>3. CASE c.state = "Connected"
    <3>1. e = SendConnectAcknowledge(c, FALSE)  BY <2>1, <2>3 DEF OnConnectRequest
    <3>2. e \in Emissions(c)  BY <1>1, <3>1, SendConnectAcknowledgeType
    <3> HIDE DEF e
    <3>3. Steady(c, e)  BY <1>1, <3>2, EmissionSteady
    <3>4. e.sent = c.sent /\ e.reason = c.reason /\ c.reason = "None"
      <4>1. e = [c EXCEPT !.out = e.out]  BY <3>2 DEF Emissions
      <4> QED  BY <1>1, <2>3, <4>1 DEF Circuit, Sound, EndIsSound
    <3>5. Writes(c, from, e)  BY <3>3, <3>4, SteadyWrites
    <3> QED  BY <3>5 DEF e
  <2> QED  BY <2>2, <2>3
<1>5. CASE p.op = "ConnectAcknowledge"
  <2>1. e = c  BY <1>5 DEF OnPacket, OnConnectAcknowledge
  <2> HIDE DEF e
  <2> QED  BY <1>3, <2>1 DEF e
<1>6. CASE p.op = "DisconnectRequest"
  <2> DEFINE a == Blank("DisconnectAcknowledge", c.remoteKey, p.inc)
             b == Emit(c, <<a>>)
  <2>1. e = Close(b, "Normal")
    BY <1>6 DEF OnPacket, OnDisconnectRequest, SendDisconnectAcknowledge
  <2>2. a \in Packet /\ ~IsInfo(a)
    <3>1. "DisconnectAcknowledge" \in Opcode /\ c.remoteKey \in Key  BY <1>1 DEF Opcode, Circuit
    <3>2. a \in Packet  BY <1>2, <3>1, BlankType
    <3> QED  BY <3>2 DEF IsInfo, Blank
  <2> HIDE DEF a
  <2>3. b \in Sound
    <3>1. b \in Emissions(c)  BY <1>1, <2>2, EmitOne
    <3> HIDE DEF b
    <3> QED  BY <3>1, EmissionKeepsState, Transitivity
  <2>4. /\ Writes(c, from, b) /\ b.out = <<a>> /\ b.state = c.state
        /\ b.sent = c.sent /\ b.window = c.window
    BY <2>2, EmitWrites
  <2> HIDE DEF b, e
  <2>5. \A k \in DOMAIN b.out : ~IsInfo(b.out[k])  BY <2>2, <2>4
  <2>6. CASE c.state = "Disconnected"
    <3>1. e = b  BY <2>1, <2>4, <2>6 DEF Close
    <3> QED  BY <2>4, <3>1 DEF e
  <2>7. CASE c.state # "Disconnected"
    <3>1. Writes(c, from, Close(b, "Normal"))  BY <2>3, <2>4, <2>5, <2>7, CloseWrites
    <3> QED  BY <2>1, <3>1 DEF e
  <2> QED  BY <2>6, <2>7
<1>7. CASE p.op = "DisconnectAcknowledge"
  <2>1. e = OnDisconnectAcknowledge(c)  BY <1>7 DEF OnPacket
  <2>2. CASE c.state = "Disconnecting"
    <3>1. e = Close(c, "Normal")  BY <2>1, <2>2 DEF OnDisconnectAcknowledge
    <3>2. \A k \in DOMAIN c.out : ~IsInfo(c.out[k])  OBVIOUS
    <3> HIDE DEF e
    <3>3. Writes(c, from, e)  BY <2>2, <3>1, <3>2, CloseWrites
    <3> QED  BY <3>3 DEF e
  <2>3. CASE c.state # "Disconnecting"
    <3>1. e = c  BY <2>1, <2>3 DEF OnDisconnectAcknowledge
    <3> HIDE DEF e
    <3> QED  BY <1>3, <3>1 DEF e
  <2> QED  BY <2>2, <2>3
<1>8. CASE p.op = "InformationAcknowledge"
  <2>1. e = OnInformationAcknowledge(c, p)  BY <1>8 DEF OnPacket
  <2>2. CASE c.state # "Connected"
    <3>1. e = c  BY <2>1, <2>2 DEF OnInformationAcknowledge
    <3> HIDE DEF e
    <3> QED  BY <1>3, <3>1 DEF e
  <2>3. CASE c.state = "Connected"
    <3>1. IsAck(from[1])  BY <1>8 DEF IsAck
    <3>2. Absorbs(c, from[1], e)  BY <2>1, <2>3, <3>1, AcknowledgeAbsorbs
    <3>3. e.sent = c.sent  BY <1>1, <2>1, OnAcknowledgeHonours DEF Keeps
    <3>4. e \in DataSteps(c)  BY <1>1, <2>1, OnInformationAcknowledgeType
    <3> HIDE DEF e
    <3>5. e.reason = c.reason /\ c.reason = "None"
      BY <2>3, <3>4 DEF DataSteps, SameState, Sound, EndIsSound
    <3>6. Writes(c, from, e)  BY <3>2, <3>3, <3>5 DEF Writes, Absorbs
    <3> QED  BY <3>6 DEF e
  <2> QED  BY <2>2, <2>3
<1> QED  BY <1>2, <1>4, <1>5, <1>6, <1>7, <1>8 DEF Opcode, IsInfo

\* Writing a frame leaves a stream that is not empty.
LEMMA SendFills ==
    ASSUME NEW c \in Sound, c.state = "Connected", NEW size \in Nat \ {0}
    PROVE  Send(c, size).sent # <<>>
<1> DEFINE more  == [i \in 1 .. size |-> i < size]
           frame == [i \in 1 .. size |-> [body |-> <<c.inc, Len(c.sent) + i>>, more |-> more[i]]]
           d == [c EXCEPT !.sendQueue = c.sendQueue \o frame, !.sent = c.sent \o more]
<1>1. c \in Circuit /\ c.sent \in Seq(BOOLEAN) /\ Len(c.sent) \in Nat  BY Fields DEF Sound
<1>2. Send(c, size) = Pump(d)  BY DEF Send
<1>3. more \in Seq(BOOLEAN) /\ Len(more) = size  OBVIOUS
<1> HIDE DEF more, frame
<1>4. Len(c.sent \o more) = Len(c.sent) + size  BY <1>1, <1>3, CatIndex
<1>5. d.sent = c.sent \o more /\ DOMAIN d = DOMAIN c  BY <1>1 DEF Circuit
<1>6. Pump(d).sent = d.sent
  <2> HIDE DEF d
  <2>1. \A n : Fill(d, n).sent = d.sent
    <3>1. d.sent \in {d.sent} /\ DOMAIN d = DOMAIN c /\ DOMAIN c = DOMAIN [c EXCEPT !.out = <<>>]
      BY <1>5
    <3>2. "sent" \in DOMAIN d  BY <1>1, <1>5 DEF Circuit
    <3> QED  BY <3>2 DEF Fill, SendInformation, Emit
  <2> QED  BY <2>1 DEF Pump
<1> HIDE DEF d
<1>7. Len(<<>>) = 0 /\ Len(c.sent) + size # 0  BY <1>1
<1> QED  BY <1>2, <1>4, <1>5, <1>6, <1>7

\* Only writing changes what was written.
LEMMA RunsSent ==
    ASSUME NEW c \in Sound, NEW in \in Seq(Packet), NEW e, Runs(c, in, e),
           in # <<>> /\ IsInfo(in[1]) /\ c.state = "Connected" => c.sendQueue = <<>>
    PROVE  \/ e.sent = c.sent
           \/ c.state = "Connected" /\ \E size \in Nat \ {0} : e = Send(c, size)
<1>1. c \in Circuit  BY DEF Sound
<1>2. ASSUME NEW key, NEW asker, e = Emit(c, <<Blank("DisconnectAcknowledge", key, asker)>>)
      PROVE  e.sent = c.sent
  BY <1>1, <1>2 DEF Emit, Circuit
<1>3. e = Disconnect(c) => e.sent = c.sent  BY <1>1, DisconnectKeeps
<1>4. e = OnDeliveryDrained(c) => e.sent = c.sent  BY <1>1, DrainedKeeps
<1>5. e = Tick(c) => e.sent = c.sent  BY <1>1, TickHeld
<1>6. ASSUME in # <<>>, NEW reaction \in Reaction \ {"reply"}, e = OnPacket(c, in[1], reaction)
      PROVE  e.sent = c.sent
  <2>1. in[1] \in Packet /\ reaction \in Reaction  BY <1>6
  <2> QED  BY <1>6, <2>1, OnPacketRestrained
<1>7. ASSUME NEW key, NEW win, e = AcceptInbound(c, key, win) PROVE e.sent = c.sent
  BY <1>1, <1>7 DEF AcceptInbound, SendConnectAcknowledge, Emit, Circuit
<1>8. ASSUME NEW key, e = [RefuseInbound(c, key) EXCEPT !.reason = "Refused"] PROVE e.sent = c.sent
  BY <1>1, <1>8 DEF RefuseInbound, SendConnectAcknowledge, Emit, Circuit
<1> QED  BY <1>2, <1>3, <1>4, <1>5, <1>6, <1>7, <1>8 DEF Runs

\* Whatever the writer does, while its reader lives, is such a handler.
LEMMA WriterRuns ==
    ASSUME NEW x, NEW y, NEW xy, NEW yx, Facing(x, y, xy, yx), y.sent = <<>>, Live(y),
           NEW e \in Evolutions(x), Runs(x, yx, e), e.sent # <<>>
    PROVE  Writes(x, yx, e)
<1>1. /\ x \in Sound /\ x \in Circuit /\ x.out = <<>> /\ xy \in Seq(Packet) /\ yx \in Seq(Packet)
      /\ y \in Circuit /\ Pair(x, y, xy, yx) /\ EndIsSound(x) /\ EndIsSound(y)
  BY DEF Facing, Sound
<1>2. /\ Direction(x, y, xy, yx) /\ Direction(y, x, yx, xy)  BY <1>1 DEF Pair
<1>3. yx # <<>> => ~IsInfo(yx[1])
  <2>1. yx # <<>> => 1 \in DOMAIN yx  BY <1>1
  <2> QED  BY <1>1, <1>2, <2>1, UnwrittenIsQuiet
<1>4. \/ e.sent = x.sent
      \/ x.state = "Connected" /\ \E size \in Nat \ {0} : e = Send(x, size)
  BY <1>1, <1>3, RunsSent
<1>5. x.state # "Connecting"  BY <1>4 DEF Facing, Meets, Virgin
<1>6. Within(x, y, xy, yx)
  <2>1. xy \o x.out = xy  BY <1>1
  <2> QED  BY <1>1, <2>1 DEF Within
<1>7. \A k \in DOMAIN x.out : ~IsInfo(x.out[k])  BY <1>1
<1>8. CASE e = x  BY <1>7, <1>8, SteadyOn, SteadyWrites
<1>9. ASSUME NEW key \in Key, NEW asker \in Nat, NEW p, p = Blank("DisconnectAcknowledge", key, asker),
             e = Emit(x, <<p>>)
      PROVE  Writes(x, yx, e)
  <2>1. p \in Packet /\ p.op = "DisconnectAcknowledge"  BY <1>9, ReflectedIs
  <2> QED  BY <1>1, <1>9, <2>1, EmitWrites DEF IsInfo
<1>10. ASSUME x.state = "Connected", NEW size \in Nat \ {0}, e = Send(x, size)
       PROVE  Writes(x, yx, e)
  <2>1. e \in DataSteps(x)  BY <1>1, <1>10, SendType
  <2>2. e.state = x.state /\ e.reason = x.reason /\ x.reason = "None"
    BY <1>1, <1>10, <2>1 DEF DataSteps, SameState, EndIsSound
  <2>3. Steady(x, e)  BY <1>1, <1>10, SendSteady
  <2> QED  BY <1>10, <2>2, <2>3, SteadyWrites DEF Open
<1>11. ASSUME x.state \in {"Connecting", "Connected"}, e = Disconnect(x) PROVE Writes(x, yx, e)
  <2>1. x.state = "Connected" /\ x.reason = "None"  BY <1>1, <1>5, <1>11 DEF EndIsSound
  <2>2. Steady(x, e) /\ e.sent = x.sent  BY <1>1, <1>11, <2>1, CallsSteady, DisconnectKeeps
  <2>3. e.reason = "None"  BY <1>1, <1>11, <2>1, DepartsSelf, DisconnectDeparts
  <2> QED  BY <2>1, <2>2, <2>3, SteadyWrites
<1>12. ASSUME e = OnDeliveryDrained(x) PROVE Writes(x, yx, e)
  <2>1. Steady(x, e) /\ e.sent = x.sent  BY <1>1, <1>12, CallsSteady, DrainedKeeps
  <2>2. e.reason = x.reason
    BY <1>1, <1>12, OnDeliveryDrainedType DEF DataSteps, SameState
  <2>3. x.reason # "None" => e.out = <<>>
    BY <1>1, <1>12, ClosedDrained DEF EndIsSound
  <2>4. x.reason # "None" => \A k \in DOMAIN e.out : ~IsInfo(e.out[k])  BY <2>3
  <2> QED  BY <2>1, <2>2, <2>4, SteadyWrites
<1>13. ASSUME TimerRunning(x), e = Tick(x) PROVE Writes(x, yx, e)
  BY <1>1, <1>5, <1>13, TickWrites
<1>14. ASSUME yx # <<>>, NEW reaction \in Reaction \ {"reply"}, e = OnPacket(x, yx[1], reaction)
       PROVE  Writes(x, yx, e)
  BY <1>1, <1>3, <1>5, <1>6, <1>14, PacketWrites
<1>15. ~(x.state = "Disconnected" /\ x.reason = "None" /\ x.mintedFor # 0)
  <2> SUFFICES ASSUME x.state = "Disconnected", x.reason = "None", x.mintedFor # 0
               PROVE  FALSE
    OBVIOUS
  <2>1. Virgin(y) /\ y.reason = "None"  BY <1>1 DEF Facing, Meets, EndIsSound, Live
  <2>2. Accepted(y) = 0  BY <2>1 DEF Virgin, Accepted
  <2>3. Acknowledged(x) <= 0  BY <1>2, <2>1, <2>2 DEF Direction, Returned
  <2>4. x.unacked = <<>> /\ x.sendQueue = <<>>  BY <1>1 DEF EndIsSound
  <2>5. Acknowledged(x) = Len(x.sent) /\ x.sent \in Seq(BOOLEAN) /\ Len(x.sent) \in Nat
    <3>1. x.sent \in Seq(BOOLEAN) /\ Len(x.sent) \in Nat  BY <1>1, Fields
    <3>2. Len(<<>>) = 0  OBVIOUS
    <3> QED  BY <2>4, <3>1, <3>2 DEF Acknowledged, Transmitted
  <2>6. x.sent = <<>>  BY <2>3, <2>5
  <2> QED  BY <1>4, <2>6
<1> QED  BY <1>8, <1>9, <1>10, <1>11, <1>12, <1>13, <1>14, <1>15 DEF Runs

-----------------------------------------------------------------------------
(* Flow control: the handlers of the reader *)

\* A live end with too many frames pending is choked.
Wary(c) == Live(c) /\ c.pending >= ChokeThreshold => c.localChoked

\* An end that has nothing to send.
Idle(c) == c.sendQueue = <<>> /\ c.unacked = <<>>

\* A handler that takes no message, and says whether it is choked.
LEMMA QuietReads ==
    ASSUME NEW c \in Circuit, Live(c), Wary(c), NEW in, NEW e,
           e.pending = c.pending, e.localChoked = c.localChoked, e.window = c.window,
           e.got = c.got, e.reassembly = c.reassembly,
           \A k \in DOMAIN e.out : IsAck(e.out[k]) => e.out[k].choke = c.localChoked
    PROVE  Reads(c, in, e)
<1>1. c.pending \in Nat /\ ChokeThreshold \in Nat  BY OptionsAssumption DEF Circuit
<1>2. Guards(e)  BY DEF Guards, Wary
<1>3. Lightens(c, e)  BY <1>1 DEF Lightens, Accepted
<1> QED  BY <1>2, <1>3 DEF Reads

\* One that leaves a closed end.
LEMMA ClosedReads ==
    ASSUME NEW c \in Circuit, NEW in, NEW e, ~Live(e), e.window = c.window,
           e.pending \in Nat, e.pending <= c.pending
    PROVE  Reads(c, in, e)
BY DEF Reads, Lightens

\* Nothing done.
LEMMA SameReads ==
    ASSUME NEW c \in Circuit, c.out = <<>>, Wary(c), NEW in
    PROVE  Reads(c, in, c)
<1>1. c.pending \in Nat /\ c.pending <= c.pending  BY DEF Circuit
<1>2. \A k \in DOMAIN c.out : ~IsAck(c.out[k])  OBVIOUS
<1>3. CASE Live(c)  BY <1>2, <1>3, QuietReads
<1>4. CASE ~Live(c)  BY <1>1, <1>4, ClosedReads
<1> QED  BY <1>3, <1>4

\* Emission of what is no acknowledgement.
LEMMA EmitReads ==
    ASSUME NEW c \in Circuit, c.out = <<>>, Wary(c), NEW in, NEW p \in Packet, ~IsAck(p),
           NEW e, e = Emit(c, <<p>>)
    PROVE  Reads(c, in, e)
<1>1. e.out = <<p>>  BY EmitAtRest
<1>2. /\ e.pending = c.pending /\ e.localChoked = c.localChoked /\ e.window = c.window
      /\ e.got = c.got /\ e.reassembly = c.reassembly /\ e.state = c.state /\ c.pending \in Nat
  BY DEF Emit, Circuit
<1>3. \A k \in DOMAIN e.out : ~IsAck(e.out[k])  BY <1>1
<1>4. CASE Live(c)  BY <1>2, <1>3, <1>4, QuietReads
<1>5. CASE ~Live(c)  BY <1>2, <1>5, ClosedReads DEF Live
<1> QED  BY <1>4, <1>5

\* Closing.
LEMMA CloseReads ==
    ASSUME NEW c \in Circuit, NEW b \in Circuit, b.window = c.window, b.pending = c.pending,
           NEW reason, NEW in
    PROVE  Reads(c, in, Close(b, reason))
<1> DEFINE e == Close(b, reason)
<1>1. e.window = c.window /\ e.pending = c.pending /\ c.pending \in Nat
  BY CloseKeeps DEF Circuit
<1>2. e.state = "Disconnected"  BY DEF Close, Circuit
<1> HIDE DEF e
<1>3. Reads(c, in, e)  BY <1>1, <1>2, ClosedReads DEF Live
<1> QED  BY <1>3 DEF e

\* A frame is consumed: the choke is released only below the threshold.
LEMMA DrainedReads ==
    ASSUME NEW c \in Sound, c.out = <<>>, Wary(c), NEW in
    PROVE  Reads(c, in, OnDeliveryDrained(c))
<1> DEFINE n == IF c.pending > 0 THEN c.pending - 1 ELSE 0
           d == [c EXCEPT !.pending = n]
           e == OnDeliveryDrained(c)
<1>1. c \in Circuit /\ c.pending \in Nat /\ ChokeThreshold \in Nat
  BY OptionsAssumption DEF Sound, Circuit
<1>2. n \in Nat /\ n <= c.pending  BY <1>1
<1>3. e.pending = n /\ e.got = c.got /\ e.reassembly = c.reassembly  BY <1>1, DrainedKeeps
<1>4. e.state = c.state /\ e.window = c.window
  BY OnDeliveryDrainedType DEF DataSteps, SameState
<1>5. Accepted(e) = Accepted(c)  BY <1>3 DEF Accepted
<1>6. Lightens(c, e)  BY <1>2, <1>3, <1>4, <1>5 DEF Lightens, Live
<1>7. Live(e) => Guards(e)
  <2> SUFFICES ASSUME Live(c), n >= ChokeThreshold
               PROVE  e.localChoked /\ \A k \in DOMAIN e.out : IsAck(e.out[k]) => e.out[k].choke
    BY <1>3, <1>4 DEF Live, Guards
  <2>1. c.localChoked  BY <1>1, <1>2 DEF Wary
  <2>2. d.pending = n /\ d.localChoked = c.localChoked /\ d.out = <<>>  BY <1>1 DEF Circuit
  <2> HIDE DEF d
  <2>3. ~(d.pending < ChokeThreshold)  BY <1>1, <1>2, <2>2
  <2>4. e = d  BY <2>3, Zenon DEF OnDeliveryDrained, d, n
  <2>5. e.localChoked = d.localChoked /\ e.out = <<>>  BY <2>2, <2>4
  <2> HIDE DEF e
  <2>6. DOMAIN e.out = {}  BY <2>5
  <2> QED  BY <2>1, <2>2, <2>5, <2>6
<1> HIDE DEF e
<1>8. Reads(c, in, e)  BY <1>4, <1>6, <1>7 DEF Reads
<1> QED  BY <1>8 DEF e

\* Hanging up on an open circuit sends one Disconnect Request.
LEMMA HangsUp ==
    ASSUME NEW c \in Circuit, c.out = <<>>, c.state = "Connected"
    PROVE  LET e == Disconnect(c)
           IN  /\ e.pending = c.pending /\ e.localChoked = c.localChoked /\ e.window = c.window
               /\ e.got = c.got /\ e.reassembly = c.reassembly
               /\ \A k \in DOMAIN e.out : ~IsAck(e.out[k])
<1> DEFINE e == Disconnect(c)
           p == Blank("DisconnectRequest", c.remoteKey, c.inc)
           b == Emit(c, <<p>>)
<1>1. e = [b EXCEPT !.state = "Disconnecting", !.retries = 0, !.armed = TRUE]
  BY DEF Disconnect, SendDisconnectRequest
<1>2. p \in Packet /\ ~IsAck(p)
  <2>1. "DisconnectRequest" \in Opcode /\ c.remoteKey \in Key /\ c.inc \in Nat
    BY DEF Opcode, Circuit
  <2>2. p \in Packet  BY <2>1, BlankType
  <2> QED  BY <2>2 DEF IsAck, Blank
<1> HIDE DEF p
<1>3. b \in Circuit /\ b.out = <<p>>
  <2>1. b \in Emissions(c) /\ b.out = <<p>>  BY <1>2, EmitOne, EmitAtRest
  <2> QED  BY <2>1 DEF Emissions
<1>4. /\ b.pending = c.pending /\ b.localChoked = c.localChoked /\ b.window = c.window
      /\ b.got = c.got /\ b.reassembly = c.reassembly
  BY DEF Emit, Circuit
<1> HIDE DEF b
<1>5. /\ e.pending = b.pending /\ e.localChoked = b.localChoked /\ e.window = b.window
      /\ e.got = b.got /\ e.reassembly = b.reassembly /\ e.out = b.out
  BY <1>1, <1>3 DEF Circuit
<1> HIDE DEF e
<1>6. \A k \in DOMAIN e.out : ~IsAck(e.out[k])  BY <1>2, <1>3, <1>5
<1> QED  BY <1>4, <1>5, <1>6 DEF e

\* Hanging up.
LEMMA DisconnectReads ==
    ASSUME NEW c \in Sound, c.out = <<>>, Wary(c), c.state \in {"Connecting", "Connected"}, NEW in
    PROVE  Reads(c, in, Disconnect(c))
<1> DEFINE e == Disconnect(c)
<1>1. c \in Circuit /\ Live(c)  BY DEF Sound, Live
<1>2. CASE c.state = "Connecting"
  <2>1. e = Close(c, "Normal")  BY <1>2 DEF Disconnect
  <2> HIDE DEF e
  <2>2. Reads(c, in, e)  BY <1>1, <2>1, CloseReads
  <2> QED  BY <2>2 DEF e
<1>3. CASE c.state = "Connected"
  <2>1. /\ e.pending = c.pending /\ e.localChoked = c.localChoked /\ e.window = c.window
        /\ e.got = c.got /\ e.reassembly = c.reassembly
        /\ \A k \in DOMAIN e.out : ~IsAck(e.out[k])
    BY <1>1, <1>3, HangsUp
  <2> HIDE DEF e
  <2>2. Reads(c, in, e)  BY <1>1, <2>1, QuietReads
  <2> QED  BY <2>2 DEF e
<1> QED  BY <1>2, <1>3

\* The timer of an end that has nothing in flight.
LEMMA TickReads ==
    ASSUME NEW c \in Sound, c.out = <<>>, Wary(c), Idle(c), TimerRunning(c), NEW in
    PROVE  Reads(c, in, Tick(c))
<1> DEFINE again == [c EXCEPT !.retries = c.retries + 1]
           e == Tick(c)
<1>1. c \in Circuit /\ c.retries \in Nat  BY DEF Sound, Circuit
<1>2. c.state \in {"Connecting", "Disconnecting"} /\ Live(c)
  BY DEF TimerRunning, Idle, Sound, EndIsSound, Live
<1>3. CASE RetriesSpent(c)
  <2>1. e = Close(c, "Timeout")  BY <1>3 DEF Tick
  <2> HIDE DEF e
  <2>2. Reads(c, in, e)  BY <1>1, <2>1, CloseReads
  <2> QED  BY <2>2 DEF e
<1>4. CASE ~RetriesSpent(c)
  <2>1. /\ again \in Circuit /\ again.out = <<>> /\ again.localKey = c.localKey
        /\ again.pending = c.pending /\ again.localChoked = c.localChoked
        /\ again.window = c.window /\ again.got = c.got /\ again.reassembly = c.reassembly
        /\ again.remoteKey \in Key /\ again.inc \in Nat
    <3> DEFINE n == c.retries + 1
    <3>1. n \in Nat /\ c.out = <<>> /\ c \in Circuit  BY <1>1
    <3>2. again = [c EXCEPT !.retries = n]  OBVIOUS
    <3> HIDE DEF n, again
    <3>3. again \in Circuit  BY ONLY <3>1, <3>2, Zenon DEF Circuit
    <3> QED  BY ONLY <3>1, <3>2, <3>3 DEF Circuit
  <2>2. e = SendConnectRequest(again) \/ e = SendDisconnectRequest(again)
    BY <1>2, <1>4 DEF Tick
  <2> HIDE DEF again, e
  <2>3. \E p \in Packet : ~IsAck(p) /\ e = Emit(again, <<p>>)
    <3>1. CASE e = SendDisconnectRequest(again)
      <4>1. "DisconnectRequest" \in Opcode  BY DEF Opcode
      <4>2. Blank("DisconnectRequest", again.remoteKey, again.inc) \in Packet  BY <2>1, <4>1, BlankType
      <4>3. ~IsAck(Blank("DisconnectRequest", again.remoteKey, again.inc))  BY DEF IsAck, Blank
      <4> QED  BY <3>1, <4>2, <4>3 DEF SendDisconnectRequest
    <3>2. CASE e = SendConnectRequest(again)
      <4> DEFINE w == Clamp(again.windowSize, 1, MaxWindow)
                 r == Blank("ConnectRequest", again.localKey, again.inc)
                 p == [r EXCEPT !.win = w]
      <4>1. again.windowSize \in Nat /\ again.localKey \in Key /\ "ConnectRequest" \in Opcode
        BY <2>1 DEF Circuit, Opcode
      <4>2. w \in Nat  BY <4>1, HorizonFacts DEF Clamp
      <4>3. r \in Packet  BY <2>1, <4>1, BlankType
      <4>4. ~IsAck(p)  BY DEF IsAck, Blank
      <4>5. e = Emit(again, <<p>>)  BY <3>2 DEF SendConnectRequest
      <4> HIDE DEF w, r
      <4>6. p \in Packet  BY <4>2, <4>3 DEF Packet
      <4> QED  BY <4>4, <4>5, <4>6
    <3> QED  BY <2>2, <3>1, <3>2
  <2>4. PICK p \in Packet : ~IsAck(p) /\ e = Emit(again, <<p>>)  BY <2>3
  <2>5. e.out = <<p>>  BY <2>1, <2>4, EmitAtRest
  <2>6. /\ e.pending = c.pending /\ e.localChoked = c.localChoked /\ e.window = c.window
        /\ e.got = c.got /\ e.reassembly = c.reassembly
    BY <2>1, <2>4 DEF Emit, Circuit
  <2>7. \A k \in DOMAIN e.out : ~IsAck(e.out[k])  BY <2>4, <2>5
  <2>8. Reads(c, in, e)  BY <1>1, <1>2, <2>6, <2>7, QuietReads
  <2> QED  BY <2>8 DEF e
<1> QED  BY <1>3, <1>4

\* What the two halves of an acknowledgement do to an end that has nothing to send.
Still(c, e) == e \in DataSteps(c) /\ Idle(e) /\ Keeps(c, e) /\ e.out = c.out

LEMMA IdleAbsorbs ==
    ASSUME NEW c \in Sound, c.state = "Connected", Idle(c), NEW rx \in Seqno
    PROVE  Still(c, AbsorbAck(c, rx))
<1> DEFINE e == AbsorbAck(c, rx)
<1>1. e = [c EXCEPT !.va = rx]  BY DEF AbsorbAck, Idle
<1>2. e \in DataSteps(c)  BY AbsorbAckType
<1>3. c \in Circuit  BY DEF Sound
<1> HIDE DEF e
<1>4. Idle(e) /\ Keeps(c, e) /\ e.out = c.out  BY <1>1, <1>3 DEF Idle, Keeps, Circuit
<1>5. Still(c, e)  BY <1>2, <1>4 DEF Still
<1> QED  BY <1>5 DEF e

LEMMA IdleChoked ==
    ASSUME NEW c \in Sound, Idle(c), NEW choke \in BOOLEAN
    PROVE  Still(c, ApplyPeerChoke(c, choke))
<1> DEFINE e == ApplyPeerChoke(c, choke)
           b == [c EXCEPT !.peerChoked = TRUE]
           d == [c EXCEPT !.peerChoked = FALSE]
<1>1. c \in Circuit  BY DEF Sound
<1>2. e \in DataSteps(c)  BY ApplyPeerChokeType
<1>3. d \in Circuit /\ d.sendQueue = <<>>  BY <1>1 DEF Idle, Circuit
<1>4. Pump(d) = d
  <2> HIDE DEF d
  <2> QED  BY <1>3, IdlePump
<1>5. e \in {b, c, d}  BY <1>4 DEF ApplyPeerChoke
<1> HIDE DEF e
<1>6. Idle(e) /\ Keeps(c, e) /\ e.out = c.out
  <2>1. \A f \in {b, c, d} : Idle(f) /\ Keeps(c, f) /\ f.out = c.out
    BY <1>1 DEF Idle, Keeps, Circuit
  <2> QED  BY <1>5, <2>1
<1>7. Still(c, e)  BY <1>2, <1>6 DEF Still
<1> QED  BY <1>7 DEF e

\* It composes, and leaves the end what it was.
LEMMA StillOn ==
    ASSUME NEW c \in Sound, NEW d, NEW e, Still(c, d)
    PROVE  /\ Still(d, e) => Still(c, e)
           /\ d \in Sound /\ d \in Circuit /\ Idle(d) /\ d.state = c.state /\ d.out = c.out
           /\ d.window = c.window /\ d.pending = c.pending /\ d.localChoked = c.localChoked
           /\ d.got = c.got /\ d.reassembly = c.reassembly /\ d.vr = c.vr
<1>1. d \in Sound /\ d \in Circuit  BY Transitivity DEF Still, Sound
<1>2. d.state = c.state /\ d.window = c.window  BY DEF Still, DataSteps, SameState
<1>3. Still(d, e) => Still(c, e)  BY <1>1, Transitivity, KeepsOn DEF Still
<1> QED  BY <1>1, <1>2, <1>3 DEF Still, Keeps

\* An acknowledgement says whether its sender is choked.
LEMMA AckStamped ==
    ASSUME NEW s \in Circuit, NEW nak \in BOOLEAN
    PROVE  LET e == SendInformationAcknowledge(s, nak)
           IN  /\ e.pending = s.pending /\ e.localChoked = s.localChoked /\ e.window = s.window
               /\ e.got = s.got /\ e.reassembly = s.reassembly /\ e.state = s.state
               /\ \A k \in DOMAIN e.out : \/ k \in DOMAIN s.out /\ e.out[k] = s.out[k]
                                         \/ e.out[k].choke = s.localChoked
<1> DEFINE e == SendInformationAcknowledge(s, nak)
           b == Blank("InformationAcknowledge", s.remoteKey, s.inc)
           p == [b EXCEPT !.rx = s.vr, !.nak = nak, !.choke = s.localChoked]
<1>1. e = [s EXCEPT !.out = s.out \o <<p>>]  BY DEF SendInformationAcknowledge, Emit
<1>2. p.choke = s.localChoked  BY DEF Blank
<1>3. s.out \in Seq(Packet) /\ Len(s.out) \in Nat  BY DEF Circuit
<1> HIDE DEF p, e
<1>4. /\ e.pending = s.pending /\ e.localChoked = s.localChoked /\ e.window = s.window
      /\ e.got = s.got /\ e.reassembly = s.reassembly /\ e.state = s.state
      /\ e.out = s.out \o <<p>>
  BY <1>1 DEF Circuit
<1>5. \A k \in DOMAIN e.out : \/ k \in DOMAIN s.out /\ e.out[k] = s.out[k]
                              \/ e.out[k].choke = s.localChoked
  <2>1. \A k \in DOMAIN (s.out \o <<p>>) :
           \/ k \in DOMAIN s.out /\ (s.out \o <<p>>)[k] = s.out[k]
           \/ (s.out \o <<p>>)[k] = p
    <3>1. \E S : s.out \in Seq(S) /\ p \in S
      <4>1. s.out \in Seq(Packet \cup {p})  BY <1>3
      <4> QED  BY <4>1
    <3> QED  BY <3>1
  <2> QED  BY <1>2, <1>4, <2>1
<1> QED  BY <1>4, <1>5 DEF e

\* A frame consumed: what is sent then says that the end is below the threshold.
LEMMA DrainGuards ==
    ASSUME NEW b \in Circuit
    PROVE  LET e == OnDeliveryDrained(b)
           IN  /\ e.pending <= b.pending /\ e.got = b.got /\ e.reassembly = b.reassembly
               /\ e.window = b.window
               /\ e.pending >= ChokeThreshold => e.out = b.out
<1> DEFINE n == IF b.pending > 0 THEN b.pending - 1 ELSE 0
           d == [b EXCEPT !.pending = n]
           e == OnDeliveryDrained(b)
<1>1. b.pending \in Nat /\ ChokeThreshold \in Nat  BY OptionsAssumption DEF Circuit
<1>2. n \in Nat /\ n <= b.pending  BY <1>1
<1>3. e.pending = n /\ e.got = b.got /\ e.reassembly = b.reassembly  BY DrainedKeeps
<1>4. e.window = b.window
  BY DEF OnDeliveryDrained, SendInformationAcknowledge, Emit, Circuit
<1>5. d.pending = n /\ d.out = b.out  BY DEF Circuit
<1>6. ~(d.pending < ChokeThreshold) => e = d
  <2> HIDE DEF d
  <2> QED  BY Zenon DEF OnDeliveryDrained, d, n
<1> HIDE DEF d, e, n
<1>7. e.pending >= ChokeThreshold => e.out = b.out  BY <1>1, <1>2, <1>3, <1>5, <1>6
<1> QED  BY <1>2, <1>3, <1>4, <1>7 DEF e

\* What the application does with a frame.
LEMMA ReactGuards ==
    ASSUME NEW b \in Sound, b.out = <<>>, b.state = "Connected",
           NEW reaction \in Reaction \ {"reply"}
    PROVE  LET e == React(b, reaction)
           IN  /\ e.pending <= b.pending /\ e.got = b.got /\ e.reassembly = b.reassembly
               /\ e.window = b.window
               /\ e.pending >= ChokeThreshold => \A k \in DOMAIN e.out : ~IsAck(e.out[k])
<1>1. b \in Circuit /\ b.pending \in Nat /\ \A k \in DOMAIN b.out : ~IsAck(b.out[k])
  BY DEF Sound, Circuit
<1>2. CASE reaction = "hold"
  <2>1. React(b, reaction) = b  BY <1>2 DEF React
  <2> QED  BY <1>1, <2>1
<1>3. CASE reaction = "drain"
  <2>1. React(b, reaction) = OnDeliveryDrained(b)  BY <1>3 DEF React
  <2> QED  BY <1>1, <2>1, DrainGuards
<1>4. CASE reaction = "dispose"
  <2> DEFINE d == Disconnect(b)
  <2>1. React(b, reaction) = OnDeliveryDrained(d)  BY <1>4 DEF React
  <2>2. /\ d.pending = b.pending /\ d.window = b.window /\ d.got = b.got
        /\ d.reassembly = b.reassembly /\ \A k \in DOMAIN d.out : ~IsAck(d.out[k])
    BY <1>1, HangsUp
  <2>3. d \in Circuit
    <3>1. d \in Evolutions(b)  BY DisconnectType
    <3> HIDE DEF d
    <3> QED  BY <3>1, Transitivity DEF Sound
  <2> HIDE DEF d
  <2> QED  BY <2>1, <2>2, <2>3, DrainGuards
<1> QED  BY <1>2, <1>3, <1>4 DEF Reaction

\* A frame delivered: the end is choked before it says anything more.
LEMMA DeliverGuards ==
    ASSUME ChokeThreshold > 0, NEW c \in Sound, c.out = <<>>, c.state = "Connected",
           NEW reaction \in Reaction \ {"reply"}
    PROVE  LET e == Deliver(c, reaction)
           IN  /\ e \in Circuit /\ e.window = c.window /\ e.got = Append(c.got, c.reassembly)
               /\ e.reassembly = <<>> /\ e.pending <= c.pending + 1
               /\ e.pending >= ChokeThreshold =>
                     e.localChoked /\ \A k \in DOMAIN e.out : ~IsAck(e.out[k])
<1> DEFINE got == Append(c.got, c.reassembly)
           n == c.pending + 1
           b == [c EXCEPT !.got = got, !.reassembly = <<>>, !.pending = n]
           x == React(b, reaction)
           e == Deliver(c, reaction)
<1>1. /\ c \in Circuit /\ c.got \in Seq(Seq(Body)) /\ c.reassembly \in Seq(Body)
      /\ c.pending \in Nat
  BY DEF Sound, Circuit
<1>2. got \in Seq(Seq(Body)) /\ n \in Nat /\ <<>> \in Seq(Body)
  <2>1. got \in Seq(Seq(Body))  BY <1>1, AppendIndex
  <2> QED  BY <1>1, <2>1
<1>3. e = MaybeAssertChoke(React(b, reaction))
  <2>1. [c EXCEPT !.got = Append(@, c.reassembly), !.reassembly = <<>>,
                  !.pending = IF ChokeThreshold > 0 THEN @ + 1 ELSE @] = b
    BY <1>1 DEF Circuit
  <2> QED  BY <2>1 DEF Deliver
<1>4. reaction \in Reaction  OBVIOUS
<1> HIDE DEF got, n, e
<1>5. b \in DataSteps(c)
  <2>1. c \in Sound /\ 0 \in Seqno  BY ZeroIsKeyAndSeqno
  <2> QED  BY ONLY <1>2, <2>1, ReceiptType
<1>6. b \in Sound  BY <1>5, Transitivity
<1>7. /\ b.got = got /\ b.reassembly = <<>> /\ b.pending = n /\ b.out = <<>>
      /\ b.state = "Connected" /\ b.window = c.window
  BY <1>1 DEF Circuit
<1> HIDE DEF b
<1>8. x \in Circuit
  <2>1. x \in Sound  BY <1>4, <1>6, ReactType, OutcomeSteps
  <2> QED  BY <2>1 DEF Sound
<1>9. /\ x.pending <= n /\ x.got = got /\ x.reassembly = <<>> /\ x.window = c.window
      /\ x.pending >= ChokeThreshold => \A k \in DOMAIN x.out : ~IsAck(x.out[k])
  BY <1>6, <1>7, ReactGuards
<1> HIDE DEF x
<1>10. e = MaybeAssertChoke(x)  BY <1>3 DEF x
<1>11. /\ e \in Circuit /\ e.got = x.got /\ e.reassembly = x.reassembly /\ e.pending = x.pending
       /\ e.out = x.out /\ e.window = x.window
       /\ e.pending >= ChokeThreshold => e.localChoked
  <2>1. e \in Circuit /\ e.window = x.window  BY ZenonT(60), <1>8, <1>10 DEF MaybeAssertChoke, Circuit
  <2>2. /\ e.got = x.got /\ e.reassembly = x.reassembly /\ e.pending = x.pending /\ e.out = x.out
    BY <1>8, <1>10, MaybeAssertChokeKeeps
  <2>3. x.pending >= ChokeThreshold => e.localChoked
    BY <1>8, <1>10 DEF MaybeAssertChoke, Circuit
  <2> QED  BY <2>1, <2>2, <2>3
<1> QED  BY <1>9, <1>11 DEF e, got, n

\* The last entry of what was appended to.
LEMMA LastAppended ==
    ASSUME NEW S, NEW a \in Seq(S), NEW b \in S
    PROVE  Append(a, b) \in Seq(S) /\ Append(a, b) # <<>> /\ Last(Append(a, b)) = b
<1>1. Len(a) \in Nat  OBVIOUS
<1> DEFINE q == Append(a, b)
<1>2. /\ q \in Seq(S) /\ q # <<>> /\ Len(q) = Len(a) + 1
      /\ \A k \in 1 .. Len(a) + 1 : q[k] = IF k <= Len(a) THEN a[k] ELSE b
  BY AppendIndex
<1> HIDE DEF q
<1>3. q[Len(q)] = b  BY <1>1, <1>2
<1>4. Last(q) = b  BY <1>3 DEF Last
<1> QED  BY <1>2, <1>4 DEF q

\* The messages of the writer.
LEMMA InformationReads ==
    ASSUME ChokeThreshold > 0, NEW c \in Sound, c.out = <<>>, Wary(c), Idle(c),
           NEW in \in Seq(Packet), in # <<>>, IsInfo(in[1]), NEW reaction \in Reaction \ {"reply"}
    PROVE  Reads(c, in, OnInformation(c, in[1], reaction))
<1> DEFINE p == in[1]
           e == OnInformation(c, p, reaction)
<1>1. c \in Circuit /\ p \in Packet /\ c.pending \in Nat /\ ChokeThreshold \in Nat
  BY SMTT(60), OptionsAssumption DEF Sound, Circuit
<1>2. p.rx \in Seqno /\ p.choke \in BOOLEAN /\ p.body \in Body /\ p.more \in BOOLEAN
  BY <1>1, PacketFields
<1>3. IsInfo(p)  OBVIOUS
<1>4. CASE c.state # "Connected"
  <2>1. e = c  BY <1>4 DEF OnInformation
  <2>2. Reads(c, in, c)  BY <1>1, SameReads
  <2> HIDE DEF e
  <2>3. Reads(c, in, e)  BY <2>1, <2>2
  <2> QED  BY <2>3 DEF e
<1>5. CASE c.state = "Connected"
  <2> DEFINE z == AbsorbAck(c, p.rx)
             a == ApplyPeerChoke(z, p.choke)
             v == NextSeq(a.vr, 1)
             r == Append(a.reassembly, p.body)
             d == [a EXCEPT !.vr = v, !.reassembly = r]
             nak == Mod256After(p.tx, a.vr)
  <2> HIDE DEF p
  <2>1. Still(c, z)  BY <1>2, <1>5, IdleAbsorbs
  <2>2. Still(z, a)
    <3>1. z \in Sound /\ Idle(z)  BY <2>1, StillOn
    <3> HIDE DEF z
    <3> QED  BY <1>2, <3>1, IdleChoked
  <2>3. Still(c, a)
    <3> HIDE DEF z, a
    <3> QED  BY <2>1, <2>2, StillOn
  <2>4. e = IF p.tx # a.vr THEN SendInformationAcknowledge(a, nak)
            ELSE SendInformationAcknowledge(IF p.more THEN d ELSE Deliver(d, reaction), FALSE)
    <3>1. a \in Circuit
      <4> HIDE DEF a
      <4> QED  BY <2>3, StillOn
    <3>2. d = [a EXCEPT !.vr = NextSeq(@, 1), !.reassembly = Append(@, p.body)]
      BY <3>1 DEF d, v, r, Circuit
    <3> QED  BY <1>5, <3>2 DEF OnInformation, a, z
  <2> HIDE DEF z, a, e
  <2>5. /\ a \in Sound /\ a \in Circuit /\ a.state = "Connected" /\ a.out = <<>>
        /\ a.window = c.window /\ a.pending = c.pending /\ a.localChoked = c.localChoked
        /\ a.got = c.got /\ a.reassembly = c.reassembly /\ a.vr = c.vr
    BY <1>5, <2>3, StillOn
  <2>6. CASE p.tx # a.vr
    <3>1. nak \in BOOLEAN  BY DEF Mod256After
    <3>2. e = SendInformationAcknowledge(a, nak)  BY <2>4, <2>6
    <3> HIDE DEF nak
    <3>3. /\ e.pending = a.pending /\ e.localChoked = a.localChoked /\ e.window = a.window
          /\ e.got = a.got /\ e.reassembly = a.reassembly
          /\ \A k \in DOMAIN e.out : \/ k \in DOMAIN a.out /\ e.out[k] = a.out[k]
                                     \/ e.out[k].choke = a.localChoked
      BY <2>5, <3>1, <3>2, AckStamped
    <3>4. \A k \in DOMAIN e.out : e.out[k].choke = c.localChoked  BY <2>5, <3>3
    <3>5. Live(c)  BY <1>5 DEF Live
    <3>6. Reads(c, in, e)  BY <1>1, <2>5, <3>3, <3>4, <3>5, QuietReads
    <3> QED  BY <3>6 DEF e, p
  <2>7. CASE p.tx = a.vr
    <3>1. /\ a.reassembly \in Seq(Body) /\ a.got \in Seq(Seq(Body)) /\ a.pending \in Nat
          /\ v \in Seqno
      <4>1. a.vr \in Seqno /\ 1 \in Int  BY SMTT(60), <2>5 DEF Circuit
      <4>2. a.vr \in Nat  BY ONLY <4>1, ModulusAssumption DEF Seqno
      <4>3. v \in Seqno  BY <4>1, <4>2, NextSeqType
      <4> QED  BY <2>5, <4>3 DEF Circuit
    <3>2. r \in Seq(Body) /\ r # <<>> /\ Last(r) = p.body
      <4>1. \A q \in Seq(Body), b \in Body :
               Append(q, b) \in Seq(Body) /\ Append(q, b) # <<>> /\ Last(Append(q, b)) = b
        BY SMTT(60), LastAppended
      <4> QED  BY <1>2, <3>1, <4>1, Zenon DEF r
    <3> HIDE DEF v, r
    <3>3. d \in DataSteps(a)  BY <2>5, <3>1, <3>2, ReceiptType
    <3>4. /\ d.reassembly = r /\ d.got = a.got /\ d.pending = a.pending /\ d.out = <<>>
          /\ d.window = a.window /\ d.localChoked = a.localChoked /\ d.state = "Connected"
      BY <2>5 DEF Circuit
    <3> HIDE DEF d
    <3>5. d \in Sound /\ d \in Circuit  BY <3>3, Transitivity DEF Sound
    <3> DEFINE x == IF p.more THEN d ELSE Deliver(d, reaction)
    <3>6. /\ x \in Circuit /\ x.window = c.window /\ x.pending <= c.pending + 1
          /\ Accepted(x) = Position(p)
          /\ x.pending >= ChokeThreshold =>
                x.localChoked /\ \A k \in DOMAIN x.out : ~IsAck(x.out[k])
      <4>1. CASE p.more
        <5>1. x = d  BY <4>1
        <5>2. Accepted(d) = Position(p)  BY <3>2, <3>4 DEF Accepted, Position
        <5>3. d.pending >= ChokeThreshold => d.localChoked
          BY <1>5, <2>5, <3>4 DEF Wary, Live
        <5>4. \A k \in DOMAIN d.out : ~IsAck(d.out[k])  BY <3>4
        <5> HIDE DEF x
        <5> QED  BY <1>1, <2>5, <3>4, <3>5, <5>1, <5>2, <5>3, <5>4
      <4>2. CASE ~p.more
        <5>1. x = Deliver(d, reaction)  BY <4>2
        <5> HIDE DEF x
        <5>2. /\ x \in Circuit /\ x.window = d.window /\ x.got = Append(d.got, d.reassembly)
              /\ x.reassembly = <<>> /\ x.pending <= d.pending + 1
              /\ x.pending >= ChokeThreshold =>
                    x.localChoked /\ \A k \in DOMAIN x.out : ~IsAck(x.out[k])
          BY <3>4, <3>5, <5>1, DeliverGuards
        <5>3. x.got # <<>> /\ Last(x.got) = r
          <6>1. \A q \in Seq(Seq(Body)), b \in Seq(Body) :
                   Append(q, b) # <<>> /\ Last(Append(q, b)) = b
            BY LastAppended
          <6>2. x.got = Append(a.got, r)  BY <3>4, <5>2
          <6> QED  BY <3>1, <3>2, <6>1, <6>2, Zenon
        <5>4. Accepted(x) = Position(p)  BY <3>2, <5>2, <5>3 DEF Accepted, Position
        <5> QED  BY <2>5, <3>4, <5>2, <5>4
      <4> QED  BY <4>1, <4>2
    <3>7. e = SendInformationAcknowledge(x, FALSE)  BY <2>4, <2>7
    <3> HIDE DEF x
    <3>8. /\ e.pending = x.pending /\ e.localChoked = x.localChoked /\ e.window = x.window
          /\ e.got = x.got /\ e.reassembly = x.reassembly
          /\ \A k \in DOMAIN e.out : \/ k \in DOMAIN x.out /\ e.out[k] = x.out[k]
                                     \/ e.out[k].choke = x.localChoked
      BY <3>6, <3>7, AckStamped
    <3>9. Accepted(e) = Position(p)  BY <3>6, <3>8 DEF Accepted
    <3>10. Guards(e)  BY <3>6, <3>8 DEF Guards
    <3>11. Takes(c, p, e)  BY <1>3, <1>5, <2>5, <2>7, <3>6, <3>8, <3>9 DEF Takes, p
    <3>12. Reads(c, in, e)  BY <2>5, <3>6, <3>8, <3>10, <3>11 DEF Reads, p
    <3> QED  BY <3>12 DEF e, p
  <2> QED  BY <2>6, <2>7
<1> QED  BY <1>4, <1>5

\* Nothing in flight, nothing to send again.
LEMMA IdleResend ==
    ASSUME NEW c \in Circuit, Idle(c), NEW I \in SUBSET DOMAIN c.unacked PROVE Resend(c, I) = c
<1> DEFINE us == [i \in DOMAIN c.unacked |->
                    IF i \in I THEN Again(c.unacked[i]) ELSE c.unacked[i]]
           again == Pick(c.unacked, I)
           d == [c EXCEPT !.unacked = us]
           ps == [i \in DOMAIN again |-> InformationOf(d, again[i])]
<1>1. c.unacked = <<>> /\ DOMAIN c.unacked = {}  BY DEF Idle
<1>2. I = {} /\ Cardinality(I) = 0  BY <1>1, FS_EmptySet
<1>3. us = <<>>  BY <1>1
<1>4. again = <<>>  BY <1>2 DEF Pick
<1>5. Resend(c, I) = [d EXCEPT !.out = d.out \o ps]  BY DEF Resend, SendInformation, Emit
<1> HIDE DEF us, again
<1>6. d = c  BY <1>1, <1>3 DEF Circuit
<1> HIDE DEF d
<1>7. ps = <<>>  BY <1>4
<1> HIDE DEF ps
<1>8. c.out \o <<>> = c.out  BY DEF Circuit
<1>9. [c EXCEPT !.out = c.out] = c  BY DEF Circuit
<1> QED  BY <1>5, <1>6, <1>7, <1>8, <1>9

\* An acknowledgement moves nothing of an end that has nothing to send.
LEMMA AcknowledgeReads ==
    ASSUME NEW c \in Sound, c.out = <<>>, Wary(c), Idle(c), NEW in, NEW p \in Packet
    PROVE  Reads(c, in, OnInformationAcknowledge(c, p))
<1> DEFINE b == ApplyPeerChoke(c, p.choke)
           a == AbsorbAck(b, p.rx)
           I == {i \in DOMAIN a.unacked : \/ a.unacked[i].seq = p.rx
                                          \/ Mod256After(a.unacked[i].seq, p.rx)}
           e == OnInformationAcknowledge(c, p)
<1>1. c \in Circuit /\ p.rx \in Seqno /\ p.choke \in BOOLEAN  BY PacketFields DEF Sound
<1>2. \A k \in DOMAIN c.out : ~IsAck(c.out[k])  OBVIOUS
<1>3. CASE c.state # "Connected"
  <2>1. e = c  BY <1>3 DEF OnInformationAcknowledge
  <2>2. Reads(c, in, c)  BY <1>1, SameReads
  <2> HIDE DEF e
  <2>3. Reads(c, in, e)  BY <2>1, <2>2
  <2> QED  BY <2>3 DEF e
<1>4. CASE c.state = "Connected"
  <2>1. Still(c, b)  BY <1>1, IdleChoked
  <2>2. b \in Sound /\ Idle(b) /\ b.state = "Connected"
    <3> HIDE DEF b
    <3> QED  BY <1>4, <2>1, StillOn
  <2>3. e = Pump(IF p.nak THEN RetransmitFrom(a, p.rx) ELSE a)
    BY <1>4 DEF OnInformationAcknowledge
  <2> HIDE DEF b
  <2>4. Still(b, a)  BY <1>1, <2>2, IdleAbsorbs
  <2> HIDE DEF e
  <2>5. RetransmitFrom(a, p.rx) = Resend(a, I)  BY DEF RetransmitFrom
  <2> HIDE DEF a
  <2>6. Still(c, a)  BY <2>1, <2>4, StillOn
  <2>7. /\ a \in Circuit /\ Idle(a) /\ a.state = c.state /\ a.out = c.out
        /\ a.window = c.window /\ a.pending = c.pending /\ a.localChoked = c.localChoked
        /\ a.got = c.got /\ a.reassembly = c.reassembly
    BY <2>6, StillOn
  <2>8. Resend(a, I) = a
    <3>1. I \in SUBSET DOMAIN a.unacked  OBVIOUS
    <3> HIDE DEF I
    <3> QED  BY <2>7, <3>1, IdleResend
  <2>9. e = a
    <3>1. Pump(a) = a  BY <2>7, IdlePump DEF Idle
    <3> HIDE DEF I
    <3> QED  BY <2>3, <2>5, <2>8, <3>1
  <2>10. Live(c)  BY <1>4 DEF Live
  <2>11. \A k \in DOMAIN e.out : ~IsAck(e.out[k])  BY <1>2, <2>7, <2>9
  <2>12. Reads(c, in, e)  BY <1>1, <2>7, <2>9, <2>10, <2>11, QuietReads
  <2> QED  BY <2>12 DEF e
<1> QED  BY <1>3, <1>4

\* The answer to its Connect Request.
LEMMA AnswerReads ==
    ASSUME NEW c \in Sound, c.out = <<>>, Wary(c), Idle(c), NEW in \in Seq(Packet), in # <<>>,
           in[1].op = "ConnectAcknowledge", IsAccept(in[1]) => in[1].win \in 1 .. MaxWindow
    PROVE  Reads(c, in, OnConnectAcknowledge(c, in[1]))
<1> DEFINE p == in[1]
           key == p.own
           d == [c EXCEPT !.remoteKey = key, !.armed = FALSE]
           w == Lesser(c.window, p.win)
           g == [d EXCEPT !.window = w, !.state = "Connected"]
           e == OnConnectAcknowledge(c, p)
<1>1. c \in Circuit /\ p \in Packet  BY DEF Sound
<1>2. key \in Key /\ p.win \in Nat /\ c.window \in Nat  BY <1>1, PacketFields DEF Circuit
<1>4. CASE c.state # "Connecting"
  <2>1. e = c  BY <1>4 DEF OnConnectAcknowledge
  <2>2. Reads(c, in, c)  BY <1>1, SameReads
  <2> HIDE DEF e
  <2>3. Reads(c, in, e)  BY <2>1, <2>2
  <2> QED  BY <2>3 DEF e
<1>5. CASE c.state = "Connecting" /\ p.choke
  <2>1. e = Close(d, "Refused")  BY <1>5 DEF OnConnectAcknowledge
  <2> HIDE DEF key, e
  <2>2. d \in Circuit /\ d.window = c.window /\ d.pending = c.pending  BY <1>1, <1>2 DEF Circuit
  <2> HIDE DEF d
  <2>3. Reads(c, in, e)  BY <1>1, <2>1, <2>2, CloseReads
  <2> QED  BY <2>3 DEF e
<1>6. CASE c.state = "Connecting" /\ ~p.choke
  <2>1. IsAccept(p) /\ p.win \in 1 .. MaxWindow  BY <1>6 DEF IsAccept
  <2>2. e = Pump(g)  BY <1>6, <2>1 DEF OnConnectAcknowledge
  <2>3. w \in Nat  BY <1>2 DEF Lesser
  <2> HIDE DEF key, w, e
  <2>4. /\ g \in Circuit /\ g.sendQueue = <<>> /\ g.out = <<>> /\ g.window = w
        /\ g.state = "Connected" /\ g.pending = c.pending /\ g.localChoked = c.localChoked
        /\ g.got = c.got /\ g.reassembly = c.reassembly
    <3>1. d \in Circuit /\ d.sendQueue = <<>> /\ d.out = <<>> /\ d.pending = c.pending
          /\ d.localChoked = c.localChoked /\ d.got = c.got /\ d.reassembly = c.reassembly
      BY ZenonT(60), <1>1, <1>2 DEF Circuit, Idle
    <3> HIDE DEF d
    <3> QED  BY ZenonT(60), <2>3, <3>1 DEF Circuit, State
  <2> HIDE DEF g
  <2>5. e = g  BY <2>2, <2>4, IdlePump
  <2>6. Live(c) /\ c.pending \in Nat  BY <1>1, <1>6 DEF Live, Circuit
  <2>7. Guards(e)  BY <2>4, <2>5, <2>6 DEF Guards, Wary
  <2>8. Lightens(c, e)  BY <2>4, <2>5, <2>6 DEF Lightens, Accepted
  <2>9. e.window = Lesser(c.window, in[1].win)  BY <2>4, <2>5 DEF w
  <2>10. Reads(c, in, e)  BY <1>6, <2>1, <2>7, <2>8, <2>9 DEF Reads
  <2> QED  BY <2>10 DEF e
<1> QED  BY <1>4, <1>5, <1>6

\* What the writer says to its reader.
LEMMA PacketReads ==
    ASSUME ChokeThreshold > 0, NEW c \in Sound, c.out = <<>>, Wary(c), Idle(c),
           NEW in \in Seq(Packet), in # <<>>, IsAccept(in[1]) => in[1].win \in 1 .. MaxWindow,
           NEW reaction \in Reaction \ {"reply"}
    PROVE  Reads(c, in, OnPacket(c, in[1], reaction))
<1> DEFINE p == in[1]
           e == OnPacket(c, p, reaction)
<1>1. c \in Circuit /\ p \in Packet  BY DEF Sound
<1>2. p.inc \in Nat /\ p.op \in Opcode  BY <1>1, PacketFields
<1>3. Reads(c, in, c)  BY <1>1, SameReads
<1>4. CASE p.op = "ConnectRequest"
  <2>1. e = OnConnectRequest(c)  BY <1>4 DEF OnPacket
  <2>2. CASE c.state # "Connected"
    <3>1. e = c  BY <2>1, <2>2 DEF OnConnectRequest
    <3> HIDE DEF e
    <3> QED  BY <1>3, <3>1 DEF e
  <2>3. CASE c.state = "Connected"
    <3> DEFINE b == Blank("ConnectAcknowledge", c.remoteKey, c.inc)
               a == [b EXCEPT !.own = c.localKey, !.choke = FALSE, !.win = c.window]
    <3>1. e = Emit(c, <<a>>)
      BY <2>1, <2>3 DEF OnConnectRequest, SendConnectAcknowledge
    <3>2. /\ b \in Packet /\ b.op = "ConnectAcknowledge" /\ c.localKey \in Key /\ c.window \in Nat
          /\ FALSE \in BOOLEAN
      <4>1. "ConnectAcknowledge" \in Opcode /\ c.remoteKey \in Key /\ c.inc \in Nat
            /\ c.localKey \in Key /\ c.window \in Nat
        BY <1>1 DEF Opcode, Circuit
      <4>2. b \in Packet  BY <4>1, BlankType
      <4> QED  BY <4>1, <4>2 DEF Blank
    <3> HIDE DEF b
    <3>3. a \in Packet /\ a.op = "ConnectAcknowledge"  BY <3>2, Zenon DEF Packet
    <3> HIDE DEF a, e
    <3>4. ~IsAck(a)  BY <3>3 DEF IsAck
    <3>5. Reads(c, in, e)  BY <1>1, <3>1, <3>3, <3>4, EmitReads
    <3> QED  BY <3>5 DEF e
  <2> QED  BY <2>2, <2>3
<1>5. CASE p.op = "ConnectAcknowledge"
  <2>1. e = OnConnectAcknowledge(c, p)  BY <1>5 DEF OnPacket
  <2> QED  BY <1>5, <2>1, AnswerReads
<1>6. CASE p.op = "DisconnectRequest"
  <2> DEFINE a == Blank("DisconnectAcknowledge", c.remoteKey, p.inc)
             b == Emit(c, <<a>>)
  <2>1. e = Close(b, "Normal")
    BY <1>6 DEF OnPacket, OnDisconnectRequest, SendDisconnectAcknowledge
  <2>2. a \in Packet /\ ~IsAck(a)
    <3>1. c.remoteKey \in Key  BY <1>1 DEF Circuit
    <3>2. a \in Packet /\ a.op = "DisconnectAcknowledge"  BY <1>2, <3>1, ReflectedIs
    <3> QED  BY <3>2 DEF IsAck
  <2> HIDE DEF a
  <2>3. Reads(c, in, b)  BY <1>1, <2>2, EmitReads
  <2>4. b \in Circuit /\ b.window = c.window /\ b.pending = c.pending /\ b.state = c.state
    <3>1. b \in Circuit  BY <1>1, <2>2, EmitOne DEF Emissions
    <3> QED  BY <1>1, <3>1 DEF Emit, Circuit
  <2> HIDE DEF b, e
  <2>5. CASE c.state = "Disconnected"
    <3>1. e = b  BY <2>1, <2>4, <2>5 DEF Close
    <3> QED  BY <2>3, <3>1 DEF e
  <2>6. CASE c.state # "Disconnected"
    <3>1. Reads(c, in, e)  BY <1>1, <2>1, <2>4, CloseReads
    <3> QED  BY <3>1 DEF e
  <2> QED  BY <2>5, <2>6
<1>7. CASE p.op = "DisconnectAcknowledge"
  <2>1. e = OnDisconnectAcknowledge(c)  BY <1>7 DEF OnPacket
  <2>2. CASE c.state = "Disconnecting"
    <3>1. e = Close(c, "Normal")  BY <2>1, <2>2 DEF OnDisconnectAcknowledge
    <3> HIDE DEF e
    <3>2. Reads(c, in, e)  BY <1>1, <3>1, CloseReads
    <3> QED  BY <3>2 DEF e
  <2>3. CASE c.state # "Disconnecting"
    <3>1. e = c  BY <2>1, <2>3 DEF OnDisconnectAcknowledge
    <3> HIDE DEF e
    <3> QED  BY <1>3, <3>1 DEF e
  <2> QED  BY <2>2, <2>3
<1>8. CASE p.op = "Information"
  <2>1. e = OnInformation(c, p, reaction)  BY <1>8 DEF OnPacket
  <2>2. IsInfo(in[1])  BY <1>8 DEF IsInfo
  <2> QED  BY <2>1, <2>2, InformationReads
<1>9. CASE p.op = "InformationAcknowledge"
  <2>1. e = OnInformationAcknowledge(c, p)  BY <1>9 DEF OnPacket
  <2> HIDE DEF p
  <2>2. Reads(c, in, OnInformationAcknowledge(c, p))  BY <1>1, AcknowledgeReads
  <2> QED  BY <2>1, <2>2 DEF p
<1> QED  BY <1>2, <1>4, <1>5, <1>6, <1>7, <1>8, <1>9 DEF Opcode

\* Whatever the reader does is such a handler.
LEMMA ReaderRuns ==
    ASSUME ChokeThreshold > 0, NEW x, NEW y, NEW xy, NEW yx, Facing(x, y, xy, yx), y.sent # <<>>,
           Wary(x), NEW e \in Evolutions(x), Runs(x, yx, e), e.sent = <<>>
    PROVE  Reads(x, yx, e)
<1>1. /\ x \in Sound /\ x \in Circuit /\ x.out = <<>> /\ xy \in Seq(Packet) /\ yx \in Seq(Packet)
      /\ x.sent = <<>> /\ Direction(x, y, xy, yx) /\ Direction(y, x, yx, xy)
  BY DEF Facing, Sound, Pair
<1>2. Idle(x)  BY <1>1, Unwritten DEF Direction, Idle
<1>3. yx # <<>> => 1 \in DOMAIN yx  BY <1>1
<1>4. yx # <<>> /\ IsAccept(yx[1]) => yx[1].win \in 1 .. MaxWindow
  BY <1>1, <1>3 DEF Direction, Shaken
<1>6. ASSUME e = x PROVE Reads(x, yx, e)  BY <1>1, <1>6, SameReads
<1>7. ASSUME NEW key \in Key, NEW asker \in Nat, NEW p, p = Blank("DisconnectAcknowledge", key, asker),
             e = Emit(x, <<p>>)
      PROVE  Reads(x, yx, e)
  <2>1. p \in Packet /\ p.op = "DisconnectAcknowledge"  BY <1>7, ReflectedIs
  <2> QED  BY <1>1, <1>7, <2>1, EmitReads DEF IsAck
<1>8. ASSUME x.state = "Connected", NEW size \in Nat \ {0}, e = Send(x, size) PROVE FALSE
  BY <1>1, <1>8, SendFills
<1>9. ASSUME x.state \in {"Connecting", "Connected"}, e = Disconnect(x) PROVE Reads(x, yx, e)
  BY <1>1, <1>9, DisconnectReads
<1>10. ASSUME e = OnDeliveryDrained(x) PROVE Reads(x, yx, e)
  BY <1>1, <1>10, DrainedReads
<1>11. ASSUME TimerRunning(x), e = Tick(x) PROVE Reads(x, yx, e)
  BY <1>1, <1>2, <1>11, TickReads
<1>12. ASSUME yx # <<>>, NEW reaction \in Reaction \ {"reply"}, e = OnPacket(x, yx[1], reaction)
       PROVE  Reads(x, yx, e)
  BY <1>1, <1>2, <1>4, <1>12, PacketReads
<1>13. ~(x.state = "Disconnected" /\ x.reason = "None" /\ x.mintedFor # 0)
  BY DEF Facing, Meets, Virgin
<1> QED  BY <1>6, <1>7, <1>8, <1>9, <1>10, <1>11, <1>12, <1>13 DEF Runs

-----------------------------------------------------------------------------
(* Flow control: one step of one end *)

\* An end's step keeps the pace in both directions.
LEMMA PaceKept ==
    ASSUME ChokeThreshold > 0,
           NEW x, NEW y, NEW xy, NEW yx, Facing(x, y, xy, yx), BothPaced(x, y, xy, yx),
           NEW e \in Evolutions(x), Runs(x, yx, e), NEW z, z = AtRest(e),
           NEW p \in Seq(Packet), LeftOf(p, xy \o e.out), NEW q \in Seq(Packet), LeftOf(q, yx),
           Facing(z, y, p, q)
    PROVE  BothPaced(z, y, p, q)
<1>1. /\ x \in Sound /\ x \in Circuit /\ y \in Circuit /\ EndIsSound(y) /\ Counted(y)
      /\ z \in Circuit /\ EndIsSound(z) /\ Counted(z)
      /\ Direction(z, y, p, q) /\ Direction(y, z, q, p)
  BY DEF Facing, Sound, Pair
<1>2. e \in Sound /\ e \in Circuit  BY Transitivity DEF Sound
<1>3. z.sent = e.sent  BY <1>2, RestPace
<1>4. ASSUME y.sent = <<>> PROVE Paced(z, y, p, q)
  <2>1. CASE z.sent = <<>>  BY <1>1, <1>4, <2>1, UnwrittenIsPaced
  <2>2. Paced(x, y, xy, yx)  BY <1>4 DEF BothPaced
  <2>3. CASE ~Live(y)  BY <2>2, <2>3 DEF Paced
  <2>4. CASE z.sent # <<>> /\ Live(y)
    <3>1. Writes(x, yx, e)  BY <1>3, <1>4, <2>4, WriterRuns
    <3> QED  BY <1>2, <2>2, <2>4, <3>1, WriterKeepsPace
  <2> QED  BY <2>1, <2>3, <2>4
<1>5. ASSUME z.sent = <<>> PROVE Paced(y, z, q, p)
  <2>1. CASE y.sent = <<>>  BY <1>1, <1>5, <2>1, UnwrittenIsPaced
  <2>2. CASE y.sent # <<>>
    <3>1. x.sent = <<>>  BY <2>2 DEF Facing
    <3>2. Paced(y, x, yx, xy)  BY <3>1 DEF BothPaced
    <3>3. Wary(x)  BY <3>2 DEF Paced, Wary
    <3>4. Reads(x, yx, e)  BY <1>3, <1>5, <2>2, <3>3, ReaderRuns
    <3> QED  BY <1>2, <2>2, <3>2, <3>4, ReaderKeepsPace
  <2> QED  BY <2>1, <2>2
<1> QED  BY <1>4, <1>5 DEF BothPaced

-----------------------------------------------------------------------------
(* Flow control: the two ends *)

\* The other end is one that has not counted a frame it was not delivered.
LEMMA OtherIsCounted ==
    ASSUME Inv, StreamInv, OneWayInv, circuit # <<>> PROVE Counted(circuit[1]) /\ Counted(Other)
<1>1. 1 \in DOMAIN circuit /\ Newest \in DOMAIN circuit  BY StreamFacts
<1>2. CASE Newest = 1  BY <1>1, <1>2 DEF OneWayInv, Other, Unborn, NewCircuit, Counted
<1>3. CASE Newest # 1  BY <1>1, <1>3 DEF OneWayInv, Other
<1> QED  BY <1>2, <1>3

\* Both ends propose a window.
LEMMA WindowsProposed ==
    ASSUME Inv, StreamInv, circuit # <<>>, \A n \in Node : WindowSize[n] >= 1
    PROVE  circuit[1].windowSize >= 1 /\ Other.windowSize >= 1
<1>1. /\ 1 \in DOMAIN circuit /\ Newest \in DOMAIN circuit /\ Cast /\ Peer \in Node
  BY StreamFacts
<1>2. \A i \in DOMAIN circuit : circuit[i].node \in Node
  BY SoundCircuit DEF Sound, Circuit
<1>3. \A i \in DOMAIN circuit : circuit[i].windowSize >= 1  BY <1>1, <1>2 DEF Cast
<1>4. Unborn.windowSize = WindowSize[Peer]  BY DEF Unborn, NewCircuit
<1> QED  BY <1>1, <1>3, <1>4 DEF Other

\* The ends are as a step of one of them finds them.
LEMMA EndsFacing ==
    ASSUME Inv, StreamInv, OneWayInv, OneWay, \A n \in Node : WindowSize[n] >= 1, circuit # <<>>
    PROVE  Facing(circuit[1], Other, net[To], net[From])
<1> DEFINE c == circuit[1]
           d == Other
           to == net[To]
           from == net[From]
<1>1. Joined(c, d, to, from) /\ to \in Seq(Packet) /\ from \in Seq(Packet)  BY StreamFacts
<1>2. Counted(c) /\ Counted(d)  BY OtherIsCounted
<1>3. c.sent = <<>> \/ d.sent = <<>>  BY OneIsMute
<1>4. c.windowSize >= 1 /\ d.windowSize >= 1  BY WindowsProposed
<1> HIDE DEF c, d, to, from
<1>5. /\ c \in Sound /\ c \in Circuit /\ c.mintedFor = 0 /\ c.out = <<>>
      /\ d \in Sound /\ d \in Circuit /\ d.out = <<>> /\ d.state # "Connecting"
      /\ Pair(c, d, to, from) /\ (c.state = "Connecting" => Virgin(c))
      /\ (Apart(c, d, to) => Clean(c, to, from)) /\ Agreed(c, d)
  BY <1>1, JoinedFacts
<1>6. /\ c.window \in Nat /\ d.window \in Nat
      /\ c.state \in {"Disconnected", "Connecting", "Connected", "Disconnecting"}
      /\ d.state \in {"Disconnected", "Connecting", "Connected", "Disconnecting"}
  BY <1>5 DEF Circuit, State
<1>7. Open(c) /\ Live(d) => c.window = d.window
  BY <1>4, <1>5, <1>6 DEF Agreed, Open, Live
<1>8. Open(d) /\ Live(c) => d.window <= c.window
  <2>1. Open(d) /\ Open(c) => c.window = d.window  BY <1>4, <1>5 DEF Agreed
  <2>2. Open(d) /\ c.state = "Connecting" => d.window <= c.window  BY <1>4, <1>5 DEF Agreed
  <2> QED  BY <1>6, <2>1, <2>2 DEF Live, Open
<1>9. d.state = "Disconnected" /\ d.reason = "None" => Virgin(c)  BY <1>5 DEF Apart, Clean
<1>10. Meets(c, d)  BY <1>5, <1>6, <1>7 DEF Meets
<1>11. Meets(d, c)  BY <1>5, <1>8, <1>9 DEF Meets
<1>12. Facing(c, d, to, from)  BY <1>1, <1>2, <1>3, <1>5, <1>10, <1>11 DEF Facing
<1> QED  BY <1>12 DEF c, d, to, from

\* Where each end is after the other moved, or none.
Places(c, d) == circuit' # <<>> /\ circuit'[1] = c /\ Other' = d /\ To' = To /\ From' = From

LEMMA OpenerPlaces ==
    ASSUME Inv, StreamInv, circuit # <<>>, NEW e \in Evolutions(circuit[1]), Update(1, e)
    PROVE  Places(AtRest(e), Other)
<1> DEFINE d == AtRest(e)
<1>1. /\ circuit \in Seq(Circuit) /\ Newest \in Nat /\ Newest >= 1
      /\ DOMAIN circuit = 1 .. Newest /\ 1 \in DOMAIN circuit /\ Newest \in DOMAIN circuit
  BY StreamFacts
<1>2. d \in Sound /\ SameIdentity(circuit[1], d)
  BY Transitivity, RestFields DEF Evolutions, SameIdentity
<1>3. circuit' = [circuit EXCEPT ![1] = d]  BY DEF Update
<1> HIDE DEF d
<1>4. /\ circuit' \in Seq(Circuit) /\ Len(circuit') = Len(circuit)
      /\ \A j \in 1 .. Len(circuit) : circuit'[j] = IF j = 1 THEN d ELSE circuit[j]
  BY <1>1, <1>2, <1>3, ExceptSeq DEF Sound, Newest
<1>5. Newest' = Newest /\ circuit'[1] = d /\ (Newest # 1 => circuit'[Newest] = circuit[Newest])
  BY <1>1, <1>4 DEF Newest
<1>6. circuit' # <<>>
  <2>1. Len(circuit') >= 1  BY <1>1, <1>4 DEF Newest
  <2>2. circuit' = <<>> => Len(circuit') = 0  OBVIOUS
  <2> QED  BY <2>1, <2>2
<1>7. Origin' = Origin /\ Peer' = Peer  BY <1>2, <1>5 DEF Origin, Peer, SameIdentity
<1>8. To' = To /\ From' = From  BY <1>7 DEF To, From
<1>9. KeyOf(circuit[1])' = KeyOf(circuit[1])  BY <1>2, <1>5 DEF KeyOf, SameIdentity
<1>10. Unborn' = Unborn  BY <1>7, <1>9 DEF Unborn
<1>11. Other' = Other  BY <1>5, <1>10 DEF Other
<1> QED  BY <1>5, <1>6, <1>8, <1>11 DEF Places, d

LEMMA PeerPlaces ==
    ASSUME Inv, StreamInv, circuit # <<>>, Newest # 1, NEW e \in Evolutions(circuit[Newest]),
           Update(Newest, e)
    PROVE  Places(circuit[1], AtRest(e))
<1> DEFINE d == AtRest(e)
<1>1. /\ circuit \in Seq(Circuit) /\ Newest \in Nat /\ Newest >= 1
      /\ DOMAIN circuit = 1 .. Newest /\ 1 \in DOMAIN circuit /\ Newest \in DOMAIN circuit
  BY StreamFacts
<1>2. d \in Sound  BY Transitivity, RestFields DEF Evolutions
<1>3. circuit' = [circuit EXCEPT ![Newest] = d]  BY DEF Update
<1> HIDE DEF d
<1>4. /\ circuit' \in Seq(Circuit) /\ Len(circuit') = Len(circuit)
      /\ \A j \in 1 .. Len(circuit) : circuit'[j] = IF j = Newest THEN d ELSE circuit[j]
  BY SMTT(60), <1>1, <1>2, <1>3, ExceptSeq DEF Sound, Newest
<1>5. Newest' = Newest /\ circuit'[1] = circuit[1] /\ circuit'[Newest] = d
  BY <1>1, <1>4 DEF Newest
<1>6. circuit' # <<>>
  <2>1. Len(circuit') >= 1  BY <1>1, <1>4 DEF Newest
  <2>2. circuit' = <<>> => Len(circuit') = 0  OBVIOUS
  <2> QED  BY SMTT(60), <2>1, <2>2
<1>7. Origin' = Origin /\ Peer' = Peer  BY <1>5 DEF Origin, Peer
<1>8. To' = To /\ From' = From  BY <1>7 DEF To, From
<1>9. Other' = d  BY <1>5 DEF Other
<1> QED  BY <1>5, <1>6, <1>8, <1>9 DEF Places, d

LEMMA SamePlaces ==
    ASSUME circuit # <<>>, circuit' = circuit PROVE Places(circuit[1], Other)
<1>1. Newest' = Newest /\ Origin' = Origin /\ Peer' = Peer  BY DEF Newest, Origin, Peer
<1>2. To' = To /\ From' = From /\ KeyOf(circuit[1])' = KeyOf(circuit[1])
  BY <1>1 DEF To, From, KeyOf
<1>3. Unborn' = Unborn  BY <1>1, <1>2 DEF Unborn
<1>4. Other' = Other  BY <1>1, <1>3 DEF Other
<1> QED  BY <1>2, <1>4 DEF Places

\* A step of one end.
OpenerMoves ==
    \E e \in Evolutions(circuit[1]) :
        /\ Runs(circuit[1], net[From], e) /\ Places(AtRest(e), Other)
        /\ LeftOf(net'[To], net[To] \o e.out) /\ LeftOf(net'[From], net[From])

PeerMoves ==
    \E e \in Evolutions(Other) :
        /\ Runs(Other, net[To], e) /\ Places(circuit[1], AtRest(e))
        /\ LeftOf(net'[From], net[From] \o e.out) /\ LeftOf(net'[To], net[To])

\* A local call or the timer of the opener, and a packet it receives.
LEMMA OpenerCalled ==
    ASSUME Inv, StreamInv, circuit # <<>>, NEW e \in Evolutions(circuit[1]),
           Runs(circuit[1], net[From], e), LocalStep(1, e)
    PROVE  OpenerMoves
<1>1. /\ To \in Link /\ From \in Link /\ To # From
      /\ net[To] \in Seq(Packet) /\ net[From] \in Seq(Packet)
  BY StreamFacts
<1>2. Update(1, e) /\ Ship(e.node, e.remoteNode, e.out)  BY DEF LocalStep
<1>3. e.node = Origin /\ e.remoteNode = Peer  BY DEF Evolutions, SameIdentity, Origin, Peer
<1>4. e.out \in Seq(Packet)  BY AtRestType DEF Evolutions
<1>5. Ship(Origin, Peer, e.out) /\ NetTypes  BY <1>2, <1>3 DEF Inv
<1>6. /\ LeftOf(net'[To], net[To] \o e.out)
      /\ \A l \in Link \ {To} : net'[l] = net[l]
  BY <1>1, <1>4, <1>5, ShipLeft DEF To
<1>7. LeftOf(net'[From], net[From])  BY <1>1, <1>6, LeftSelf
<1>8. Places(AtRest(e), Other)  BY <1>2, OpenerPlaces
<1> QED  BY <1>6, <1>7, <1>8 DEF OpenerMoves

LEMMA OpenerHandles ==
    ASSUME Inv, StreamInv, circuit # <<>>, net[From] # <<>>, NEW e \in Evolutions(circuit[1]),
           Runs(circuit[1], net[From], e), Update(1, e),
           Exchange(Peer, Origin, 1, e.remoteNode, e.out)
    PROVE  OpenerMoves
<1>1. To \in Link /\ From \in Link  BY StreamFacts
<1>2. Exchange(Peer, Origin, 1, Peer, e.out) /\ NetTypes
  BY DEF Evolutions, SameIdentity, Peer, Inv
<1>3. e.out \in Seq(Packet)  BY AtRestType DEF Evolutions
<1>4. LeftOf(net'[From], net[From]) /\ LeftOf(net'[To], net[To] \o e.out)
  BY <1>1, <1>2, <1>3, ExchangeLeft DEF To, From
<1>5. Places(AtRest(e), Other)  BY OpenerPlaces
<1> QED  BY <1>4, <1>5 DEF OpenerMoves

\* A packet for no circuit at the opener's node, answered or not.
LEMMA OpenerAnswers ==
    ASSUME Inv, StreamInv, circuit # <<>>, net[From] # <<>>, NEW e \in Evolutions(circuit[1]),
           Runs(circuit[1], net[From], e), AtRest(e) = circuit[1],
           Answer(Origin, Peer, 1, e.out)
    PROVE  OpenerMoves
<1>1. To \in Link /\ From \in Link  BY StreamFacts
<1>2. Exchange(Peer, Origin, 1, Peer, e.out) /\ UNCHANGED tables /\ NetTypes  BY DEF Answer, Inv
<1>3. e.out \in Seq(Packet)  BY AtRestType DEF Evolutions
<1>4. LeftOf(net'[From], net[From]) /\ LeftOf(net'[To], net[To] \o e.out)
  BY <1>1, <1>2, <1>3, ExchangeLeft DEF To, From
<1>5. Places(AtRest(e), Other)  BY <1>2, SamePlaces DEF tables
<1> QED  BY <1>4, <1>5 DEF OpenerMoves

\* A local call or the timer of the peer, and a packet it receives.
LEMMA PeerCalled ==
    ASSUME Inv, StreamInv, circuit # <<>>, Newest # 1, NEW e \in Evolutions(circuit[Newest]),
           Runs(circuit[Newest], net[To], e), LocalStep(Newest, e)
    PROVE  PeerMoves
<1>1. /\ Newest \in DOMAIN circuit /\ To \in Link /\ From \in Link /\ To # From
      /\ net[To] \in Seq(Packet) /\ net[From] \in Seq(Packet) /\ Cast
  BY StreamFacts
<1>2. Update(Newest, e) /\ Ship(e.node, e.remoteNode, e.out)  BY DEF LocalStep
<1>3. e.node = Peer /\ e.remoteNode = Origin
  BY <1>1 DEF Evolutions, SameIdentity, Cast, MintedFrom, Origin, Peer
<1>4. e.out \in Seq(Packet)  BY AtRestType DEF Evolutions
<1>5. Ship(Peer, Origin, e.out) /\ NetTypes  BY <1>2, <1>3 DEF Inv
<1>6. /\ LeftOf(net'[From], net[From] \o e.out)
      /\ \A l \in Link \ {From} : net'[l] = net[l]
  BY <1>1, <1>4, <1>5, ShipLeft DEF From
<1>7. LeftOf(net'[To], net[To])  BY <1>1, <1>6, LeftSelf
<1>8. Places(circuit[1], AtRest(e))  BY <1>2, PeerPlaces
<1>9. Other = circuit[Newest]  BY DEF Other
<1> QED  BY <1>6, <1>7, <1>8, <1>9 DEF PeerMoves

LEMMA PeerHandles ==
    ASSUME Inv, StreamInv, circuit # <<>>, net[To] # <<>>, Newest # 1,
           NEW e \in Evolutions(circuit[Newest]), Runs(circuit[Newest], net[To], e),
           Update(Newest, e), Exchange(Origin, Peer, 1, e.remoteNode, e.out)
    PROVE  PeerMoves
<1>1. Newest \in DOMAIN circuit /\ To \in Link /\ From \in Link /\ Cast  BY StreamFacts
<1>2. e.remoteNode = Origin
  BY <1>1 DEF Evolutions, SameIdentity, Cast, MintedFrom, Origin
<1>3. Exchange(Origin, Peer, 1, Origin, e.out) /\ NetTypes  BY <1>2 DEF Inv
<1>4. e.out \in Seq(Packet)  BY AtRestType DEF Evolutions
<1>5. LeftOf(net'[To], net[To]) /\ LeftOf(net'[From], net[From] \o e.out)
  BY <1>1, <1>3, <1>4, ExchangeLeft DEF To, From
<1>6. Places(circuit[1], AtRest(e))  BY PeerPlaces
<1>7. Other = circuit[Newest]  BY DEF Other
<1> QED  BY <1>5, <1>6, <1>7 DEF PeerMoves

\* A packet for no circuit at the peer's node, answered or not.
LEMMA PeerAnswers ==
    ASSUME Inv, StreamInv, circuit # <<>>, net[To] # <<>>, NEW e \in Evolutions(Other),
           Runs(Other, net[To], e), AtRest(e) = Other, Answer(Peer, Origin, 1, e.out)
    PROVE  PeerMoves
<1>1. To \in Link /\ From \in Link  BY StreamFacts
<1>2. Exchange(Origin, Peer, 1, Origin, e.out) /\ UNCHANGED tables /\ NetTypes  BY DEF Answer, Inv
<1>3. e.out \in Seq(Packet)  BY AtRestType DEF Evolutions
<1>4. LeftOf(net'[To], net[To]) /\ LeftOf(net'[From], net[From] \o e.out)
  BY <1>1, <1>2, <1>3, ExchangeLeft DEF To, From
<1>5. Places(circuit[1], AtRest(e))  BY <1>2, SamePlaces DEF tables
<1> QED  BY <1>4, <1>5 DEF PeerMoves

\* An end that does nothing.
LEMMA Standing ==
    ASSUME Inv, StreamInv, circuit # <<>>
    PROVE  /\ circuit[1] \in Evolutions(circuit[1]) /\ Runs(circuit[1], net[From], circuit[1])
           /\ AtRest(circuit[1]) = circuit[1] /\ circuit[1].out = <<>>
           /\ Other \in Evolutions(Other) /\ Runs(Other, net[To], Other)
           /\ AtRest(Other) = Other /\ Other.out = <<>>
<1>1. /\ circuit[1] \in Sound /\ circuit[1].out = <<>> /\ Other \in Sound /\ Other.out = <<>>
  BY StreamFacts DEF Joined, Roles
<1>2. AtRest(circuit[1]) = circuit[1] /\ AtRest(Other) = Other  BY <1>1, RestFields
<1> QED  BY <1>1, <1>2 DEF Evolutions, SameIdentity, Runs

\* A packet the opener's node receives moves the opener.
LEMMA OpenerTakes ==
    ASSUME Inv, StreamInv, circuit # <<>>, net[From] # <<>>, NEW p, p = net[From][1], p \in Packet,
           p.key \in Key, p.inc \in Nat, NEW r \in Reaction, r # "reply",
           NEW j, j = byLocalKey[Origin][p.key],
           \/ j # 0 /\ Handle(Origin, Peer, 1, p, j, r)
           \/ j = 0 /\ Reflect(Origin, Peer, 1, p)
    PROVE  OpenerMoves
<1>1. 1 \in DOMAIN circuit  BY StreamFacts
<1>2. circuit[1] \in Sound  BY <1>1, SoundCircuit
<1>3. CASE j # 0
  <2> DEFINE e == OnPacket(circuit[1], p, r)
  <2>1. j = 1  BY <1>3, RoutedToOpener
  <2>2. e \in Evolutions(circuit[1])  BY <1>2, OnPacketType
  <2>3. Update(1, e) /\ Exchange(Peer, Origin, 1, e.remoteNode, e.out)
    BY <1>3, <2>1 DEF Handle
  <2>4. Runs(circuit[1], net[From], e)  BY DEF Runs
  <2> HIDE DEF e
  <2> QED  BY <2>2, <2>3, <2>4, OpenerHandles
<1>4. CASE j = 0 /\ p.op = "DisconnectRequest"
  <2> DEFINE c == circuit[1]
             came == net[From]
             key == p.key
             asker == p.inc
             ack == Blank("DisconnectAcknowledge", key, asker)
             e == Emit(c, <<ack>>)
  <2>1. c.out = <<>> /\ c \in Sound  BY Standing DEF Evolutions
  <2>2. Answer(Origin, Peer, 1, <<ack>>)  BY <1>4 DEF Reflect
  <2> HIDE DEF c, came, key, asker, ack
  <2>3. /\ ack = Blank("DisconnectAcknowledge", key, asker) /\ e = Emit(c, <<ack>>)
        /\ key \in Key /\ asker \in Nat
    BY DEF ack, key, asker
  <2> HIDE DEF e
  <2>4. ack \in Packet /\ c \in Circuit /\ EndIsSound(c)
    BY <2>1, <2>3, ReflectedIs DEF Sound
  <2>5. AtRest(e) = c /\ e.out = <<ack>> /\ e \in Evolutions(c)
    BY <2>1, <2>3, <2>4, EmitAtRest
  <2>6. Runs(c, came, e)  BY <2>3 DEF Runs
  <2> QED  BY <2>2, <2>5, <2>6, OpenerAnswers DEF c, came
<1>5. CASE j = 0 /\ p.op # "DisconnectRequest"
  <2>1. Answer(Origin, Peer, 1, <<>>)  BY <1>5 DEF Reflect
  <2> QED  BY <2>1, Standing, OpenerAnswers
<1> QED  BY <1>3, <1>4, <1>5

\* A packet the peer's node receives moves the peer, unless it mints another.
LEMMA PeerTakes ==
    ASSUME Inv, StreamInv, circuit # <<>>, net[To] # <<>>, NEW p, p = net[To][1], p \in Packet,
           p.key \in Key, p.inc \in Nat, NEW r \in Reaction, r # "reply",
           NEW j, j = byLocalKey[Peer][p.key],
           \/ j # 0 /\ Handle(Peer, Origin, 1, p, j, r)
           \/ j = 0 /\ Reflect(Peer, Origin, 1, p)
    PROVE  PeerMoves
<1>1. CASE j # 0
  <2> DEFINE e == OnPacket(circuit[Newest], p, r)
  <2>1. j = Newest /\ Newest # 1 /\ circuit[Newest] \in Sound  BY <1>1, RoutedToPeer
  <2>2. e \in Evolutions(circuit[Newest])  BY <2>1, OnPacketType
  <2>3. Update(Newest, e) /\ Exchange(Origin, Peer, 1, e.remoteNode, e.out)
    BY <1>1, <2>1 DEF Handle
  <2>4. Runs(circuit[Newest], net[To], e)  BY DEF Runs
  <2> HIDE DEF e
  <2> QED  BY <2>1, <2>2, <2>3, <2>4, PeerHandles
<1>2. CASE j = 0 /\ p.op = "DisconnectRequest"
  <2> DEFINE c == Other
             came == net[To]
             key == p.key
             asker == p.inc
             ack == Blank("DisconnectAcknowledge", key, asker)
             e == Emit(c, <<ack>>)
  <2>1. c.out = <<>> /\ c \in Sound  BY Standing DEF Evolutions
  <2>2. Answer(Peer, Origin, 1, <<ack>>)  BY <1>2 DEF Reflect
  <2> HIDE DEF c, came, key, asker, ack
  <2>3. /\ ack = Blank("DisconnectAcknowledge", key, asker) /\ e = Emit(c, <<ack>>)
        /\ key \in Key /\ asker \in Nat
    BY DEF ack, key, asker
  <2> HIDE DEF e
  <2>4. ack \in Packet /\ c \in Circuit /\ EndIsSound(c)
    BY <2>1, <2>3, ReflectedIs DEF Sound
  <2>5. AtRest(e) = c /\ e.out = <<ack>> /\ e \in Evolutions(c)
    BY <2>1, <2>3, <2>4, EmitAtRest
  <2>6. Runs(c, came, e)  BY <2>3 DEF Runs
  <2> QED  BY <2>2, <2>5, <2>6, PeerAnswers DEF c, came
<1>3. CASE j = 0 /\ p.op # "DisconnectRequest"
  <2>1. Answer(Peer, Origin, 1, <<>>)  BY <1>3 DEF Reflect
  <2> QED  BY <2>1, Standing, PeerAnswers
<1> QED  BY <1>1, <1>2, <1>3

\* No data was ever sent between the ends there are.
Restarts == circuit' # <<>> /\ circuit'[1].sent = <<>> /\ Other'.sent = <<>>

\* A Connect Request mints another peer only where the one before is gone.
LEMMA MintRestarts ==
    ASSUME Inv, StreamInv, circuit # <<>>, net[To] # <<>>, NEW p, p = net[To][1], p \in Packet,
           p.op = "ConnectRequest", byPeerKey[Peer][<<Origin, p.key>>] = 0, AllComply,
           NEW c, circuit' = Append(circuit, c)
    PROVE  Restarts
<1>1. /\ circuit \in Seq(Circuit) /\ Newest \in Nat /\ Newest >= 1 /\ DOMAIN circuit = 1 .. Newest
      /\ 1 \in DOMAIN circuit /\ net[To] \in Seq(Packet) /\ net[From] \in Seq(Packet)
      /\ Joined(circuit[1], Other, net[To], net[From])
  BY StreamFacts
<1>2. <<Origin, p.key>> = KeyOf(circuit[1])  BY ToPeer DEF KeyOf, Origin
<1>3. Apart(circuit[1], Other, net[To])  BY <1>2, PeerIsGone
<1>4. circuit[1].sent = <<>>  BY <1>1, <1>3, JoinedFacts DEF Clean, Virgin
<1>5. /\ Len(circuit') = Newest + 1 /\ DOMAIN circuit' = 1 .. Newest + 1
      /\ circuit'[1] = circuit[1] /\ circuit'[Newest + 1] = c
  BY <1>1 DEF Newest
<1>6. /\ Newest' = Newest + 1 /\ Newest + 1 # 1 /\ Newest + 1 \in DOMAIN circuit' \ DOMAIN circuit
  BY <1>1, <1>5 DEF Newest
<1>7. Other' = c /\ circuit' # <<>>
  <2>1. Other' = c  BY <1>5, <1>6 DEF Other
  <2>2. Len(circuit') # 0  BY <1>1, <1>5
  <2>3. circuit' = <<>> => Len(circuit') = 0  OBVIOUS
  <2> QED  BY <2>1, <2>2, <2>3
<1>8. c.sent = <<>>  BY <1>5, <1>6 DEF AllComply, Untouched
<1> QED  BY <1>4, <1>5, <1>7, <1>8 DEF Restarts

\* What the receipt of any packet does to the ends.
LEMMA ReceiveMoves ==
    ASSUME Inv, StreamInv, OneStream, OneWay, AllComply,
           NEW from \in Node, NEW n \in Node, <<from, n>> \in Link, Receive(from, n)
    PROVE  circuit # <<>> /\ (OpenerMoves \/ PeerMoves \/ Restarts)
<1>1. PICK i \in Deliverable(<<from, n>>) :
          \/ \E d \in {"accept", "refuse", "defer"} : ReceiveConnectRequest(from, n, i, d)
          \/ \E r \in Reactions : ReceiveOther(from, n, i, r)
  BY DEF Receive
<1> DEFINE p == net[<<from, n>>][1]
<1>2. /\ i = 1 /\ circuit # <<>> /\ net[<<from, n>>] # <<>>
      /\ \/ from = Origin /\ n = Peer /\ <<from, n>> = To
         \/ from = Peer /\ n = Origin /\ <<from, n>> = From
      /\ p \in Packet /\ p.key \in Key /\ p.inc \in Nat
  BY <1>1, Arrival
<1>3. CASE \E d \in {"accept", "refuse", "defer"} : ReceiveConnectRequest(from, n, i, d)
  <2>1. PICK d \in {"accept", "refuse", "defer"} : ReceiveConnectRequest(from, n, i, d)
    BY <1>3
  <2> DEFINE j == byPeerKey[n][<<from, p.key>>]
  <2>2. p.op = "ConnectRequest"  BY <1>2, <2>1 DEF ReceiveConnectRequest
  <2>3. \/ j # 0 /\ Handle(n, from, 1, p, j, "drain")
        \/ j = 0 /\ Drop(n, from, 1)
        \/ j = 0 /\ MintInbound(n, from, 1, p, d)
    BY <1>2, <2>1 DEF ReceiveConnectRequest
  <2>4. from = Origin /\ n = Peer /\ <<from, n>> = To  BY <1>2, <2>2, ToOpener
  <2> HIDE DEF p
  <2>5. p = net[To][1] /\ net[To] # <<>>  BY <1>2, <2>4 DEF p
  <2>6. ASSUME j # 0, Handle(n, from, 1, p, j, "drain") PROVE PeerMoves
    <3>1. <<from, p.key>> \in Node \X Key  BY <1>2
    <3> HIDE DEF j
    <3>2. j \in DOMAIN circuit /\ byLocalKey[n][circuit[j].localKey] = j
      BY <2>6, <3>1, PeerEntry DEF Inv, j
    <3>3. circuit[j].localKey \in Key  BY <3>2, CircuitIsSound DEF Inv
    <3>4. /\ j = Newest /\ Newest # 1 /\ circuit[Newest] \in Sound
      BY <1>2, <2>4, <2>6, <3>2, <3>3, RoutedToPeer
    <3> DEFINE e == OnPacket(circuit[Newest], p, "drain")
    <3>5. "drain" \in Reaction \ {"reply"}  BY DEF Reaction
    <3>6. e \in Evolutions(circuit[Newest])  BY <1>2, <3>4, <3>5, OnPacketType
    <3>7. Update(Newest, e) /\ Exchange(Origin, Peer, 1, e.remoteNode, e.out)
      BY <2>4, <2>6, <3>4 DEF Handle
    <3>8. Runs(circuit[Newest], net[To], e)  BY <2>5, <3>5 DEF Runs
    <3> HIDE DEF e
    <3> QED  BY <1>2, <2>5, <3>4, <3>6, <3>7, <3>8, PeerHandles
  <2>7. ASSUME Drop(n, from, 1) PROVE PeerMoves
    <3>1. Answer(Peer, Origin, 1, <<>>)  BY <2>4, <2>7 DEF Drop
    <3> QED  BY <1>2, <2>5, <3>1, Standing, PeerAnswers
  <2>8. ASSUME j = 0, MintInbound(n, from, 1, p, d) PROVE Restarts
    <3>1. PICK c : circuit' = Append(circuit, c)  BY <2>8, Zenon DEF MintInbound
    <3> QED  BY <1>2, <2>2, <2>4, <2>5, <2>8, <3>1, MintRestarts
  <2> QED  BY <1>2, <2>3, <2>6, <2>7, <2>8
<1>4. CASE \E r \in Reactions : ReceiveOther(from, n, i, r)
  <2>1. PICK r \in Reactions : ReceiveOther(from, n, i, r)  BY <1>4
  <2> DEFINE j == byLocalKey[n][p.key]
  <2>2. r \in Reaction /\ r # "reply"  BY NetworkAssumption DEF Reaction, OneWay
  <2>3. \/ j # 0 /\ Handle(n, from, 1, p, j, r)
        \/ j = 0 /\ Reflect(n, from, 1, p)
    BY <1>2, <2>1 DEF ReceiveOther
  <2> HIDE DEF p
  <2>4. CASE from = Origin /\ n = Peer /\ <<from, n>> = To
    <3>1. p = net[To][1]  BY <2>4 DEF p
    <3> QED  BY <1>2, <2>2, <2>3, <2>4, <3>1, PeerTakes
  <2>5. CASE from = Peer /\ n = Origin /\ <<from, n>> = From
    <3>1. p = net[From][1]  BY <2>5 DEF p
    <3> QED  BY <1>2, <2>2, <2>3, <2>5, <3>1, OpenerTakes
  <2> QED  BY <1>2, <2>4, <2>5
<1> QED  BY <1>1, <1>3, <1>4, <1>2

\* The network loses a packet: as if the opener had done nothing.
LEMMA LossMoves ==
    ASSUME Inv, StreamInv, NEW l \in Link, Lose(l)
    PROVE  circuit # <<>> /\ OpenerMoves
<1>1. net[l] # <<>> /\ net' = [net EXCEPT ![l] = Tail(net[l])] /\ UNCHANGED tables  BY DEF Lose
<1>2. circuit # <<>> /\ l \in {To, From}  BY <1>1, BusyLinks
<1>3. /\ To \in Link /\ From \in Link /\ To # From
      /\ net[To] \in Seq(Packet) /\ net[From] \in Seq(Packet)
  BY <1>2, StreamFacts
<1>4. net \in [Link -> Seq(Packet)]  BY DEF Inv, NetTypes
<1>5. LeftOf(Tail(net[l]), net[l])  BY <1>1, <1>4, TakenLeft
<1>6. /\ net'[l] = Tail(net[l])
      /\ \A k \in Link \ {l} : net'[k] = net[k]
  BY <1>1, <1>4
<1>7. LeftOf(net'[To], net[To]) /\ LeftOf(net'[From], net[From])
  <2>1. LeftOf(net[To], net[To]) /\ LeftOf(net[From], net[From])  BY <1>3, LeftSelf
  <2> QED  BY <1>2, <1>3, <1>5, <1>6, <2>1
<1>8. net[To] \o <<>> = net[To]  BY <1>3
<1>9. Places(circuit[1], Other)  BY <1>1, <1>2, SamePlaces DEF tables
<1>10. /\ circuit[1] \in Evolutions(circuit[1]) /\ Runs(circuit[1], net[From], circuit[1])
       /\ AtRest(circuit[1]) = circuit[1] /\ circuit[1].out = <<>>
  BY <1>2, Standing
<1> QED  BY <1>2, <1>7, <1>8, <1>9, <1>10 DEF OpenerMoves

\* So is a step that changes nothing.
LEMMA StutterMoves ==
    ASSUME Inv, StreamInv, circuit # <<>>, UNCHANGED vars PROVE OpenerMoves
<1>1. circuit' = circuit /\ net' = net  BY DEF vars
<1>2. net[To] \in Seq(Packet) /\ net[From] \in Seq(Packet)  BY StreamFacts
<1>3. LeftOf(net'[To], net[To]) /\ LeftOf(net'[From], net[From])  BY <1>1, <1>2, LeftSelf
<1>4. net[To] \o <<>> = net[To]  BY <1>2
<1>5. Places(circuit[1], Other)  BY <1>1, SamePlaces
<1>6. /\ circuit[1] \in Evolutions(circuit[1]) /\ Runs(circuit[1], net[From], circuit[1])
      /\ AtRest(circuit[1]) = circuit[1] /\ circuit[1].out = <<>>
  BY Standing
<1> QED  BY <1>3, <1>4, <1>5, <1>6 DEF OpenerMoves

\* A local call or the timer runs on one of the two ends.
LEMMA EndCalled ==
    ASSUME Inv, StreamInv, NEW i \in DOMAIN circuit, circuit[i].reason = "None" \/ i \in {1, Newest},
           NEW e \in Evolutions(circuit[i]), \A came : Runs(circuit[i], came, e), LocalStep(i, e)
    PROVE  OpenerMoves \/ PeerMoves
<1>1. circuit # <<>>  OBVIOUS
<1>2. i \in {1, Newest}  BY LiveEnds
<1>3. CASE i = 1
  <2>1. Runs(circuit[1], net[From], e)  BY <1>3
  <2> QED  BY <1>1, <1>3, <2>1, OpenerCalled
<1>4. CASE i # 1
  <2>1. i = Newest /\ Newest # 1  BY <1>2, <1>4
  <2>2. Runs(circuit[Newest], net[To], e)  BY <2>1
  <2> QED  BY <1>1, <2>1, <2>2, PeerCalled
<1> QED  BY <1>3, <1>4

\* What an application, the host or a timer does to the ends.
LEMMA CallMoves ==
    ASSUME Inv, StreamInv, OneWayInv, NEW i \in DOMAIN circuit, AppStep(i) \/ TickCircuit(i)
    PROVE  OpenerMoves \/ PeerMoves
<1> DEFINE c == circuit[i]
<1>1. c \in Sound /\ c \in Circuit /\ circuit # <<>> /\ EndIsSound(c)
  BY SoundCircuit DEF Sound
<1>2. ASSUME NEW size \in FrameSizes, AppSend(i, size) PROVE OpenerMoves \/ PeerMoves
  <2> DEFINE e == Send(c, size)
  <2>1. c.state = "Connected" /\ LocalStep(i, e)  BY <1>2 DEF AppSend
  <2>2. size \in Nat \ {0} /\ size \in Nat  BY NetworkAssumption
  <2>3. e \in Evolutions(c)  BY <1>1, <2>2, SendType, Transitivity
  <2>4. c.reason = "None"  BY <1>1, <2>1 DEF EndIsSound
  <2>5. \A came : Runs(c, came, e)  BY <2>1, <2>2 DEF Runs
  <2> HIDE DEF e
  <2> QED  BY <2>1, <2>3, <2>4, <2>5, EndCalled
<1>3. ASSUME AppDisconnect(i) PROVE OpenerMoves \/ PeerMoves
  <2> DEFINE e == Disconnect(c)
  <2>1. c.state \in {"Connecting", "Connected"} /\ LocalStep(i, e)
    BY <1>3, NetworkAssumption DEF AppDisconnect
  <2>2. e \in Evolutions(c)  BY <1>1, DisconnectType
  <2>3. c.reason = "None"  BY <1>1, <2>1 DEF EndIsSound
  <2>4. \A came : Runs(c, came, e)  BY <2>1 DEF Runs
  <2> HIDE DEF e
  <2> QED  BY <2>1, <2>2, <2>3, <2>4, EndCalled
<1>4. ASSUME AppDrain(i) PROVE OpenerMoves \/ PeerMoves
  <2> DEFINE e == OnDeliveryDrained(c)
  <2>1. c.pending > 0 /\ LocalStep(i, e)  BY <1>4 DEF AppDrain
  <2>2. i \in {1, Newest}
    <3>1. c.got # <<>>  BY <2>1 DEF OneWayInv, Counted
    <3> QED  BY <1>1, <3>1, StreamFacts DEF Cast, Gone
  <2>3. e \in Evolutions(c)  BY <1>1, OnDeliveryDrainedType, Transitivity
  <2>4. \A came : Runs(c, came, e)  BY DEF Runs
  <2> HIDE DEF e
  <2> QED  BY <2>1, <2>2, <2>3, <2>4, EndCalled
<1>5. ASSUME AcceptIncoming(i) PROVE OpenerMoves \/ PeerMoves
  <2> DEFINE w == Clamp(WindowSize[c.remoteNode], 1, MaxWindow)
             k == c.peerKey[2]
             e == AcceptInbound(c, k, w)
  <2>1. Deferred(i) /\ LocalStep(i, e)  BY <1>5 DEF AcceptIncoming
  <2>2. /\ c.state = "Disconnected" /\ c.reason = "None" /\ c.mintedFor # 0
        /\ k \in Key /\ c.remoteNode \in Node
    BY <2>1, DeferredFacts DEF Deferred
  <2>3. w \in Nat
    <3>1. WindowSize[c.remoteNode] \in Nat  BY <2>2, NetworkAssumption
    <3> QED  BY <3>1, HorizonFacts DEF Clamp
  <2> HIDE DEF w, k
  <2>4. e \in Evolutions(c)  BY <1>1, <2>2, <2>3, AcceptInboundType
  <2>5. \A came : Runs(c, came, e)  BY <2>2, <2>3 DEF Runs
  <2> HIDE DEF e
  <2> QED  BY <2>1, <2>2, <2>4, <2>5, EndCalled
<1>6. ASSUME RefuseIncoming(i) PROVE OpenerMoves \/ PeerMoves
  <2> DEFINE k == c.peerKey[2]
             e == [RefuseInbound(c, k) EXCEPT !.reason = "Refused"]
  <2>1. Deferred(i) /\ LocalStep(i, e)  BY <1>6 DEF RefuseIncoming
  <2>2. c.state = "Disconnected" /\ c.reason = "None" /\ c.mintedFor # 0 /\ k \in Key
    BY <2>1, DeferredFacts DEF Deferred
  <2> HIDE DEF k
  <2>3. e \in Evolutions(c)  BY <1>1, <2>2, RefuseInboundType
  <2>4. \A came : Runs(c, came, e)  BY <2>2 DEF Runs
  <2> HIDE DEF e
  <2> QED  BY <2>1, <2>2, <2>3, <2>4, EndCalled
<1>7. ASSUME TickCircuit(i) PROVE OpenerMoves \/ PeerMoves
  <2> DEFINE e == Tick(c)
  <2>1. TimerRunning(c) /\ LocalStep(i, e)  BY <1>7 DEF TickCircuit
  <2>2. e \in Evolutions(c)  BY <1>1, <2>1, TickType
  <2>3. c.reason = "None"  BY <1>1, <2>1 DEF TimerRunning, EndIsSound
  <2>4. \A came : Runs(c, came, e)  BY <2>1 DEF Runs
  <2> HIDE DEF e
  <2> QED  BY <2>1, <2>2, <2>3, <2>4, EndCalled
<1> QED  BY <1>2, <1>3, <1>4, <1>5, <1>6, <1>7 DEF AppStep

\* Where no circuit was opened, what is opened has carried no data.
LEMMA FirstOpened ==
    ASSUME AllComply, circuit = <<>>, circuit' # <<>>, circuit' \in Seq(Circuit)
    PROVE  Restarts
<1>1. /\ DOMAIN circuit = {} /\ 1 \in DOMAIN circuit' /\ Len(circuit') \in DOMAIN circuit'
  OBVIOUS
<1>2. \A i \in DOMAIN circuit' : circuit'[i].sent = <<>>  BY <1>1 DEF AllComply, Untouched
<1>3. Unborn'.sent = <<>>  BY DEF Unborn, NewCircuit
<1>4. Other'.sent = <<>>  BY <1>1, <1>2, <1>3 DEF Other, Newest
<1> QED  BY <1>1, <1>2, <1>4 DEF Restarts

\* Every step moves one end, or data has not passed yet.
LEMMA NextMoves ==
    ASSUME Inv, StreamInv, OneWayInv, OneStream, OneWay, [Next]_vars, Inv', circuit' # <<>>
    PROVE  (circuit # <<>> /\ (OpenerMoves \/ PeerMoves)) \/ Restarts
<1>1. AllComply  BY NextComplies
<1>2. ASSUME circuit = <<>> PROVE Restarts
  <2>1. circuit' \in Seq(Circuit)  BY DEF Inv, TableInv, TableTypes
  <2> QED  BY <1>1, <1>2, <2>1, FirstOpened
<1>3. ASSUME circuit # <<>>, NEW l \in Link, OpenCircuit(l[1], l[2]) PROVE FALSE
  <2> DEFINE O == {i \in DOMAIN circuit : circuit[i].mintedFor = 0}
  <2>1. Cardinality(O) < 1  BY <1>3 DEF OpenCircuit, OpenedSoFar, OneStream
  <2>2. IsFiniteSet(O)
    <3>1. circuit \in Seq(Circuit) /\ DOMAIN circuit = 1 .. Len(circuit) /\ Len(circuit) \in Nat
      BY TableFacts DEF Inv
    <3>2. IsFiniteSet(1 .. Len(circuit)) /\ O \subseteq 1 .. Len(circuit)  BY <3>1, FS_Interval
    <3> QED  BY <3>2, FS_Subset
  <2>3. Cardinality(O) = 0  BY <2>1, <2>2, FS_CardinalityType
  <2>4. O = {}  BY <2>2, <2>3, FS_EmptySet
  <2>5. 1 \in DOMAIN circuit /\ circuit[1].mintedFor = 0  BY <1>3, StreamFacts DEF Cast
  <2> QED  BY <2>4, <2>5
<1>4. ASSUME NEW l \in Link, Receive(l[1], l[2])
      PROVE  circuit # <<>> /\ (OpenerMoves \/ PeerMoves \/ Restarts)
  <2>1. l[1] \in Node /\ l[2] \in Node /\ <<l[1], l[2]>> \in Link  BY DEF Link
  <2> QED  BY <1>1, <1>4, <2>1, ReceiveMoves
<1>5. ASSUME NEW l \in Link, Lose(l) PROVE circuit # <<>> /\ OpenerMoves  BY <1>5, LossMoves
<1>6. ASSUME circuit # <<>>, UNCHANGED vars PROVE OpenerMoves  BY <1>6, StutterMoves
<1>7. ASSUME NEW i \in DOMAIN circuit, AppStep(i) \/ TickCircuit(i)
      PROVE  circuit # <<>> /\ (OpenerMoves \/ PeerMoves)
  <2>1. circuit # <<>>  OBVIOUS
  <2> QED  BY <1>7, <2>1, CallMoves
<1> QED  BY <1>2, <1>3, <1>4, <1>5, <1>6, <1>7 DEF Next

-----------------------------------------------------------------------------
(* Flow control: the invariant *)

FacingInv == circuit # <<>> => Facing(circuit[1], Other, net[To], net[From])

\* The ends keep the pace, in whichever direction data flows.
PaceInv == ChokeThreshold > 0 /\ circuit # <<>> => BothPaced(circuit[1], Other, net[To], net[From])

\* Every step keeps it.
LEMMA NextPace ==
    ASSUME OneStream, OneWay, Inv, StreamInv, OneWayInv, [Next]_vars, Inv', FacingInv, FacingInv',
           PaceInv
    PROVE  PaceInv'
<1> SUFFICES ASSUME ChokeThreshold > 0, circuit' # <<>>
             PROVE  BothPaced(circuit'[1], Other', net'[To'], net'[From'])
  BY DEF PaceInv
<1> DEFINE x == circuit[1]
           y == Other
           xy == net[To]
           yx == net[From]
           c == circuit'[1]
           d == Other'
           p == net'[To']
           q == net'[From']
<1>1. Facing(c, d, p, q)  BY DEF FacingInv
<1>2. p \in Seq(Packet) /\ q \in Seq(Packet)  BY <1>1 DEF Facing
<1>3. CASE Restarts
  <2>1. c.sent = <<>> /\ d.sent = <<>>  BY <1>3 DEF Restarts
  <2> HIDE DEF c, d, p, q
  <2>2. /\ c \in Circuit /\ d \in Circuit /\ EndIsSound(c) /\ EndIsSound(d)
        /\ Counted(c) /\ Counted(d) /\ Direction(c, d, p, q) /\ Direction(d, c, q, p)
    BY <1>1 DEF Facing, Sound, Pair
  <2>3. Paced(c, d, p, q)  BY <1>2, <2>1, <2>2, UnwrittenIsPaced
  <2>4. Paced(d, c, q, p)  BY <1>2, <2>1, <2>2, UnwrittenIsPaced
  <2>5. BothPaced(c, d, p, q)  BY <2>3, <2>4 DEF BothPaced
  <2> QED  BY <2>5 DEF c, d, p, q
<1>4. ASSUME circuit # <<>>, OpenerMoves \/ PeerMoves PROVE BothPaced(c, d, p, q)
  <2>1. Facing(x, y, xy, yx) /\ BothPaced(x, y, xy, yx)  BY <1>4 DEF FacingInv, PaceInv
  <2>2. CASE OpenerMoves
    <3>1. PICK e \in Evolutions(x) :
              /\ Runs(x, yx, e) /\ Places(AtRest(e), y)
              /\ LeftOf(net'[To], xy \o e.out) /\ LeftOf(net'[From], yx)
      BY <2>2 DEF OpenerMoves
    <3>2. c = AtRest(e) /\ d = y /\ LeftOf(p, xy \o e.out) /\ LeftOf(q, yx)
      BY <3>1 DEF Places
    <3> HIDE DEF x, y, xy, yx, c, d, p, q
    <3> QED  BY <1>1, <1>2, <2>1, <3>1, <3>2, PaceKept
  <2>3. CASE PeerMoves
    <3>1. PICK e \in Evolutions(y) :
              /\ Runs(y, xy, e) /\ Places(x, AtRest(e))
              /\ LeftOf(net'[From], yx \o e.out) /\ LeftOf(net'[To], xy)
      BY <2>3 DEF PeerMoves
    <3>2. c = x /\ d = AtRest(e) /\ LeftOf(q, yx \o e.out) /\ LeftOf(p, xy)
      BY <3>1 DEF Places
    <3> HIDE DEF x, y, xy, yx, c, d, p, q
    <3>3. /\ Facing(y, x, yx, xy) /\ BothPaced(y, x, yx, xy) /\ Facing(d, x, q, p)
      BY <1>1, <2>1, <3>2, FacingTurned
    <3>4. BothPaced(d, x, q, p)  BY <1>2, <3>1, <3>2, <3>3, PaceKept
    <3> QED  BY <3>2, <3>4, FacingTurned
  <2> QED  BY <1>4, <2>2, <2>3
<1>5. BothPaced(c, d, p, q)  BY <1>3, <1>4, NextMoves
<1> QED  BY <1>5

\* A reader that keeps the pace has its bound; every other circuit has nothing.
LEMMA PacedIsBounded ==
    ASSUME Inv, StreamInv, OneWayInv, FacingInv, PaceInv PROVE BacklogBounded
<1> SUFFICES ASSUME NEW i \in DOMAIN circuit, ChokeThreshold > 0
             PROVE  circuit[i].pending < ChokeThreshold + circuit[i].window
  BY DEF BacklogBounded
<1>1. /\ circuit # <<>> /\ Cast /\ circuit[i] \in Circuit /\ Counted(circuit[i])
      /\ Facing(circuit[1], Other, net[To], net[From])
      /\ BothPaced(circuit[1], Other, net[To], net[From])
  BY StreamFacts, SoundCircuit DEF OneWayInv, FacingInv, PaceInv, Sound
<1>2. circuit[i].window \in Nat /\ ChokeThreshold \in Nat  BY <1>1, OptionsAssumption DEF Circuit
<1>3. circuit[i].pending = 0 => circuit[i].pending < ChokeThreshold + circuit[i].window
  BY <1>2
<1>4. ASSUME NEW s, NEW r, NEW fwd, NEW back, Facing(s, r, fwd, back), BothPaced(s, r, fwd, back)
      PROVE  r.pending < ChokeThreshold + r.window \/ r.pending = 0
  <2>1. CASE r.sent = <<>>  BY <1>4, <2>1 DEF BothPaced, Paced
  <2>2. CASE r.sent # <<>>
    <3>1. s.sent = <<>> /\ r \in Circuit /\ Counted(r) /\ Direction(s, r, fwd, back)
      BY <1>4, <2>2 DEF Facing, Pair, Sound
    <3>2. r.got = <<>>  BY <1>4, <3>1, NothingSent DEF Facing, Direction
    <3> QED  BY <3>1, <3>2 DEF Counted
  <2> QED  BY <2>1, <2>2
<1>5. CASE i = 1
  <2>1. /\ Facing(Other, circuit[1], net[From], net[To])
        /\ BothPaced(Other, circuit[1], net[From], net[To])
    BY <1>1, FacingTurned
  <2> QED  BY <1>3, <1>4, <1>5, <2>1
<1>6. CASE i # 1 /\ i = Newest  BY <1>1, <1>3, <1>4, <1>6 DEF Other
<1>7. CASE i \notin {1, Newest}
  <2>1. circuit[i].got = <<>>  BY <1>1, <1>7 DEF Cast, Gone
  <2> QED  BY <1>1, <1>3, <2>1 DEF Counted
<1> QED  BY <1>5, <1>6, <1>7

\* What a stalled reader has pending stays below the choke threshold and a
\* window, while data flows one way: the choke the reader signals at the
\* threshold reaches the writer before the writer can be acknowledged past it,
\* for the acknowledgement that does it carries the flag (onInformation,
\* applyPeerChoke, pumpSendQueue).
THEOREM BacklogKept ==
    ASSUME OneStream, OneWay, \A n \in Node : WindowSize[n] >= 1
    PROVE  Spec => []BacklogBounded
<1>1. Init => PaceInv  BY DEF Init, PaceInv
<1>2. Inv /\ StreamInv /\ OneWayInv => FacingInv  BY EndsFacing DEF FacingInv
<1>3. /\ Inv /\ StreamInv /\ OneWayInv /\ FacingInv /\ Inv' /\ FacingInv' /\ [Next]_vars /\ PaceInv
      => PaceInv'
  BY NextPace
<1>4. Inv /\ StreamInv /\ OneWayInv /\ FacingInv /\ PaceInv => BacklogBounded
  BY PacedIsBounded
<1> QED  BY <1>1, <1>2, <1>3, <1>4, OneWayInvariance, PTL DEF Spec

=============================================================================
