-------------------------- MODULE NetRomStreamProofs --------------------------
(***************************************************************************)
(* The sliding window between the two ends of one circuit: what holds of   *)
(* an end that writes, an end that reads and the packets under way between *)
(* them (Direction), and that every handler of NetRomCircuit on either end *)
(* keeps it, whatever the packet and whatever is lost.                     *)
(*                                                                         *)
(* Numbers on the wire are remainders.  What makes them unambiguous is     *)
(* kept as bounds on positions: an Information message under way is less   *)
(* than a window from what the receiver expects (Carried), and an          *)
(* acknowledgement under way covers no more than what is in flight and was *)
(* accepted (Returned).  A window is at most half the sequence space, so   *)
(* two positions with the same number are equal (ModUnique).               *)
(*                                                                         *)
(* The links keep order here: Carried and Returned compare a message with  *)
(* those sent after it.                                                    *)
(***************************************************************************)
EXTENDS CircuitManager, NetRomCircuitProofs, SequenceTheorems

-----------------------------------------------------------------------------
(* The invariant of one circuit's two ends *)

IsInfo(p)   == p.op = "Information"
IsAccept(p) == p.op = "ConnectAcknowledge" /\ ~p.choke
Open(c)     == c.state \in {"Connected", "Disconnecting"}

\* What an end holds is the unacknowledged rest of its stream, in order: the
\* in-flight messages, then the queue, numbered by their positions.
Numbered(s) ==
    /\ Len(s.sendQueue) + Len(s.unacked) <= Len(s.sent)
    /\ Len(s.unacked) <= MaxWindow
    /\ s.state = "Connected" => s.window <= MaxWindow
    /\ s.reason = "None" => /\ s.vs = Transmitted(s) % Modulus
                            /\ s.va = Acknowledged(s) % Modulus
    /\ \A k \in DOMAIN s.unacked :
          /\ s.unacked[k].seq = (Acknowledged(s) + k - 1) % Modulus
          /\ s.unacked[k].body = <<s.inc, Acknowledged(s) + k>>
          /\ s.unacked[k].more = s.sent[Acknowledged(s) + k]
    /\ \A k \in DOMAIN s.sendQueue :
          /\ s.sendQueue[k].body = <<s.inc, Transmitted(s) + k>>
          /\ s.sendQueue[k].more = s.sent[Transmitted(s) + k]

\* The position up to which whole frames were delivered.
Delivered(c) == IF c.got = <<>> THEN 0 ELSE Last(Last(c.got))[2]

WholeFrame(r, f, s) ==
    LET g     == r.got[f]
        first == IF f = 1 THEN 1 ELSE Last(r.got[f - 1])[2] + 1
    IN  /\ g # <<>>
        /\ \A k \in DOMAIN g : /\ first + k - 1 \in DOMAIN s.sent
                               /\ g[k] = <<s.inc, first + k - 1>>
                               /\ s.sent[first + k - 1] = (k < Len(g))

\* What an end received is a prefix of what the other wrote, cut into frames.
Assembled(r, s) ==
    /\ \A f \in DOMAIN r.got : WholeFrame(r, f, s)
    /\ \A k \in DOMAIN r.reassembly :
          /\ Delivered(r) + k \in DOMAIN s.sent
          /\ r.reassembly[k] = <<s.inc, Delivered(r) + k>>
          /\ s.sent[Delivered(r) + k]
    /\ Accepted(r) <= Transmitted(s)
    /\ r.reason = "None" => r.vr = Accepted(r) % Modulus

Position(p) == p.body[2]

\* The Information messages under way carry what was written, and are close
\* enough to what the receiver expects for their numbers to be unambiguous.
Carried(s, r, fwd) ==
    /\ \A k \in DOMAIN fwd : IsInfo(fwd[k]) =>
          /\ fwd[k].body = <<s.inc, Position(fwd[k])>>
          /\ Position(fwd[k]) \in 1 .. Transmitted(s)
          /\ fwd[k].tx = (Position(fwd[k]) - 1) % Modulus
          /\ fwd[k].more = s.sent[Position(fwd[k])]
          /\ r.reason = "None" => /\ Position(fwd[k]) <= Accepted(r) + MaxWindow
                                  /\ Accepted(r) < Position(fwd[k]) + MaxWindow
    /\ \A k, l \in DOMAIN fwd : k < l /\ IsInfo(fwd[k]) /\ IsInfo(fwd[l]) =>
          Position(fwd[k]) < Position(fwd[l]) + MaxWindow

\* How many in-flight messages an acknowledgement covers.
Covers(s, p) == (p.rx - s.va) % Modulus

\* The acknowledgements under way cover only what was accepted, later ones more.
Returned(s, r, back) ==
    s.reason = "None" =>
    /\ r.reason = "None" => Acknowledged(s) <= Accepted(r)
    /\ \A k \in DOMAIN back : IsAck(back[k]) =>
          /\ Covers(s, back[k]) <= Len(s.unacked)
          /\ r.reason = "None" => Acknowledged(s) + Covers(s, back[k]) <= Accepted(r)
    /\ \A k, l \in DOMAIN back : k < l /\ IsAck(back[k]) /\ IsAck(back[l]) =>
          Covers(s, back[k]) <= Covers(s, back[l])

\* Only the end that opened the circuit sends Connect Requests, before anything
\* else; the other end's acceptance carries the window it agreed to, and its
\* Disconnect Requests the key of the opener.
Shaken(s, fwd) ==
    /\ \A k \in DOMAIN fwd : fwd[k].op = "ConnectRequest" =>
          /\ s.mintedFor = 0 /\ fwd[k].key = s.localKey /\ fwd[k].inc = s.inc
          /\ fwd[k].win = Clamp(s.windowSize, 1, MaxWindow)
    /\ \A k, l \in DOMAIN fwd : k < l /\ fwd[l].op = "ConnectRequest" =>
          fwd[k].op = "ConnectRequest"
    /\ s.state = "Connecting" =>
          /\ s.mintedFor = 0
          /\ \A k \in DOMAIN fwd : fwd[k].op = "ConnectRequest"
    /\ \A k \in DOMAIN fwd : IsAccept(fwd[k]) =>
          s.mintedFor # 0 /\ fwd[k].win = s.window /\ s.window \in 1 .. MaxWindow
    /\ s.mintedFor # 0 =>
          /\ Open(s) => s.remoteKey = s.peerKey[2] /\ s.window \in 1 .. MaxWindow
          /\ \A k \in DOMAIN fwd : fwd[k].op = "DisconnectRequest" => fwd[k].key = s.peerKey[2]

\* One direction: s sends, r receives; what s sent is in fwd, what r sent in back.
Direction(s, r, fwd, back) ==
    /\ Numbered(s) /\ Assembled(r, s) /\ Carried(s, r, fwd)
    /\ Returned(s, r, back) /\ Shaken(s, fwd)

Pair(c, d, to, from) == Direction(c, d, to, from) /\ Direction(d, c, from, to)

-----------------------------------------------------------------------------
(* Sequence numbers *)

\* What the remainder of a division is.
LEMMA ModBasic ==
    ASSUME NEW a \in Int
    PROVE  /\ a % Modulus \in 0 .. Modulus - 1
           /\ a = Modulus * (a \div Modulus) + (a % Modulus)
           /\ a \div Modulus \in Int
BY ModulusAssumption

\* Multiples of m that are less than m apart are equal.
LEMMA Mult ==
    ASSUME NEW q \in Int, NEW r \in Int, NEW m \in Nat, m > 0, m*q - m*r < m, m*r - m*q < m
    PROVE q = r
OBVIOUS

\* The remainder is the only number in the sequence space that differs by a multiple.
LEMMA ModIs ==
    ASSUME NEW a \in Int, NEW q \in Int, NEW r \in 0 .. Modulus - 1, a = (Modulus * q) + r
    PROVE  a % Modulus = r
<1> DEFINE d == a \div Modulus
           s == a % Modulus
<1>1. Modulus \in Nat /\ Modulus > 0  BY ModulusAssumption
<1>2. s \in 0 .. Modulus - 1 /\ a = (Modulus * d) + s /\ d \in Int  BY ModBasic
<1> HIDE DEF d, s
<1>3. Modulus * q \in Int /\ Modulus * d \in Int  BY <1>1, <1>2
<1>4. (Modulus * q) + r = (Modulus * d) + s  BY <1>2
<1>5. (Modulus * q) - (Modulus * d) < Modulus /\ (Modulus * d) - (Modulus * q) < Modulus
  BY <1>1, <1>2, <1>3, <1>4
<1>6. q = d  BY <1>1, <1>2, <1>5, Mult
<1>7. s = r  BY <1>2, <1>3, <1>4, <1>6
<1> QED  BY <1>7 DEF s

\* A remainder may stand for the number inside a sum or a difference.
LEMMA ModAdd ==
    ASSUME NEW a \in Int, NEW b \in Int
    PROVE  /\ ((a % Modulus) + b) % Modulus = (a + b) % Modulus
           /\ (b - (a % Modulus)) % Modulus = (b - a) % Modulus
           /\ ((a % Modulus) - b) % Modulus = (a - b) % Modulus
<1> DEFINE d == a \div Modulus
           s == a % Modulus
<1>1. Modulus \in Nat /\ Modulus > 0  BY ModulusAssumption
<1>2. s \in 0 .. Modulus - 1 /\ a = (Modulus * d) + s /\ d \in Int  BY ModBasic
<1> HIDE DEF d, s
<1>3. ASSUME NEW x \in Int, NEW y \in Int, NEW k \in Int, x = (Modulus * k) + y
      PROVE x % Modulus = y % Modulus
  <2> DEFINE e == y \div Modulus
             t == y % Modulus
  <2>1. t \in 0 .. Modulus - 1 /\ y = (Modulus * e) + t /\ e \in Int  BY ModBasic
  <2> HIDE DEF e, t
  <2>2. x = (Modulus * (k + e)) + t
    <3>1. Modulus * (k + e) = (Modulus * k) + (Modulus * e)  BY <1>1, <2>1
    <3>2. Modulus * k \in Int /\ Modulus * e \in Int  BY <1>1, <2>1
    <3> QED  BY <1>3, <2>1, <3>1, <3>2
  <2>3. k + e \in Int  BY <2>1
  <2> HIDE DEF e
  <2>4. x % Modulus = t  BY <2>1, <2>2, <2>3, ModIs
  <2> QED  BY <2>4 DEF t
<1>4. Modulus * d \in Int  BY <1>1, <1>2
<1>5. (a + b) % Modulus = (s + b) % Modulus
  <2>1. a + b = (Modulus * d) + (s + b) /\ s + b \in Int /\ a + b \in Int  BY <1>2, <1>4
  <2> QED  BY <1>2, <1>3, <2>1
<1>6. (b - a) % Modulus = (b - s) % Modulus
  <2>1. b - a = (Modulus * (-d)) + (b - s) /\ b - s \in Int /\ b - a \in Int /\ -d \in Int
    <3>1. Modulus * (-d) = -(Modulus * d)  BY <1>1, <1>2
    <3> QED BY <1>2, <1>4, <3>1
  <2> QED  BY <1>3, <2>1
<1>7. (a - b) % Modulus = (s - b) % Modulus
  <2>1. a - b = (Modulus * d) + (s - b) /\ s - b \in Int /\ a - b \in Int  BY <1>2, <1>4
  <2> QED  BY <1>2, <1>3, <2>1
<1> QED  BY <1>5, <1>6, <1>7 DEF s

\* A number of the sequence space is its own remainder.
LEMMA ModSmall == ASSUME NEW a \in 0 .. Modulus - 1 PROVE a % Modulus = a
<1>1. Modulus \in Nat  BY ModulusAssumption
<1>2. a \in Int /\ a = (Modulus * 0) + a  BY <1>1
<1> QED  BY <1>1, <1>2, ModIs

\* Just below zero the remainder wraps once.
LEMMA ModNegative == ASSUME NEW a \in Int, a < 0, -a < Modulus PROVE a % Modulus = a + Modulus
<1>1. Modulus \in Nat  BY ModulusAssumption
<1>2. a + Modulus \in 0 .. Modulus - 1 /\ a = (Modulus * (-1)) + (a + Modulus)  BY <1>1
<1> QED  BY <1>1, <1>2, ModIs

\* Numbers less than the sequence space apart are told apart by their remainders.
LEMMA ModUnique ==
    ASSUME NEW a \in Int, NEW b \in Int, a - b < Modulus, b - a < Modulus,
           a % Modulus = b % Modulus
    PROVE  a = b
<1>1. Modulus \in Nat /\ Modulus > 0  BY ModulusAssumption
<1> DEFINE d == a \div Modulus
           e == b \div Modulus
           s == a % Modulus
           t == b % Modulus
<1>2. /\ s \in 0 .. Modulus - 1 /\ a = (Modulus * d) + s /\ d \in Int
      /\ t \in 0 .. Modulus - 1 /\ b = (Modulus * e) + t /\ e \in Int
      /\ s = t
  BY ModBasic
<1> HIDE DEF d, e, s, t
<1>3. Modulus * d \in Int /\ Modulus * e \in Int  BY <1>1, <1>2
<1>4. (Modulus * d) - (Modulus * e) < Modulus /\ (Modulus * e) - (Modulus * d) < Modulus
  BY <1>1, <1>2, <1>3
<1>5. d = e  BY <1>1, <1>2, <1>4, Mult
<1> QED  BY <1>2, <1>5

-----------------------------------------------------------------------------
(* Positions in a stream *)

\* The fields the invariant reads.
LEMMA Fields ==
    ASSUME NEW c \in Circuit
    PROVE  /\ c.sent \in Seq(BOOLEAN) /\ Len(c.sent) \in Nat /\ DOMAIN c.sent = 1 .. Len(c.sent)
           /\ c.sendQueue \in Seq(Fragment) /\ Len(c.sendQueue) \in Nat
           /\ DOMAIN c.sendQueue = 1 .. Len(c.sendQueue)
           /\ c.unacked \in Seq(Unacked) /\ Len(c.unacked) \in Nat
           /\ DOMAIN c.unacked = 1 .. Len(c.unacked)
           /\ c.reassembly \in Seq(Body) /\ Len(c.reassembly) \in Nat
           /\ DOMAIN c.reassembly = 1 .. Len(c.reassembly)
           /\ c.got \in Seq(Seq(Body)) /\ Len(c.got) \in Nat /\ DOMAIN c.got = 1 .. Len(c.got)
           /\ c.vs \in Seqno /\ c.va \in Seqno /\ c.vr \in Seqno
           /\ c.inc \in Nat /\ c.window \in Nat /\ c.out \in Seq(Packet)
<1>1. /\ c.sent \in Seq(BOOLEAN) /\ c.sendQueue \in Seq(Fragment) /\ c.unacked \in Seq(Unacked)
      /\ c.reassembly \in Seq(Body) /\ c.got \in Seq(Seq(Body))
      /\ c.vs \in Seqno /\ c.va \in Seqno /\ c.vr \in Seqno
      /\ c.inc \in Nat /\ c.window \in Nat /\ c.out \in Seq(Packet)
  BY DEF Circuit
<1>2. ASSUME NEW S, NEW q \in Seq(S) PROVE Len(q) \in Nat /\ DOMAIN q = 1 .. Len(q)
  OBVIOUS
<1> QED  BY <1>1, <1>2

\* Acknowledged, transmitted, written: each a part of the next.
LEMMA Positions ==
    ASSUME NEW s \in Circuit, Numbered(s)
    PROVE  /\ Transmitted(s) \in Nat /\ Acknowledged(s) \in Nat
           /\ Transmitted(s) = Acknowledged(s) + Len(s.unacked)
           /\ Transmitted(s) + Len(s.sendQueue) = Len(s.sent)
           /\ Transmitted(s) <= Len(s.sent)
           /\ Transmitted(s) <= Acknowledged(s) + MaxWindow
           /\ Len(s.unacked) <= MaxWindow
<1> DEFINE a == Len(s.sent)
           b == Len(s.sendQueue)
           c == Len(s.unacked)
<1>1. a \in Nat /\ b \in Nat /\ c \in Nat  BY Fields
<1>2. MaxWindow \in Nat  BY HorizonFacts
<1>3. b + c <= a /\ c <= MaxWindow  BY DEF Numbered
<1>4. Transmitted(s) = a - b /\ Acknowledged(s) = Transmitted(s) - c
  BY DEF Transmitted, Acknowledged
<1> HIDE DEF a, b, c
<1>5. /\ Transmitted(s) \in Nat /\ Acknowledged(s) \in Nat
      /\ Transmitted(s) = Acknowledged(s) + c /\ Transmitted(s) + b = a
      /\ Transmitted(s) <= a /\ Transmitted(s) <= Acknowledged(s) + MaxWindow
      /\ c <= MaxWindow
  BY <1>1, <1>2, <1>3, <1>4
<1> QED  BY <1>5 DEF a, b, c

\* The last element of a non-empty sequence.
LEMMA LastIn ==
    ASSUME NEW S, NEW q \in Seq(S), q # <<>>
    PROVE  Last(q) = q[Len(q)] /\ Last(q) \in S /\ Len(q) \in DOMAIN q /\ Len(q) >= 1
BY DEF Last

\* What is accepted is what was delivered and what waits to be.
LEMMA AcceptedIs ==
    ASSUME NEW r \in Circuit, NEW s \in Circuit, Assembled(r, s)
    PROVE  /\ Delivered(r) \in Nat /\ Accepted(r) \in Nat
           /\ Accepted(r) = Delivered(r) + Len(r.reassembly)
<1>1. /\ r.got \in Seq(Seq(Body)) /\ r.reassembly \in Seq(Body) /\ Len(r.reassembly) \in Nat
      /\ DOMAIN r.got = 1 .. Len(r.got)
  BY Fields
<1>2. Delivered(r) \in Nat
  <2>1. CASE r.got = <<>>  BY <2>1 DEF Delivered
  <2>2. CASE r.got # <<>>
    <3>1. Last(r.got) \in Seq(Body) /\ Last(r.got) = r.got[Len(r.got)] /\ Len(r.got) \in DOMAIN r.got
      BY <1>1, <2>2, LastIn
    <3>2. Last(r.got) # <<>>  BY <3>1 DEF Assembled, WholeFrame
    <3>3. Last(Last(r.got)) \in Body  BY <3>1, <3>2, LastIn
    <3> QED  BY <2>2, <3>3 DEF Delivered, Body
  <2> QED  BY <2>1, <2>2
<1>3. CASE r.reassembly = <<>>
  <2>1. Accepted(r) = Delivered(r)  BY <1>3 DEF Accepted, Delivered
  <2> QED  BY <1>2, <1>3, <2>1
<1>4. CASE r.reassembly # <<>>
  <2>1. Last(r.reassembly) = r.reassembly[Len(r.reassembly)] /\ Len(r.reassembly) \in DOMAIN r.reassembly
    BY <1>1, <1>4, LastIn
  <2>2. Last(r.reassembly) = <<s.inc, Delivered(r) + Len(r.reassembly)>>
    BY <2>1 DEF Assembled
  <2> QED  BY <1>1, <1>2, <1>4, <2>2 DEF Accepted
<1> QED  BY <1>3, <1>4

-----------------------------------------------------------------------------
(* What the invariant does not look at *)

\* Everything the stream's invariant reads is the same, but for the retry
\* counts of what is in flight.
SameStream(c, e) ==
    /\ e.sent = c.sent /\ e.sendQueue = c.sendQueue /\ e.inc = c.inc /\ e.reason = c.reason
    /\ e.vs = c.vs /\ e.va = c.va /\ e.vr = c.vr
    /\ e.got = c.got /\ e.reassembly = c.reassembly
    /\ Len(e.unacked) = Len(c.unacked) /\ DOMAIN e.unacked = DOMAIN c.unacked
    /\ \A k \in DOMAIN c.unacked :
          /\ e.unacked[k].seq = c.unacked[k].seq
          /\ e.unacked[k].body = c.unacked[k].body
          /\ e.unacked[k].more = c.unacked[k].more

\* So is everything the handshake's invariant reads, unless the end closes.
SameHand(c, e) ==
    /\ e.mintedFor = c.mintedFor /\ e.localKey = c.localKey /\ e.peerKey = c.peerKey
    /\ e.windowSize = c.windowSize /\ e.inc = c.inc
    /\ e.window = c.window
    /\ e.state = "Connecting" => c.state = "Connecting"
    /\ e.state = "Connected" => c.state = "Connected"
    /\ Open(e) => Open(c) /\ e.remoteKey = c.remoteKey

\* The derived positions are those of the same stream.
LEMMA SamePositions ==
    ASSUME NEW c, NEW e, SameStream(c, e)
    PROVE  /\ Transmitted(e) = Transmitted(c) /\ Acknowledged(e) = Acknowledged(c)
           /\ Accepted(e) = Accepted(c) /\ Delivered(e) = Delivered(c)
BY DEF SameStream, Transmitted, Acknowledged, Accepted, Delivered

\* The handshake's part of the invariant.
LEMMA SameShaken ==
    ASSUME NEW c, NEW e, SameHand(c, e), NEW q, Shaken(c, q)
    PROVE  Shaken(e, q)
BY DEF SameHand, Shaken

\* The sender's part of the invariant.
LEMMA SameNumbered ==
    ASSUME NEW c, NEW e, SameStream(c, e), SameHand(c, e), Numbered(c)
    PROVE  Numbered(e)
<1>1. Transmitted(e) = Transmitted(c) /\ Acknowledged(e) = Acknowledged(c)  BY SamePositions
<1>2. \A k \in DOMAIN e.unacked :
          /\ e.unacked[k].seq = (Acknowledged(e) + k - 1) % Modulus
          /\ e.unacked[k].body = <<e.inc, Acknowledged(e) + k>>
          /\ e.unacked[k].more = e.sent[Acknowledged(e) + k]
  BY <1>1 DEF SameStream, Numbered
<1>3. \A k \in DOMAIN e.sendQueue :
          /\ e.sendQueue[k].body = <<e.inc, Transmitted(e) + k>>
          /\ e.sendQueue[k].more = e.sent[Transmitted(e) + k]
  <2>1. e.sendQueue = c.sendQueue /\ e.sent = c.sent /\ e.inc = c.inc  BY DEF SameStream
  <2> QED  BY <1>1, <2>1 DEF Numbered
<1>4. /\ Len(e.sendQueue) + Len(e.unacked) <= Len(e.sent) /\ Len(e.unacked) <= MaxWindow
      /\ e.reason = "None" => /\ e.vs = Transmitted(e) % Modulus
                              /\ e.va = Acknowledged(e) % Modulus
  BY <1>1 DEF SameStream, Numbered
<1>5. e.state = "Connected" => e.window <= MaxWindow  BY DEF SameHand, Numbered
<1> QED  BY <1>2, <1>3, <1>4, <1>5 DEF Numbered

\* The receiver's part of the invariant, for either end.
LEMMA SameAssembled ==
    ASSUME NEW c, NEW e, SameStream(c, e), NEW d
    PROVE  /\ Assembled(c, d) => Assembled(e, d)
           /\ Assembled(d, c) => Assembled(d, e)
<1>1. e.got = c.got /\ e.sent = c.sent /\ e.inc = c.inc  BY DEF SameStream
<1>2. ASSUME NEW f PROVE WholeFrame(e, f, d) = WholeFrame(c, f, d) /\ WholeFrame(d, f, e) = WholeFrame(d, f, c)
  BY <1>1 DEF WholeFrame
<1>3. Assembled(c, d) => Assembled(e, d)
  BY <1>1, <1>2, SamePositions DEF SameStream, Assembled
<1>4. Assembled(d, c) => Assembled(d, e)
  BY <1>1, <1>2, SamePositions DEF SameStream, Assembled
<1> QED  BY <1>3, <1>4

\* What is under way, for either end.
LEMMA SameCarried ==
    ASSUME NEW c, NEW e, SameStream(c, e), NEW d, NEW q
    PROVE  /\ Carried(c, d, q) => Carried(e, d, q)
           /\ Carried(d, c, q) => Carried(d, e, q)
<1>1. e.sent = c.sent /\ e.inc = c.inc /\ e.reason = c.reason  BY DEF SameStream
<1> QED  BY <1>1, SamePositions DEF Carried

\* The acknowledgements under way, for either end.
LEMMA SameReturned ==
    ASSUME NEW c, NEW e, SameStream(c, e), NEW d, NEW q
    PROVE  /\ Returned(c, d, q) => Returned(e, d, q)
           /\ Returned(d, c, q) => Returned(d, e, q)
<1>1. e.va = c.va /\ Len(e.unacked) = Len(c.unacked) /\ e.reason = c.reason  BY DEF SameStream
<1>2. ASSUME NEW p PROVE Covers(e, p) = Covers(c, p)  BY <1>1 DEF Covers
<1> QED  BY <1>1, <1>2, SamePositions DEF Returned

\* Flags, counters, timers and what was emitted may change freely.
LEMMA SamePair ==
    ASSUME NEW c, NEW e, SameStream(c, e), SameHand(c, e), NEW d, NEW to, NEW from,
           Pair(c, d, to, from)
    PROVE  Pair(e, d, to, from)
BY SameShaken, SameNumbered, SameAssembled, SameCarried, SameReturned DEF Pair, Direction

-----------------------------------------------------------------------------
(* Sending *)

\* A packet that may follow what an end sent: data in flight, the newest
\* acknowledgement, the window agreed, the key of the opener.
Timely(c, p) ==
    /\ p.op # "ConnectRequest" /\ c.state # "Connecting"
    /\ IsAck(p) => c.reason = "None" /\ p.rx = c.vr
    /\ IsInfo(p) => \E k \in DOMAIN c.unacked : /\ p.tx = c.unacked[k].seq
                                                /\ p.body = c.unacked[k].body
                                                /\ p.more = c.unacked[k].more
    /\ IsAccept(p) => c.mintedFor # 0 /\ p.win = c.window /\ c.window \in 1 .. MaxWindow
    /\ p.op = "DisconnectRequest" /\ c.mintedFor # 0 => p.key = c.peerKey[2]

\* A message in flight has a position after what is acknowledged.
LEMMA InFlight ==
    ASSUME NEW s \in Circuit, Numbered(s), NEW p, NEW k \in DOMAIN s.unacked,
           p.tx = s.unacked[k].seq, p.body = s.unacked[k].body, p.more = s.unacked[k].more
    PROVE  /\ Position(p) = Acknowledged(s) + k /\ k \in Nat /\ k >= 1
           /\ p.body = <<s.inc, Position(p)>>
           /\ Position(p) \in 1 .. Transmitted(s) /\ Acknowledged(s) < Position(p)
           /\ p.tx = (Position(p) - 1) % Modulus
           /\ p.more = s.sent[Position(p)]
           /\ \A y \in Nat : y <= Transmitted(s) => y < Position(p) + MaxWindow
<1>1. /\ s.unacked[k].seq = (Acknowledged(s) + k - 1) % Modulus
      /\ s.unacked[k].body = <<s.inc, Acknowledged(s) + k>>
      /\ s.unacked[k].more = s.sent[Acknowledged(s) + k]
  BY DEF Numbered
<1>2. Position(p) = Acknowledged(s) + k  BY <1>1 DEF Position
<1> DEFINE n == Len(s.unacked)
<1>3. k \in Nat /\ k >= 1 /\ k <= n /\ n \in Nat  BY Fields
<1>4. /\ Transmitted(s) \in Nat /\ Acknowledged(s) \in Nat /\ MaxWindow \in Nat
      /\ Transmitted(s) = Acknowledged(s) + n /\ n <= MaxWindow
  BY Positions, HorizonFacts
<1> HIDE DEF n
<1>5. /\ Position(p) \in 1 .. Transmitted(s) /\ Acknowledged(s) < Position(p)
      /\ \A y \in Nat : y <= Transmitted(s) => y < Position(p) + MaxWindow
  BY <1>2, <1>3, <1>4
<1>6. p.body = <<s.inc, Position(p)>> /\ p.more = s.sent[Position(p)]
  <2>1. p.body = <<s.inc, Position(p)>>  BY <1>1, <1>2
  <2>2. p.more = s.sent[Acknowledged(s) + k]  BY Zenon, <1>1
  <2> QED  BY <1>2, <2>1, <2>2
<1>7. p.tx = (Position(p) - 1) % Modulus
  <2>1. Acknowledged(s) + k - 1 = Position(p) - 1  BY <1>2, <1>3, <1>4
  <2> QED  BY <1>1, <2>1
<1> QED  BY <1>2, <1>3, <1>5, <1>6, <1>7

\* Any message in flight may be sent, again or for the first time.
LEMMA SentIsCarried ==
    ASSUME NEW c \in Circuit, NEW d \in Circuit, Numbered(c), Assembled(d, c),
           d.reason = "None" => Acknowledged(c) <= Accepted(d),
           NEW to \in Seq(Packet), Carried(c, d, to),
           NEW ps \in Seq(Packet), \A k \in DOMAIN ps : Timely(c, ps[k])
    PROVE  Carried(c, d, to \o ps)
<1> DEFINE q == to \o ps
           T == Transmitted(c)
           K == Acknowledged(c)
           A == Accepted(d)
           Good(p) == /\ p.body = <<c.inc, Position(p)>>
                      /\ Position(p) \in 1 .. T
                      /\ p.tx = (Position(p) - 1) % Modulus
                      /\ p.more = c.sent[Position(p)]
                      /\ d.reason = "None" => /\ Position(p) <= A + MaxWindow
                                              /\ A < Position(p) + MaxWindow
<1>1. /\ T \in Nat /\ K \in Nat /\ A \in Nat /\ MaxWindow \in Nat /\ T <= K + MaxWindow /\ A <= T
  BY Positions, AcceptedIs, HorizonFacts DEF Assembled
<1>2. ASSUME NEW k \in DOMAIN ps, IsInfo(ps[k])
      PROVE  Good(ps[k]) /\ \A y \in Nat : y <= T => y < Position(ps[k]) + MaxWindow
  <2>1. PICK j \in DOMAIN c.unacked : /\ ps[k].tx = c.unacked[j].seq
                                      /\ ps[k].body = c.unacked[j].body
                                      /\ ps[k].more = c.unacked[j].more
    BY <1>2 DEF Timely
  <2>2. /\ ps[k].body = <<c.inc, Position(ps[k])>>
        /\ Position(ps[k]) \in 1 .. T /\ K < Position(ps[k])
        /\ ps[k].tx = (Position(ps[k]) - 1) % Modulus
        /\ ps[k].more = c.sent[Position(ps[k])]
        /\ \A y \in Nat : y <= T => y < Position(ps[k]) + MaxWindow
    BY <2>1, InFlight
  <2> HIDE DEF T, K, A
  <2>3. d.reason = "None" => /\ Position(ps[k]) <= A + MaxWindow
                             /\ A < Position(ps[k]) + MaxWindow
    <3>1. d.reason = "None" => K <= A  BY DEF K, A
    <3> QED  BY <1>1, <2>2, <3>1
  <2> QED  BY <2>2, <2>3
<1>3. ASSUME NEW k \in DOMAIN to, IsInfo(to[k]) PROVE Good(to[k])
  BY <1>3 DEF Carried
<1>4. ASSUME NEW k \in DOMAIN q
      PROVE  /\ k \in Nat /\ k >= 1
             /\ \/ k \in DOMAIN to /\ k <= Len(to) /\ q[k] = to[k]
                \/ k > Len(to) /\ k - Len(to) \in DOMAIN ps /\ q[k] = ps[k - Len(to)]
  BY CatAt
<1>5. ASSUME NEW k \in DOMAIN q, NEW l \in DOMAIN q, k < l, IsInfo(q[k]), IsInfo(q[l])
      PROVE  Position(q[k]) < Position(q[l]) + MaxWindow
  <2>1. Position(q[k]) \in Nat /\ Position(q[k]) <= T
    <3>1. CASE k \in DOMAIN to /\ q[k] = to[k]
      <4>1. Position(to[k]) \in 1 .. T  BY <1>3, <1>5, <3>1
      <4> HIDE DEF q, T
      <4> QED  BY <1>1, <3>1, <4>1
    <3>2. CASE k - Len(to) \in DOMAIN ps /\ q[k] = ps[k - Len(to)]
      <4>1. Position(ps[k - Len(to)]) \in 1 .. T  BY <1>2, <1>5, <3>2
      <4> HIDE DEF q, T
      <4> QED  BY <1>1, <3>2, <4>1
    <3> QED  BY <1>4, <3>1, <3>2
  <2>2. CASE l \in DOMAIN to /\ l <= Len(to) /\ q[l] = to[l]
    <3>1. k \in DOMAIN to /\ q[k] = to[k]
      <4> HIDE DEF q
      <4>1. Len(to) \in Nat  OBVIOUS
      <4>2. k \in Nat /\ l \in Nat  BY <1>4
      <4>3. ~(k > Len(to))  BY <1>5, <2>2, <4>1, <4>2
      <4> QED  BY <1>4, <4>3
    <3> HIDE DEF q
    <3> QED  BY <1>5, <2>2, <3>1 DEF Carried
  <2>3. CASE l > Len(to) /\ l - Len(to) \in DOMAIN ps /\ q[l] = ps[l - Len(to)]
    BY <1>2, <1>5, <2>1, <2>3
  <2> QED  BY <1>4, <2>2, <2>3
<1>6. ASSUME NEW k \in DOMAIN q, IsInfo(q[k]) PROVE Good(q[k])
  BY SMTT(60), <1>2, <1>3, <1>4, <1>6
<1> HIDE DEF q
<1>7. Carried(c, d, q)  BY <1>5, <1>6 DEF Carried
<1> QED  BY <1>7 DEF q

\* V(r) as it leaves acknowledges exactly what was accepted.
LEMMA FreshAck ==
    ASSUME NEW c \in Circuit, NEW d \in Circuit, Numbered(d), Assembled(c, d),
           c.reason = "None", d.reason = "None", Acknowledged(d) <= Accepted(c),
           NEW p, p.rx = c.vr
    PROVE  /\ Covers(d, p) = Accepted(c) - Acknowledged(d)
           /\ Covers(d, p) \in Nat /\ Covers(d, p) <= Len(d.unacked)
<1> DEFINE A == Accepted(c)
           K == Acknowledged(d)
           n == Len(d.unacked)
<1>1. A \in Nat /\ K \in Nat /\ n \in Nat /\ MaxWindow \in Nat /\ n <= MaxWindow /\ K <= A /\ A <= K + n
  <2>1. Accepted(c) <= Transmitted(d)  BY DEF Assembled
  <2>2. Transmitted(d) = K + n /\ n <= MaxWindow /\ K \in Nat  BY Positions
  <2>3. n \in Nat  BY Fields
  <2> QED  BY <2>1, <2>2, <2>3, AcceptedIs, HorizonFacts
<1>2. p.rx = A % Modulus /\ d.va = K % Modulus  BY DEF Assembled, Numbered
<1> HIDE DEF A, K, n
<1>3. Covers(d, p) = ((A % Modulus) - (K % Modulus)) % Modulus  BY <1>2 DEF Covers
<1>4. Covers(d, p) = (A - K) % Modulus
  <2>1. K % Modulus \in Int  BY <1>1, ModBasic
  <2>2. ((A % Modulus) - (K % Modulus)) % Modulus = (A - (K % Modulus)) % Modulus
    BY <1>1, <2>1, ModAdd
  <2>3. (A - (K % Modulus)) % Modulus = (A - K) % Modulus  BY <1>1, ModAdd
  <2> QED  BY <1>3, <2>2, <2>3
<1>5. A - K \in 0 .. Modulus - 1
  BY <1>1, ModulusAssumption DEF MaxWindow, Horizon
<1>6. (A - K) % Modulus = A - K  BY <1>5, ModSmall
<1>7. A - K \in Nat /\ A - K <= n  BY <1>1
<1> QED  BY <1>4, <1>6, <1>7 DEF A, K, n

\* So the newest acknowledgement covers more than those under way.
LEMMA SentIsReturned ==
    ASSUME NEW c \in Circuit, NEW d \in Circuit, Numbered(d), Assembled(c, d),
           NEW to \in Seq(Packet), Returned(d, c, to),
           NEW ps \in Seq(Packet), \A k \in DOMAIN ps : Timely(c, ps[k])
    PROVE  Returned(d, c, to \o ps)
<1> DEFINE q == to \o ps
           n == Len(d.unacked)
           K == Acknowledged(d)
           A == Accepted(c)
<1> SUFFICES ASSUME d.reason = "None" PROVE Returned(d, c, q)  BY DEF Returned
<1>1. A \in Nat /\ K \in Nat /\ n \in Nat  BY Positions, AcceptedIs, Fields
<1>2. ASSUME NEW k \in DOMAIN ps, IsAck(ps[k])
      PROVE  /\ c.reason = "None" /\ K <= A
             /\ Covers(d, ps[k]) = A - K /\ Covers(d, ps[k]) <= n
  <2>1. c.reason = "None" /\ ps[k].rx = c.vr  BY <1>2 DEF Timely
  <2>2. K <= A  BY <2>1 DEF Returned
  <2> QED  BY <2>1, <2>2, FreshAck
<1>3. ASSUME NEW k \in DOMAIN to, IsAck(to[k])
      PROVE  /\ Covers(d, to[k]) <= n
             /\ c.reason = "None" => K + Covers(d, to[k]) <= A
  BY <1>3 DEF Returned
<1>4. ASSUME NEW p \in Packet PROVE Covers(d, p) \in Int
  <2>1. p.rx \in Seqno /\ d.va \in Seqno  BY PacketFields, Fields
  <2>2. p.rx - d.va \in Int /\ Modulus \in Nat /\ Modulus > 0  BY <2>1, ModulusAssumption DEF Seqno
  <2> QED  BY <2>2, ModBasic DEF Covers
<1>5. ASSUME NEW k \in DOMAIN q
      PROVE  /\ k \in Nat /\ k >= 1
             /\ \/ k \in DOMAIN to /\ k <= Len(to) /\ q[k] = to[k]
                \/ k > Len(to) /\ k - Len(to) \in DOMAIN ps /\ q[k] = ps[k - Len(to)]
  BY CatAt
<1> HIDE DEF q, n, K, A
<1>6. ASSUME NEW k \in DOMAIN q, IsAck(q[k])
      PROVE  /\ Covers(d, q[k]) <= n
             /\ c.reason = "None" => K + Covers(d, q[k]) <= A
  <2>1. CASE k \in DOMAIN to /\ q[k] = to[k]  BY <1>3, <1>6, <2>1
  <2>2. CASE k - Len(to) \in DOMAIN ps /\ q[k] = ps[k - Len(to)]
    <3> DEFINE j == k - Len(to)
    <3>1. j \in DOMAIN ps /\ q[k] = ps[j]  BY <2>2
    <3> HIDE DEF j
    <3>2. K <= A /\ Covers(d, ps[j]) = A - K /\ Covers(d, ps[j]) <= n  BY <1>2, <1>6, <3>1
    <3>3. K + (A - K) <= A  BY <1>1
    <3> QED  BY <3>1, <3>2, <3>3
  <2> QED  BY <1>5, <2>1, <2>2
<1>7. ASSUME NEW k \in DOMAIN q, NEW l \in DOMAIN q, k < l, IsAck(q[k]), IsAck(q[l])
      PROVE  Covers(d, q[k]) <= Covers(d, q[l])
  <2>0. Len(to) \in Nat /\ k \in Nat /\ l \in Nat  BY <1>5
  <2>1. CASE l \in DOMAIN to /\ l <= Len(to) /\ q[l] = to[l]
    <3>1. ~(k > Len(to))  BY <1>7, <2>0, <2>1
    <3>2. k \in DOMAIN to /\ q[k] = to[k]  BY <1>5, <3>1
    <3> QED  BY <1>7, <2>1, <3>2 DEF Returned
  <2>2. CASE l > Len(to) /\ l - Len(to) \in DOMAIN ps /\ q[l] = ps[l - Len(to)]
    <3> DEFINE j == l - Len(to)
    <3>1. j \in DOMAIN ps /\ q[l] = ps[j]  BY <2>2
    <3> HIDE DEF j
    <3>2. c.reason = "None" /\ K <= A /\ Covers(d, ps[j]) = A - K  BY <1>2, <1>7, <3>1
    <3>3. K + Covers(d, q[k]) <= A  BY <1>6, <1>7, <3>2
    <3>4. q[k] \in Packet
      <4>1. to \o ps \in Seq(Packet)  BY CatType
      <4> QED  BY <4>1 DEF q
    <3>5. Covers(d, q[k]) \in Int  BY <1>4, <3>4
    <3> DEFINE x == Covers(d, q[k])
    <3> HIDE DEF x
    <3>6. x <= A - K  BY <1>1, <3>3, <3>5 DEF x
    <3> QED  BY <3>1, <3>2, <3>6 DEF x
  <2> QED  BY <1>5, <2>1, <2>2
<1>8. c.reason = "None" => K <= A  BY DEF Returned, K, A
<1> QED  BY <1>6, <1>7, <1>8 DEF Returned, n, K, A

\* Nothing but a Connect Request may follow a Connect Request, and so on.
LEMMA SentIsShaken ==
    ASSUME NEW c, NEW to \in Seq(Packet), Shaken(c, to),
           NEW ps \in Seq(Packet), \A k \in DOMAIN ps : Timely(c, ps[k])
    PROVE  Shaken(c, to \o ps)
<1> DEFINE q == to \o ps
<1>0. CASE ps = <<>>
  <2>1. to \o ps = to  BY <1>0
  <2> QED  BY <2>1
<1> SUFFICES ASSUME ps # <<>> PROVE Shaken(c, q)  BY <1>0
<1>1. c.state # "Connecting"
  <2>1. 1 \in DOMAIN ps  OBVIOUS
  <2> QED  BY <2>1 DEF Timely
<1>2. ASSUME NEW k \in DOMAIN q
      PROVE  /\ k \in Nat /\ k >= 1
             /\ \/ k \in DOMAIN to /\ k <= Len(to) /\ q[k] = to[k]
                \/ k > Len(to) /\ k - Len(to) \in DOMAIN ps /\ q[k] = ps[k - Len(to)]
  BY CatAt
<1> HIDE DEF q
<1>3. ASSUME NEW k \in DOMAIN q
      PROVE  /\ q[k].op = "ConnectRequest" =>
                  /\ c.mintedFor = 0 /\ q[k].key = c.localKey /\ q[k].inc = c.inc
                  /\ q[k].win = Clamp(c.windowSize, 1, MaxWindow)
             /\ IsAccept(q[k]) =>
                  c.mintedFor # 0 /\ q[k].win = c.window /\ c.window \in 1 .. MaxWindow
             /\ c.mintedFor # 0 /\ q[k].op = "DisconnectRequest" => q[k].key = c.peerKey[2]
  <2>1. CASE k \in DOMAIN to /\ q[k] = to[k]  BY <2>1 DEF Shaken
  <2>2. CASE k - Len(to) \in DOMAIN ps /\ q[k] = ps[k - Len(to)]  BY <2>2 DEF Timely
  <2> QED  BY <1>2, <2>1, <2>2
<1>4. ASSUME NEW k \in DOMAIN q, NEW l \in DOMAIN q, k < l, q[l].op = "ConnectRequest"
      PROVE  q[k].op = "ConnectRequest"
  <2>0. Len(to) \in Nat /\ k \in Nat /\ l \in Nat  BY <1>2
  <2>1. ~(l - Len(to) \in DOMAIN ps /\ q[l] = ps[l - Len(to)])  BY <1>4 DEF Timely
  <2>2. l \in DOMAIN to /\ l <= Len(to) /\ q[l] = to[l]  BY <1>2, <2>1
  <2>3. ~(k > Len(to))  BY <1>4, <2>0, <2>2
  <2>4. k \in DOMAIN to /\ q[k] = to[k]  BY <1>2, <2>3
  <2> QED  BY <1>4, <2>2, <2>4 DEF Shaken
<1>5. c.mintedFor # 0 =>
         (Open(c) => c.remoteKey = c.peerKey[2] /\ c.window \in 1 .. MaxWindow)
  BY DEF Shaken
<1> QED  BY <1>1, <1>3, <1>4, <1>5 DEF Shaken

\* Sending timely packets keeps the invariant.
LEMMA EmitPair ==
    ASSUME NEW c \in Circuit, NEW d \in Circuit,
           NEW to \in Seq(Packet), NEW from, Pair(c, d, to, from),
           NEW ps \in Seq(Packet), \A k \in DOMAIN ps : Timely(c, ps[k])
    PROVE  Pair(c, d, to \o ps, from)
<1>1. /\ Numbered(c) /\ Assembled(d, c) /\ Carried(c, d, to) /\ Returned(c, d, from)
      /\ Shaken(c, to)
      /\ Numbered(d) /\ Assembled(c, d) /\ Carried(d, c, from) /\ Returned(d, c, to)
      /\ Shaken(d, from)
  BY DEF Pair, Direction
<1>2. CASE ps = <<>>
  <2>1. to \o ps = to  BY <1>2
  <2> QED  BY <2>1
<1>3. CASE \E k \in DOMAIN ps : IsInfo(ps[k])
  <2>1. c.reason = "None"  BY <1>3 DEF Timely, IsInfo, IsAck
  <2>2. d.reason = "None" => Acknowledged(c) <= Accepted(d)  BY <1>1, <2>1 DEF Returned
  <2>3. Carried(c, d, to \o ps)  BY <1>1, <2>2, SentIsCarried
  <2> QED  BY <1>1, <2>3, SentIsReturned, SentIsShaken DEF Pair, Direction
<1>4. CASE ~ \E k \in DOMAIN ps : IsInfo(ps[k])
  <2> DEFINE q == to \o ps
  <2>1. ASSUME NEW k \in DOMAIN q, IsInfo(q[k])
        PROVE  k \in DOMAIN to /\ q[k] = to[k]
    BY <1>4, <2>1, CatAt
  <2> HIDE DEF q
  <2>2. Carried(c, d, q)  BY <1>1, <2>1 DEF Carried
  <2> QED  BY <1>1, <2>2, SentIsReturned, SentIsShaken DEF Pair, Direction, q
<1> QED  BY <1>3, <1>4

-----------------------------------------------------------------------------
(* A handler at work *)

\* The invariant while a handler runs on c: what it has emitted so far follows
\* what is already under way, and is no Connect Request.
Within(c, d, to, from) ==
    /\ Pair(c, d, to \o c.out, from)
    /\ \A k \in DOMAIN c.out : c.out[k].op # "ConnectRequest"

\* Emission within a handler.
LEMMA EmitWithin ==
    ASSUME NEW c \in Circuit, NEW d \in Circuit, NEW to \in Seq(Packet), NEW from,
           Within(c, d, to, from),
           NEW ps \in Seq(Packet), \A k \in DOMAIN ps : Timely(c, ps[k])
    PROVE  Within(Emit(c, ps), d, to, from)
<1> DEFINE e == Emit(c, ps)
           o == c.out
<1>1. o \in Seq(Packet)  BY Fields
<1>2. e.out = o \o ps  BY DEF Emit, Circuit
<1>3. SameStream(c, e) /\ SameHand(c, e)
  BY DEF SameStream, SameHand, Emit, Circuit, Open
<1>4. Pair(c, d, to \o o, from)  BY DEF Within
<1>10. \A k \in DOMAIN o : o[k].op # "ConnectRequest"  BY DEF Within
<1>5. Within(e, d, to, from) <=>
        /\ Pair(e, d, to \o e.out, from)
        /\ \A k \in DOMAIN e.out : e.out[k].op # "ConnectRequest"
  BY DEF Within
<1>11. \A k \in DOMAIN e.out : e.out[k].op # "ConnectRequest"
  <2> SUFFICES ASSUME NEW k \in DOMAIN (o \o ps) PROVE (o \o ps)[k].op # "ConnectRequest"
    BY <1>2
  <2> HIDE DEF o, e
  <2>1. \/ k \in DOMAIN o /\ (o \o ps)[k] = o[k]
        \/ k - Len(o) \in DOMAIN ps /\ (o \o ps)[k] = ps[k - Len(o)]
    BY <1>1, CatAt
  <2> QED  BY <1>10, <2>1 DEF Timely
<1> HIDE DEF e, o
<1>6. to \o o \in Seq(Packet)  BY <1>1, CatType
<1>7. Pair(c, d, (to \o o) \o ps, from)  BY <1>4, <1>6, EmitPair
<1>8. (to \o o) \o ps = to \o (o \o ps)  BY <1>1
<1>9. Pair(e, d, (to \o o) \o ps, from)  BY <1>3, <1>7, SamePair
<1> QED  BY <1>2, <1>5, <1>8, <1>9, <1>11 DEF e

\* A step that only touches what the invariant does not look at.
LEMMA SameWithin ==
    ASSUME NEW c, NEW e, SameStream(c, e), SameHand(c, e), e.out = c.out,
           NEW d, NEW to, NEW from, Within(c, d, to, from)
    PROVE  Within(e, d, to, from)
BY SamePair DEF Within

\* Any messages in flight may be sent.
LEMMA SendInformationWithin ==
    ASSUME NEW c \in Circuit, NEW d \in Circuit, NEW to \in Seq(Packet), NEW from,
           Within(c, d, to, from), c.reason = "None", c.state # "Connecting",
           NEW us \in Seq(Unacked),
           \A i \in DOMAIN us : \E k \in DOMAIN c.unacked :
              /\ us[i].seq = c.unacked[k].seq /\ us[i].body = c.unacked[k].body
              /\ us[i].more = c.unacked[k].more
    PROVE  Within(SendInformation(c, us), d, to, from)
<1> DEFINE ps == [i \in DOMAIN us |-> InformationOf(c, us[i])]
<1>1. SendInformation(c, us) = Emit(c, ps)  BY DEF SendInformation
<1>2. ps \in Seq(Packet) /\ DOMAIN ps = DOMAIN us
  <2>1. \A i \in DOMAIN us : us[i] \in Unacked  OBVIOUS
  <2>2. \A u \in Unacked : InformationOf(c, u) \in Packet
    <3> SUFFICES ASSUME NEW u \in Unacked PROVE InformationOf(c, u) \in Packet  OBVIOUS
    <3> DEFINE b == Blank("Information", c.remoteKey, c.inc)
    <3>1. c.remoteKey \in Key /\ c.inc \in Nat /\ c.vr \in Seqno /\ c.localChoked \in BOOLEAN
      BY DEF Circuit
    <3>2. b \in Packet  BY <3>1, BlankType DEF Opcode
    <3>3. u.seq \in Seqno /\ u.body \in Body /\ u.more \in BOOLEAN  BY DEF Unacked
    <3> HIDE DEF b
    <3>4. [b EXCEPT !.tx = u.seq, !.rx = c.vr, !.more = u.more, !.body = u.body,
                    !.choke = c.localChoked] \in Packet
      BY <3>1, <3>2, <3>3 DEF Packet
    <3> QED  BY <3>4 DEF InformationOf, b
  <2>3. \A i \in DOMAIN us : InformationOf(c, us[i]) \in Packet  BY <2>1, <2>2
  <2> QED  BY <2>3
<1>3. ASSUME NEW i \in DOMAIN ps PROVE Timely(c, ps[i])
  <2>1. i \in DOMAIN us /\ ps[i] = InformationOf(c, us[i])  BY <1>2
  <2>2. PICK k \in DOMAIN c.unacked :
              /\ us[i].seq = c.unacked[k].seq /\ us[i].body = c.unacked[k].body
              /\ us[i].more = c.unacked[k].more
    BY <2>1
  <2> DEFINE u == us[i]
             p == InformationOf(c, u)
  <2>3. /\ p.op = "Information" /\ p.rx = c.vr /\ p.tx = u.seq /\ p.body = u.body
        /\ p.more = u.more
    BY DEF InformationOf, Blank
  <2> HIDE DEF p
  <2>4. Timely(c, p)
    BY <2>2, <2>3 DEF Timely, IsInfo, IsAck, IsAccept
  <2> QED  BY <2>1, <2>4 DEF p
<1> HIDE DEF ps
<1> QED  BY <1>1, <1>2, <1>3, EmitWithin

\* A single packet.
LEMMA EmitOneWithin ==
    ASSUME NEW c \in Circuit, NEW d \in Circuit, NEW to \in Seq(Packet), NEW from,
           Within(c, d, to, from), NEW p \in Packet, Timely(c, p)
    PROVE  Within(Emit(c, <<p>>), d, to, from)
<1> DEFINE ps == <<p>>
<1>1. ps \in Seq(Packet) /\ \A k \in DOMAIN ps : ps[k] = p  OBVIOUS
<1> HIDE DEF ps
<1>2. \A k \in DOMAIN ps : Timely(c, ps[k])  BY <1>1
<1>3. Within(Emit(c, ps), d, to, from)  BY <1>1, <1>2, EmitWithin
<1> QED  BY <1>3 DEF ps

\* An acknowledgement of what has been accepted.
LEMMA SendInformationAcknowledgeWithin ==
    ASSUME NEW c \in Circuit, NEW d \in Circuit, NEW to \in Seq(Packet), NEW from,
           Within(c, d, to, from), c.reason = "None", c.state # "Connecting",
           NEW nak \in BOOLEAN
    PROVE  Within(SendInformationAcknowledge(c, nak), d, to, from)
<1> DEFINE b == Blank("InformationAcknowledge", c.remoteKey, c.inc)
           p == [b EXCEPT !.rx = c.vr, !.nak = nak, !.choke = c.localChoked]
<1>1. c.remoteKey \in Key /\ c.inc \in Nat /\ c.vr \in Seqno /\ c.localChoked \in BOOLEAN
  BY DEF Circuit
<1>2. b \in Packet  BY <1>1, BlankType DEF Opcode
<1>3. b.op = "InformationAcknowledge"  BY DEF Blank
<1> HIDE DEF b
<1>4. p \in Packet /\ p.op = "InformationAcknowledge" /\ p.rx = c.vr
  BY <1>1, <1>2, <1>3 DEF Packet
<1>5. SendInformationAcknowledge(c, nak) = Emit(c, <<p>>)
  BY DEF SendInformationAcknowledge, b
<1> HIDE DEF p
<1>6. Timely(c, p)  BY <1>4 DEF Timely, IsInfo, IsAck, IsAccept
<1> QED  BY <1>4, <1>5, <1>6, EmitOneWithin

\* A Disconnect Request, and the answer to one.
LEMMA SendDisconnectWithin ==
    ASSUME NEW c \in Circuit, NEW d \in Circuit, NEW to \in Seq(Packet), NEW from,
           Within(c, d, to, from), c.state # "Connecting", NEW asker \in Nat
    PROVE  /\ Open(c) => Within(SendDisconnectRequest(c), d, to, from)
           /\ Within(SendDisconnectAcknowledge(c, asker), d, to, from)
<1> DEFINE p == Blank("DisconnectRequest", c.remoteKey, c.inc)
           a == Blank("DisconnectAcknowledge", c.remoteKey, asker)
<1>1. c.remoteKey \in Key /\ c.inc \in Nat  BY DEF Circuit
<1>2. p \in Packet /\ a \in Packet  BY <1>1, BlankType DEF Opcode
<1>3. /\ p.op = "DisconnectRequest" /\ p.key = c.remoteKey
      /\ a.op = "DisconnectAcknowledge"
  BY DEF Blank
<1>4. SendDisconnectRequest(c) = Emit(c, <<p>>) /\ SendDisconnectAcknowledge(c, asker) = Emit(c, <<a>>)
  BY DEF SendDisconnectRequest, SendDisconnectAcknowledge
<1> HIDE DEF p, a
<1>5. Open(c) /\ c.mintedFor # 0 => c.remoteKey = c.peerKey[2]
  BY DEF Within, Pair, Direction, Shaken
<1>6. Timely(c, a) /\ (Open(c) => Timely(c, p))
  BY <1>3, <1>5 DEF Timely, IsInfo, IsAck, IsAccept
<1> QED  BY <1>2, <1>4, <1>6, EmitOneWithin

\* The acceptance of a Connect Request, again.
LEMMA SendConnectAcknowledgeWithin ==
    ASSUME NEW c \in Circuit, NEW d \in Circuit, NEW to \in Seq(Packet), NEW from,
           Within(c, d, to, from), c.state # "Connecting",
           c.mintedFor # 0, c.window \in 1 .. MaxWindow
    PROVE  Within(SendConnectAcknowledge(c, FALSE), d, to, from)
<1> DEFINE b == Blank("ConnectAcknowledge", c.remoteKey, c.inc)
           p == [b EXCEPT !.own = c.localKey, !.choke = FALSE, !.win = c.window]
<1>1. c.remoteKey \in Key /\ c.inc \in Nat /\ c.localKey \in Key /\ c.window \in Nat
  BY DEF Circuit
<1>2. b \in Packet /\ b.op = "ConnectAcknowledge"  BY <1>1, BlankType DEF Opcode, Blank
<1>3. SendConnectAcknowledge(c, FALSE) = Emit(c, <<p>>)
  BY DEF SendConnectAcknowledge
<1> HIDE DEF b
<1>4. p \in Packet /\ p.op = "ConnectAcknowledge" /\ p.win = c.window
  BY <1>1, <1>2 DEF Packet
<1> HIDE DEF p
<1>5. Timely(c, p)  BY <1>4 DEF Timely, IsInfo, IsAck, IsAccept
<1> QED  BY <1>3, <1>4, <1>5, EmitOneWithin

-----------------------------------------------------------------------------
(* One side at a time *)

SameReceiver(c, e) == /\ e.got = c.got /\ e.reassembly = c.reassembly /\ e.vr = c.vr
                      /\ e.reason = c.reason

\* What an end that only sends leaves alone.
LEMMA ReceiverSide ==
    ASSUME NEW c, NEW e, SameReceiver(c, e), NEW d, NEW q
    PROVE  /\ Accepted(e) = Accepted(c) /\ Delivered(e) = Delivered(c)
           /\ Assembled(c, d) => Assembled(e, d)
           /\ Carried(d, c, q) => Carried(d, e, q)
           /\ Returned(d, c, q) => Returned(d, e, q)
<1>1. Accepted(e) = Accepted(c) /\ Delivered(e) = Delivered(c)
  BY DEF SameReceiver, Accepted, Delivered
<1>2. \A f : WholeFrame(e, f, d) = WholeFrame(c, f, d)  BY DEF SameReceiver, WholeFrame
<1>3. Assembled(c, d) => Assembled(e, d)
  BY <1>1, <1>2 DEF SameReceiver, Assembled
<1>4. Carried(d, c, q) => Carried(d, e, q)  BY <1>1 DEF SameReceiver, Carried
<1>5. Returned(d, c, q) => Returned(d, e, q)  BY <1>1 DEF SameReceiver, Returned
<1> QED  BY <1>1, <1>3, <1>4, <1>5

SameSender(c, e) == /\ e.sent = c.sent /\ e.sendQueue = c.sendQueue /\ e.unacked = c.unacked
                    /\ e.vs = c.vs /\ e.va = c.va /\ e.inc = c.inc /\ e.reason = c.reason

\* What an end that only receives leaves alone.
LEMMA SenderSide ==
    ASSUME NEW c, NEW e, SameSender(c, e), NEW d, NEW q
    PROVE  /\ Transmitted(e) = Transmitted(c) /\ Acknowledged(e) = Acknowledged(c)
           /\ Numbered(c) /\ (e.state = "Connected" => e.window <= MaxWindow) => Numbered(e)
           /\ Assembled(d, c) => Assembled(d, e)
           /\ Carried(c, d, q) => Carried(e, d, q)
           /\ Returned(c, d, q) => Returned(e, d, q)
<1>1. Transmitted(e) = Transmitted(c) /\ Acknowledged(e) = Acknowledged(c)
  BY DEF SameSender, Transmitted, Acknowledged
<1>2. \A f : WholeFrame(d, f, e) = WholeFrame(d, f, c)  BY DEF SameSender, WholeFrame
<1>3. Assembled(d, c) => Assembled(d, e)
  BY <1>1, <1>2 DEF SameSender, Assembled
<1>4. Carried(c, d, q) => Carried(e, d, q)  BY <1>1 DEF SameSender, Carried
<1>5. \A p : Covers(e, p) = Covers(c, p)  BY DEF SameSender, Covers
<1>6. Returned(c, d, q) => Returned(e, d, q)  BY <1>1, <1>5 DEF SameSender, Returned
<1>7. Numbered(c) /\ (e.state = "Connected" => e.window <= MaxWindow) => Numbered(e)
  BY <1>1 DEF SameSender, Numbered
<1> QED  BY <1>1, <1>3, <1>4, <1>6, <1>7

-----------------------------------------------------------------------------
(* pumpSendQueue *)

\* The entries fresh messages get.
FreshMessages(c, n) ==
    [i \in 1 .. n |-> [seq |-> NextSeq(c.vs, i - 1), retries |-> 0,
                       body |-> c.sendQueue[i].body, more |-> c.sendQueue[i].more]]

\* The elements of a concatenation.
LEMMA CatIndex ==
    ASSUME NEW S, NEW a \in Seq(S), NEW b \in Seq(S)
    PROVE  /\ Len(a \o b) = Len(a) + Len(b) /\ DOMAIN (a \o b) = 1 .. Len(a) + Len(b)
           /\ \A k \in 1 .. Len(a) + Len(b) :
                 (a \o b)[k] = IF k <= Len(a) THEN a[k] ELSE b[k - Len(a)]
OBVIOUS

\* The rest of a sequence after its first n elements.
LEMMA RestOf ==
    ASSUME NEW S, NEW q \in Seq(S), NEW n \in Nat, n <= Len(q)
    PROVE  /\ SubSeq(q, n + 1, Len(q)) \in Seq(S)
           /\ Len(SubSeq(q, n + 1, Len(q))) = Len(q) - n
           /\ \A k \in 1 .. Len(q) - n : SubSeq(q, n + 1, Len(q))[k] = q[n + k] /\ n + k \in DOMAIN q
OBVIOUS

\* Where a position of the longer flight, or of the shorter queue, comes from.
LEMMA FillIndices ==
    \A T, K, u, b, n \in Nat : T = K + u /\ n <= b =>
       /\ \A k \in 1 .. u + n :
             IF k <= u THEN k \in 1 .. u
             ELSE /\ k - u \in 1 .. n /\ k - u \in 1 .. b /\ k - u - 1 \in Nat
                  /\ T + (k - u) = K + k /\ T + (k - u - 1) = K + k - 1
       /\ \A k \in 1 .. b - n : n + k \in 1 .. b /\ T + (n + k) = (T + n) + k
OBVIOUS

\* Numbering the head of the queue keeps the stream contiguous.
LEMMA FillNumbered ==
    ASSUME NEW c \in Circuit, Numbered(c), c.reason = "None", c.state = "Connected",
           NEW n \in Nat, n <= Len(c.sendQueue), Len(c.unacked) + n <= c.window,
           NEW fresh \in Seq(Unacked), fresh = FreshMessages(c, n),
           NEW us, us = c.unacked \o fresh,
           NEW e, e.vs = NextSeq(c.vs, n), e.unacked = us,
           e.sendQueue = SubSeq(c.sendQueue, n + 1, Len(c.sendQueue)),
           e.va = c.va, e.sent = c.sent, e.inc = c.inc, e.reason = c.reason,
           e.state = c.state, e.window = c.window
    PROVE  /\ Numbered(e) /\ Transmitted(e) = Transmitted(c) + n
           /\ Acknowledged(e) = Acknowledged(c) /\ Len(e.unacked) = Len(c.unacked) + n
<1> DEFINE T == Transmitted(c)
           K == Acknowledged(c)
           u == Len(c.unacked)
           b == Len(c.sendQueue)
           a == Len(c.sent)
           q == SubSeq(c.sendQueue, n + 1, b)
<1>1. /\ T \in Nat /\ K \in Nat /\ u \in Nat /\ b \in Nat /\ a \in Nat /\ T = K + u /\ T + b = a
      /\ MaxWindow \in Nat /\ c.window \in Nat /\ c.window <= MaxWindow
      /\ n <= b /\ u + n <= c.window
  BY Positions, Fields, HorizonFacts DEF Numbered
<1>2. /\ e.vs = NextSeq(c.vs, n) /\ e.va = c.va /\ e.unacked = us /\ e.sendQueue = q
      /\ e.sent = c.sent /\ e.inc = c.inc /\ e.reason = c.reason
      /\ e.state = c.state /\ e.window = c.window
  OBVIOUS
<1>3. /\ Len(fresh) = n /\ DOMAIN fresh = 1 .. n
      /\ \A i \in 1 .. n : /\ fresh[i].seq = NextSeq(c.vs, i - 1)
                           /\ fresh[i].body = c.sendQueue[i].body
                           /\ fresh[i].more = c.sendQueue[i].more
  BY DEF FreshMessages
<1>4. /\ Len(us) = u + n /\ DOMAIN us = 1 .. u + n
      /\ \A k \in 1 .. u + n : us[k] = IF k <= u THEN c.unacked[k] ELSE fresh[k - u]
  <2>1. c.unacked \in Seq(Unacked)  BY Fields
  <2> DEFINE v == c.unacked
  <2>2. us = v \o fresh /\ v \in Seq(Unacked) /\ u = Len(v)  BY <2>1
  <2> HIDE DEF v
  <2>3. /\ Len(us) = Len(v) + n /\ DOMAIN us = 1 .. Len(v) + n
        /\ \A k \in 1 .. Len(v) + n : us[k] = IF k <= Len(v) THEN v[k] ELSE fresh[k - Len(v)]
    BY <1>3, <2>2, CatIndex
  <2> QED  BY <2>2, <2>3 DEF v
<1>5. /\ Len(q) = b - n /\ DOMAIN q = 1 .. b - n
      /\ \A k \in 1 .. b - n : q[k] = c.sendQueue[n + k] /\ n + k \in DOMAIN c.sendQueue
  <2>1. c.sendQueue \in Seq(Fragment)  BY Fields
  <2>2. q \in Seq(Fragment) /\ Len(q) = b - n
        /\ \A k \in 1 .. b - n : q[k] = c.sendQueue[n + k] /\ n + k \in DOMAIN c.sendQueue
    BY <1>1, <2>1, RestOf
  <2> HIDE DEF q
  <2> QED  BY <2>2
<1>6. /\ Transmitted(e) = Len(e.sent) - Len(e.sendQueue)
      /\ Acknowledged(e) = Transmitted(e) - Len(e.unacked)
  BY DEF Transmitted, Acknowledged
<1>7. DOMAIN c.unacked = 1 .. u /\ DOMAIN c.sendQueue = 1 .. b  BY Fields
<1>8. /\ \A k \in 1 .. u : /\ c.unacked[k].seq = (K + k - 1) % Modulus
                           /\ c.unacked[k].body = <<c.inc, K + k>>
                           /\ c.unacked[k].more = c.sent[K + k]
      /\ \A k \in 1 .. b : /\ c.sendQueue[k].body = <<c.inc, T + k>>
                           /\ c.sendQueue[k].more = c.sent[T + k]
      /\ c.vs = T % Modulus /\ c.va = K % Modulus
  BY <1>7 DEF Numbered
<1> HIDE DEF T, K, u, b, a, q
<1>9. Len(e.sent) = a /\ Len(e.sendQueue) = b - n /\ Len(e.unacked) = u + n
  BY <1>2, <1>4, <1>5 DEF a
<1>10. Transmitted(e) = T + n /\ Acknowledged(e) = K
  <2> DEFINE t == Transmitted(e)
             k == Acknowledged(e)
  <2> HIDE DEF t, k
  <2>1. t = a - (b - n) /\ k = t - (u + n)  BY <1>6, <1>9 DEF t, k
  <2>2. t = T + n /\ k = K  BY SMTT(60), <1>1, <2>1
  <2> QED  BY <2>2 DEF t, k
<1>11. \A x \in Nat : NextSeq(c.vs, x) = (T + x) % Modulus
  <2> SUFFICES ASSUME NEW x \in Nat PROVE NextSeq(c.vs, x) = (T + x) % Modulus  OBVIOUS
  <2>1. T \in Int /\ x \in Int  BY <1>1
  <2> QED  BY <1>8, <2>1, ModAdd DEF NextSeq
<1>17. /\ \A k \in 1 .. u + n :
                IF k <= u THEN k \in 1 .. u
                ELSE /\ k - u \in 1 .. n /\ k - u \in 1 .. b /\ k - u - 1 \in Nat
                     /\ T + (k - u) = K + k /\ T + (k - u - 1) = K + k - 1
       /\ \A k \in 1 .. b - n : n + k \in 1 .. b /\ T + (n + k) = (T + n) + k
  <2>1. T \in Nat /\ K \in Nat /\ u \in Nat /\ b \in Nat /\ n \in Nat /\ T = K + u /\ n <= b
    BY <1>1
  <2> QED  BY ONLY <2>1, FillIndices
<1>12. ASSUME NEW k \in 1 .. u + n
       PROVE  /\ us[k].seq = (K + k - 1) % Modulus
              /\ us[k].body = <<c.inc, K + k>> /\ us[k].more = c.sent[K + k]
  <2>1. CASE k <= u
    <3>1. k \in 1 .. u /\ us[k] = c.unacked[k]  BY <1>4, <1>17, <2>1
    <3> QED  BY <1>8, <3>1
  <2>2. CASE ~(k <= u)
    <3> DEFINE j == k - u
    <3>1. j \in 1 .. n /\ j \in 1 .. b /\ T + j = K + k /\ j - 1 \in Nat /\ T + (j - 1) = K + k - 1
      BY <1>17, <2>2
    <3>2. us[k] = fresh[j]  BY <1>4, <2>2
    <3> HIDE DEF j
    <3>3. us[k].seq = (T + (j - 1)) % Modulus  BY <1>3, <1>11, <3>1, <3>2
    <3>4. us[k].body = <<c.inc, T + j>>  BY <1>3, <1>8, <3>1, <3>2
    <3>5. us[k].more = c.sent[T + j]  BY Zenon, <1>3, <1>8, <3>1, <3>2
    <3> QED  BY <3>1, <3>3, <3>4, <3>5
  <2> QED  BY <2>1, <2>2
<1>13. ASSUME NEW k \in 1 .. b - n
       PROVE  q[k].body = <<c.inc, (T + n) + k>> /\ q[k].more = c.sent[(T + n) + k]
  <2> DEFINE j == n + k
  <2>1. j \in 1 .. b /\ T + j = (T + n) + k  BY <1>17
  <2>2. q[k] = c.sendQueue[j]  BY <1>5
  <2> HIDE DEF j
  <2>3. q[k].body = <<c.inc, T + j>>  BY <1>8, <2>1, <2>2
  <2>4. q[k].more = c.sent[T + j]  BY Zenon, <1>8, <2>1, <2>2
  <2>5. q[k].body = <<c.inc, (T + n) + k>>  BY <2>1, <2>3
  <2>6. q[k].more = c.sent[(T + n) + k]  BY Zenon, <2>1, <2>4
  <2> QED  BY <2>5, <2>6
<1>14. /\ Len(e.sendQueue) + Len(e.unacked) <= Len(e.sent) /\ Len(e.unacked) <= MaxWindow
  <2>0. /\ n \in Nat /\ u \in Nat /\ b \in Nat /\ a \in Nat /\ T \in Nat /\ K \in Nat
        /\ T = K + u /\ T + b = a /\ n <= b
        /\ MaxWindow \in Nat /\ c.window \in Nat /\ c.window <= MaxWindow /\ u + n <= c.window
    BY <1>1
  <2>1. (b - n) + (u + n) <= a /\ u + n <= MaxWindow  BY ONLY <2>0
  <2> QED  BY <1>9, <2>1
<1>15. e.vs = Transmitted(e) % Modulus /\ e.va = Acknowledged(e) % Modulus
  BY <1>2, <1>8, <1>10, <1>11
<1>16. Numbered(e)
  <2>1. \A k \in DOMAIN e.unacked :
          /\ e.unacked[k].seq = (Acknowledged(e) + k - 1) % Modulus
          /\ e.unacked[k].body = <<e.inc, Acknowledged(e) + k>>
          /\ e.unacked[k].more = e.sent[Acknowledged(e) + k]
    BY <1>2, <1>4, <1>10, <1>12
  <2>2. \A k \in DOMAIN e.sendQueue :
          /\ e.sendQueue[k].body = <<e.inc, Transmitted(e) + k>>
          /\ e.sendQueue[k].more = e.sent[Transmitted(e) + k]
    BY <1>2, <1>5, <1>10, <1>13
  <2>3. e.state = "Connected" => e.window <= MaxWindow  BY <1>1, <1>2
  <2> QED  BY <1>14, <1>15, <2>1, <2>2, <2>3 DEF Numbered
<1> QED  BY <1>9, <1>10, <1>16 DEF T, K, u

\* Covering is counted in the sequence space.
LEMMA CoversRange ==
    ASSUME NEW s \in Circuit, NEW p \in Packet
    PROVE  Covers(s, p) \in Nat /\ Covers(s, p) < Modulus
<1>1. p.rx \in Seqno /\ s.va \in Seqno  BY PacketFields, Fields
<1>2. Modulus \in Nat /\ Modulus > 0  BY ModulusAssumption
<1>3. p.rx - s.va \in Int  BY <1>1, <1>2 DEF Seqno
<1>4. (p.rx - s.va) % Modulus \in 0 .. Modulus - 1  BY <1>3, ModBasic
<1> QED  BY <1>2, <1>4 DEF Covers

\* A sender that only queued, numbered or, on closing, dropped data.
Grown(c, e) ==
    /\ e.inc = c.inc
    /\ \A x \in DOMAIN c.sent : x \in DOMAIN e.sent /\ e.sent[x] = c.sent[x]
    /\ Transmitted(c) <= Transmitted(e)
    /\ e.reason = "None" =>
          /\ c.reason = "None" /\ e.va = c.va /\ Acknowledged(e) = Acknowledged(c)
          /\ Len(c.unacked) <= Len(e.unacked)

\* Nothing is lost to the receiver by that.
LEMMA GrownSender ==
    ASSUME NEW c \in Circuit, NEW e \in Circuit, NEW d \in Circuit, Grown(c, e),
           Numbered(c), Transmitted(e) \in Nat,
           NEW q \in Seq(Packet)
    PROVE  /\ Assembled(d, c) => Assembled(d, e)
           /\ Carried(c, d, q) => Carried(e, d, q)
           /\ Returned(c, d, q) => Returned(e, d, q)
<1> DEFINE T == Transmitted(c)
           U == Transmitted(e)
           u == Len(c.unacked)
           v == Len(e.unacked)
<1>1. T \in Nat /\ U \in Nat /\ T <= U /\ u \in Nat /\ v \in Nat /\ T <= Len(c.sent)
      /\ DOMAIN c.sent = 1 .. Len(c.sent) /\ Len(c.sent) \in Nat
  BY Positions, Fields DEF Grown
<1>2. ASSUME NEW f \in DOMAIN d.got, WholeFrame(d, f, c) PROVE WholeFrame(d, f, e)
  BY <1>2, Zenon DEF WholeFrame, Grown
<1>3. ASSUME Assembled(d, c) PROVE Assembled(d, e)
  <2>1. \A f \in DOMAIN d.got : WholeFrame(d, f, e)  BY <1>2, <1>3 DEF Assembled
  <2>2. \A k \in DOMAIN d.reassembly :
          /\ Delivered(d) + k \in DOMAIN e.sent
          /\ d.reassembly[k] = <<e.inc, Delivered(d) + k>>
          /\ e.sent[Delivered(d) + k]
    BY <1>3, Zenon DEF Assembled, Grown
  <2>3. Accepted(d) <= U
    <3> DEFINE A == Accepted(d)
    <3>1. A \in Nat /\ A <= T  BY <1>3, AcceptedIs DEF Assembled
    <3> HIDE DEF A, T, U
    <3> QED  BY <1>1, <3>1 DEF A
  <2> QED  BY <1>3, <2>1, <2>2, <2>3 DEF Assembled
<1>4. ASSUME Carried(c, d, q) PROVE Carried(e, d, q)
  <2>1. ASSUME NEW k \in DOMAIN q, IsInfo(q[k])
        PROVE  /\ q[k].body = <<e.inc, Position(q[k])>>
               /\ Position(q[k]) \in 1 .. U
               /\ q[k].tx = (Position(q[k]) - 1) % Modulus
               /\ q[k].more = e.sent[Position(q[k])]
               /\ d.reason = "None" => /\ Position(q[k]) <= Accepted(d) + MaxWindow
                                       /\ Accepted(d) < Position(q[k]) + MaxWindow
    <3>1. /\ q[k].body = <<c.inc, Position(q[k])>>
          /\ Position(q[k]) \in 1 .. T
          /\ q[k].tx = (Position(q[k]) - 1) % Modulus
          /\ d.reason = "None" => /\ Position(q[k]) <= Accepted(d) + MaxWindow
                                  /\ Accepted(d) < Position(q[k]) + MaxWindow
      BY <1>4, <2>1 DEF Carried
    <3>2. q[k].more = c.sent[Position(q[k])]  BY <1>4, <2>1, Zenon DEF Carried
    <3> DEFINE P == Position(q[k])
               L == Len(c.sent)
    <3>3. P \in 1 .. T  BY <3>1
    <3> HIDE DEF P, T, U, L
    <3>4. P \in 1 .. U /\ P \in 1 .. L  BY <1>1, <3>3 DEF L
    <3>5. P \in DOMAIN c.sent  BY <1>1, <3>4 DEF L
    <3>6. e.sent[P] = c.sent[P]  BY <3>5 DEF Grown
    <3>7. e.inc = c.inc  BY DEF Grown
    <3>8. q[k].more = e.sent[Position(q[k])]  BY Zenon, <3>2, <3>6 DEF P
    <3> QED  BY <3>1, <3>4, <3>7, <3>8 DEF P
  <2> QED  BY <1>4, <2>1 DEF Carried
<1>5. ASSUME Returned(c, d, q) PROVE Returned(e, d, q)
  <2> SUFFICES ASSUME e.reason = "None" PROVE Returned(e, d, q)  BY DEF Returned
  <2>1. /\ c.reason = "None" /\ e.va = c.va /\ Acknowledged(e) = Acknowledged(c) /\ u <= v
    BY DEF Grown
  <2>2. \A p : Covers(e, p) = Covers(c, p)  BY <2>1 DEF Covers
  <2>3. \A k \in DOMAIN q : Covers(c, q[k]) \in Nat  BY CoversRange
  <2>4. ASSUME NEW k \in DOMAIN q, IsAck(q[k])
        PROVE  /\ Covers(e, q[k]) <= v
               /\ d.reason = "None" => Acknowledged(e) + Covers(e, q[k]) <= Accepted(d)
    <3>1. Covers(c, q[k]) <= u  BY <1>5, <2>1, <2>4 DEF Returned
    <3> DEFINE x == Covers(c, q[k])
    <3>2. x \in Nat /\ x <= u  BY <2>3, <3>1
    <3> HIDE DEF x, u, v
    <3>3. x <= v  BY <1>1, <2>1, <3>2
    <3>4. d.reason = "None" => Acknowledged(e) + Covers(e, q[k]) <= Accepted(d)
      BY <1>5, <2>1, <2>2, <2>4 DEF Returned
    <3> QED  BY <2>2, <3>3, <3>4 DEF x
  <2> QED  BY <1>5, <2>1, <2>2, <2>4 DEF Returned
<1> QED  BY <1>3, <1>4, <1>5

\* An end that changed only as a sender keeps the invariant.
LEMMA GrownWithin ==
    ASSUME NEW c \in Circuit, NEW e \in Circuit, NEW d \in Circuit,
           NEW to \in Seq(Packet), NEW from \in Seq(Packet),
           Grown(c, e), SameReceiver(c, e), SameHand(c, e), Numbered(e), e.out = c.out,
           Within(c, d, to, from)
    PROVE  Within(e, d, to, from)
<1> DEFINE q == to \o c.out
<1>1. q \in Seq(Packet)  BY Fields, CatType
<1>2. Pair(c, d, q, from)  BY DEF Within
<1>3. Transmitted(e) \in Nat  BY Positions
<1>4. Within(e, d, to, from) <=> Pair(e, d, q, from)  BY DEF Within
<1> HIDE DEF q
<1>5. /\ Numbered(c) /\ Assembled(d, c) /\ Carried(c, d, q) /\ Returned(c, d, from)
      /\ Shaken(c, q)
      /\ Numbered(d) /\ Assembled(c, d) /\ Carried(d, c, from) /\ Returned(d, c, q)
      /\ Shaken(d, from)
  BY <1>2 DEF Pair, Direction
<1>6. Assembled(d, e) /\ Carried(e, d, q) /\ Returned(e, d, from)
  BY <1>1, <1>3, <1>5, GrownSender
<1>7. Assembled(e, d) /\ Carried(d, e, from) /\ Returned(d, e, q)
  BY <1>5, ReceiverSide
<1>8. Shaken(e, q)  BY <1>5, SameShaken
<1> QED  BY <1>4, <1>5, <1>6, <1>7, <1>8 DEF Pair, Direction

\* One round of the pump keeps the invariant.
LEMMA FillWithin ==
    ASSUME NEW c \in Sound, c.state = "Connected",
           NEW n \in Nat, n <= Len(c.sendQueue), Len(c.unacked) + n <= c.window,
           NEW d \in Circuit, NEW to \in Seq(Packet), NEW from \in Seq(Packet),
           Within(c, d, to, from)
    PROVE  Within(Fill(c, n), d, to, from)
<1> DEFINE fresh == FreshMessages(c, n)
           us == c.unacked \o fresh
           q  == SubSeq(c.sendQueue, n + 1, Len(c.sendQueue))
           vs == NextSeq(c.vs, n)
           e  == [c EXCEPT !.vs = vs, !.unacked = us, !.sendQueue = q]
<1>1. c.vs \in Nat /\ c.sendQueue \in Seq(Fragment) /\ c.unacked \in Seq(Unacked) /\ c \in Circuit
      /\ c.reason = "None" /\ Numbered(c)
  BY SoundFields DEF Seqno, Sound, EndIsSound, Within, Pair, Direction
<1>2. \A i \in 1 .. n : fresh[i] \in Unacked
  <2> SUFFICES ASSUME NEW i \in 1 .. n
               PROVE  [seq |-> NextSeq(c.vs, i - 1), retries |-> 0,
                       body |-> c.sendQueue[i].body, more |-> c.sendQueue[i].more] \in Unacked
    BY DEF FreshMessages
  <2>1. NextSeq(c.vs, i - 1) \in Seqno  BY <1>1, NextSeqType
  <2>2. c.sendQueue[i] \in Fragment  BY <1>1
  <2>3. c.sendQueue[i].body \in Body /\ c.sendQueue[i].more \in BOOLEAN
    BY <2>2 DEF Fragment
  <2> QED  BY <2>1, <2>3 DEF Unacked
<1>3. fresh \in Seq(Unacked) /\ Len(fresh) = n /\ DOMAIN fresh = 1 .. n
  <2>1. fresh \in [1 .. n -> Unacked]  BY <1>2 DEF FreshMessages
  <2> HIDE DEF fresh
  <2> QED  BY <2>1
<1>4. Fill(c, n) = SendInformation(e, fresh)  BY DEF Fill, FreshMessages
<1>5. us \in Seq(Unacked) /\ Len(us) <= c.window /\ c.window \in Nat
      /\ \A i \in 1 .. n : \E k \in DOMAIN us : us[k] = fresh[i]
  <2> DEFINE f == fresh
             v == c.unacked
  <2>1. f \in Seq(Unacked) /\ Len(f) = n /\ v \in Seq(Unacked) /\ Len(v) + n <= c.window /\ c.window \in Nat
    BY <1>1, <1>3, SoundFields
  <2> HIDE DEF f, v
  <2>2. /\ Len(v \o f) = Len(v) + n /\ v \o f \in Seq(Unacked)
    BY ZenonT(60), <2>1, CatIndex, CatType
  <2>3. ASSUME NEW i \in 1 .. n PROVE \E k \in DOMAIN (v \o f) : (v \o f)[k] = f[i]
    <3>1. Len(v) + i \in DOMAIN (v \o f) /\ (v \o f)[Len(v) + i] = f[i]  BY <2>1
    <3> QED  BY <3>1
  <2> QED  BY <2>1, <2>2, <2>3 DEF f, v
<1>6. q \in Seq(Fragment) /\ vs \in Seqno
  <2>1. q \in Seq(Fragment)  BY <1>1
  <2>2. vs \in Seqno  BY <1>1, NextSeqType
  <2> QED  BY <2>1, <2>2
<1>7. e \in DataSteps(c)
  <2> HIDE DEF us, q, vs
  <2> QED  BY <1>5, <1>6, FlightType, ZeroIsKeyAndSeqno
<1>8. Numbered(e) /\ Transmitted(e) = Transmitted(c) + n
      /\ Acknowledged(e) = Acknowledged(c) /\ Len(e.unacked) = Len(c.unacked) + n
  <2> HIDE DEF fresh
  <2>1. /\ e.vs = NextSeq(c.vs, n) /\ e.unacked = us
        /\ e.sendQueue = SubSeq(c.sendQueue, n + 1, Len(c.sendQueue))
        /\ e.va = c.va /\ e.sent = c.sent /\ e.inc = c.inc /\ e.reason = c.reason
        /\ e.state = c.state /\ e.window = c.window
    BY <1>1 DEF Circuit
  <2> HIDE DEF e, us
  <2>2. us = c.unacked \o fresh  BY DEF us
  <2>3. fresh = FreshMessages(c, n)  BY DEF fresh
  <2>4. /\ c \in Circuit /\ Numbered(c) /\ c.reason = "None" /\ c.state = "Connected"
        /\ n \in Nat /\ n <= Len(c.sendQueue) /\ Len(c.unacked) + n <= c.window
        /\ fresh \in Seq(Unacked)
    BY <1>1, <1>3
  <2> QED  BY ONLY ZenonT(60), <2>1, <2>2, <2>3, <2>4, FillNumbered
<1>9. /\ e.inc = c.inc /\ e.sent = c.sent /\ e.va = c.va /\ e.reason = c.reason
      /\ SameReceiver(c, e) /\ SameHand(c, e) /\ e.out = c.out /\ e.unacked = us
      /\ e.state = c.state
  <2> HIDE DEF us, q, vs
  <2> QED  BY <1>1 DEF Circuit, SameReceiver, SameHand, Open
<1> HIDE DEF e, us, q, vs
<1>10. e \in Sound /\ e \in Circuit  BY <1>7, Transitivity DEF Sound
<1>11. Transmitted(c) <= Transmitted(e) /\ Len(c.unacked) <= Len(e.unacked)
  <2> DEFINE T == Transmitted(c)
             u == Len(c.unacked)
  <2>1. T \in Nat /\ u \in Nat  BY <1>1, Positions, Fields
  <2> HIDE DEF T, u
  <2>2. T <= T + n /\ u <= u + n  BY <2>1
  <2> QED  BY <1>8, <2>2 DEF T, u
<1>12. Grown(c, e)  BY <1>8, <1>9, <1>11 DEF Grown
<1>13. Within(e, d, to, from)  BY <1>1, <1>8, <1>9, <1>10, <1>12, GrownWithin
<1>14. ASSUME NEW i \in DOMAIN fresh
       PROVE  \E k \in DOMAIN e.unacked :
                 /\ fresh[i].seq = e.unacked[k].seq /\ fresh[i].body = e.unacked[k].body
                 /\ fresh[i].more = e.unacked[k].more
  BY <1>3, <1>5, <1>9
<1> HIDE DEF fresh
<1>15. e.reason = "None" /\ e.state # "Connecting"  BY <1>1, <1>9
<1> QED  BY <1>3, <1>4, <1>10, <1>13, <1>14, <1>15, SendInformationWithin

\* pumpSendQueue keeps the invariant.
LEMMA PumpWithin ==
    ASSUME NEW c \in Sound, NEW d \in Circuit,
           NEW to \in Seq(Packet), NEW from \in Seq(Packet), Within(c, d, to, from)
    PROVE  Within(Pump(c), d, to, from)
<1>1. CASE c.state # "Connected" \/ c.peerChoked \/ Len(c.unacked) >= c.window
  BY <1>1 DEF Pump
<1>2. CASE ~(c.state # "Connected" \/ c.peerChoked \/ Len(c.unacked) >= c.window)
  <2> DEFINE n == Lesser(Len(c.sendQueue), c.window - Len(c.unacked))
  <2>1. /\ Len(c.unacked) \in Nat /\ c.window \in Nat /\ Len(c.sendQueue) \in Nat
        /\ Len(c.unacked) < c.window
    BY <1>2, SoundFields
  <2>2. n \in Nat /\ n <= Len(c.sendQueue) /\ Len(c.unacked) + n <= c.window
    BY SMTT(60), <2>1 DEF Lesser
  <2>3. Pump(c) = Fill(c, n)  BY <1>2 DEF Pump
  <2> HIDE DEF n
  <2> QED  BY <1>2, <2>2, <2>3, FillWithin
<1> QED  BY <1>1, <1>2

-----------------------------------------------------------------------------
(* Choke, and sending again *)

\* The flags and counters of flow control may change within a handler.
LEMMA QuietFieldWithin ==
    ASSUME NEW c \in Circuit, NEW b \in BOOLEAN, NEW n \in Nat,
           NEW d, NEW to, NEW from, Within(c, d, to, from)
    PROVE  /\ Within([c EXCEPT !.peerChoked = b], d, to, from)
           /\ Within([c EXCEPT !.localChoked = b], d, to, from)
           /\ Within([c EXCEPT !.pending = n], d, to, from)
           /\ Within([c EXCEPT !.armed = b], d, to, from)
           /\ Within([c EXCEPT !.retries = n], d, to, from)
<1>1. ASSUME NEW e, e \in {[c EXCEPT !.peerChoked = b], [c EXCEPT !.localChoked = b],
                           [c EXCEPT !.pending = n], [c EXCEPT !.armed = b], [c EXCEPT !.retries = n]}
      PROVE  SameStream(c, e) /\ SameHand(c, e) /\ e.out = c.out
  <2> SUFFICES SameStream(c, e) /\ SameHand(c, e) /\ e.out = c.out  OBVIOUS
  <2>1. CASE e = [c EXCEPT !.peerChoked = b]  BY <2>1 DEF Circuit, SameStream, SameHand, Open
  <2>2. CASE e = [c EXCEPT !.localChoked = b]  BY <2>2 DEF Circuit, SameStream, SameHand, Open
  <2>3. CASE e = [c EXCEPT !.pending = n]  BY <2>3 DEF Circuit, SameStream, SameHand, Open
  <2>4. CASE e = [c EXCEPT !.armed = b]  BY <2>4 DEF Circuit, SameStream, SameHand, Open
  <2>5. CASE e = [c EXCEPT !.retries = n]  BY <2>5 DEF Circuit, SameStream, SameHand, Open
  <2> QED  BY <1>1, <2>1, <2>2, <2>3, <2>4, <2>5
<1>2. ASSUME NEW e, e \in {[c EXCEPT !.peerChoked = b], [c EXCEPT !.localChoked = b],
                           [c EXCEPT !.pending = n], [c EXCEPT !.armed = b], [c EXCEPT !.retries = n]}
      PROVE  Within(e, d, to, from)
  BY <1>1, <1>2, SameWithin
<1> QED  BY <1>2

\* The peer's choke flag, with the pump that may follow.
LEMMA ApplyPeerChokeWithin ==
    ASSUME NEW c \in Sound, NEW choke \in BOOLEAN, NEW d \in Circuit,
           NEW to \in Seq(Packet), NEW from \in Seq(Packet), Within(c, d, to, from)
    PROVE  Within(ApplyPeerChoke(c, choke), d, to, from)
<1> DEFINE r == [c EXCEPT !.peerChoked = FALSE]
           t == [c EXCEPT !.peerChoked = TRUE]
<1>1. c \in Circuit  BY DEF Sound
<1>2. Within(r, d, to, from) /\ Within(t, d, to, from)  BY <1>1, QuietFieldWithin, 0 \in Nat
<1>3. r \in Sound  BY QuietFieldType, Transitivity, 0 \in Nat
<1>4. ApplyPeerChoke(c, choke) \in {t, Pump(r), c}  BY DEF ApplyPeerChoke
<1> HIDE DEF r, t
<1>5. Within(Pump(r), d, to, from)  BY <1>2, <1>3, PumpWithin
<1> QED  BY <1>2, <1>4, <1>5

\* The end's own choke is no part of the invariant.
LEMMA MaybeAssertChokeWithin ==
    ASSUME NEW c \in Circuit, NEW d, NEW to, NEW from, Within(c, d, to, from)
    PROVE  Within(MaybeAssertChoke(c), d, to, from)
BY QuietFieldWithin, 0 \in Nat DEF MaybeAssertChoke

\* A consumed frame may release the choke, which is announced.
LEMMA OnDeliveryDrainedWithin ==
    ASSUME NEW c \in Sound, NEW d \in Circuit,
           NEW to \in Seq(Packet), NEW from, Within(c, d, to, from)
    PROVE  Within(OnDeliveryDrained(c), d, to, from)
<1> DEFINE n == IF c.pending > 0 THEN c.pending - 1 ELSE 0
           e == [c EXCEPT !.pending = n]
           r == [e EXCEPT !.localChoked = FALSE]
<1>1. c \in Circuit /\ c.pending \in Nat  BY DEF Sound, Circuit
<1>2. n \in Nat  BY <1>1
<1>3. OnDeliveryDrained(c) \in {e, r, SendInformationAcknowledge(r, FALSE)}
      /\ (OnDeliveryDrained(c) = SendInformationAcknowledge(r, FALSE) => \/ e.state = "Connected"
                                                                        \/ OnDeliveryDrained(c) \in {e, r})
  BY DEF OnDeliveryDrained
<1> HIDE DEF n
<1>4. e \in Sound /\ e \in Circuit /\ Within(e, d, to, from)
  BY <1>1, <1>2, QuietFieldType, QuietFieldWithin, Transitivity DEF Sound
<1> HIDE DEF e
<1>5. r \in Sound /\ r \in Circuit /\ Within(r, d, to, from) /\ r.state = e.state
  <2>1. r \in Sound  BY <1>4, QuietFieldType, Transitivity, 0 \in Nat
  <2>2. Within(r, d, to, from)  BY <1>4, QuietFieldWithin, 0 \in Nat
  <2>3. r.state = e.state  BY <1>4 DEF Circuit
  <2> QED  BY <2>1, <2>2, <2>3 DEF Sound
<1> HIDE DEF r
<1>6. CASE e.state = "Connected"
  <2>1. r.reason = "None" /\ r.state # "Connecting"  BY <1>5, <1>6 DEF Sound, EndIsSound
  <2>2. Within(SendInformationAcknowledge(r, FALSE), d, to, from)
    BY <1>5, <2>1, SendInformationAcknowledgeWithin
  <2> QED  BY <1>3, <1>4, <1>5, <2>2
<1>7. CASE e.state # "Connected"  BY <1>3, <1>4, <1>5, <1>7
<1> QED  BY <1>6, <1>7

\* A filtered sequence holds elements of the original.
LEMMA PickFrom ==
    ASSUME NEW S, NEW q \in Seq(S), NEW I \in SUBSET DOMAIN q
    PROVE  \A i \in DOMAIN Pick(q, I) : \E j \in I : Pick(q, I)[i] = q[j]
<1>1. Len(q) \in Nat /\ DOMAIN q = 1 .. Len(q)  OBVIOUS
<1> DEFINE n == Cardinality(I)
           at == CHOOSE f \in [1 .. n -> I] : \A i, j \in 1 .. n : i < j => f[i] < f[j]
<1>2. at \in [1 .. n -> I]  BY <1>1, IncreasingExists DEF Increasing
<1>3. Pick(q, I) = [i \in 1 .. n |-> q[at[i]]]  BY DEF Pick
<1> HIDE DEF n, at
<1> QED  BY <1>2, <1>3

\* Sending in-flight messages again changes only their retry counts.
LEMMA ResendWithin ==
    ASSUME NEW c \in Sound, Open(c), c.reason = "None", NEW I \in SUBSET DOMAIN c.unacked,
           NEW d \in Circuit, NEW to \in Seq(Packet), NEW from, Within(c, d, to, from)
    PROVE  Within(Resend(c, I), d, to, from)
<1> DEFINE us == [i \in DOMAIN c.unacked |->
                    IF i \in I THEN Again(c.unacked[i]) ELSE c.unacked[i]]
           e  == [c EXCEPT !.unacked = us]
           ps == Pick(c.unacked, I)
<1>1. c \in Circuit /\ c.unacked \in Seq(Unacked) /\ (c.unacked = <<>> \/ Len(c.unacked) <= c.window)
  BY SoundFields
<1>2. ASSUME NEW i \in DOMAIN c.unacked
      PROVE  /\ us[i] \in Unacked /\ us[i].seq = c.unacked[i].seq
             /\ us[i].body = c.unacked[i].body /\ us[i].more = c.unacked[i].more
  <2> DEFINE u == c.unacked[i]
  <2>1. u \in Unacked  BY <1>1
  <2>2. us[i] = Again(u) \/ us[i] = u  OBVIOUS
  <2> HIDE DEF u, us
  <2>3. Lesser(u.retries + 1, MaxRetries + 1) \in Nat
    BY <2>1, OptionsAssumption DEF Unacked, Lesser
  <2>4. Again(u) \in Unacked  BY <2>1, <2>3 DEF Unacked, Again
  <2>5. Again(u).seq = u.seq /\ Again(u).body = u.body /\ Again(u).more = u.more
    BY <2>1 DEF Unacked, Again
  <2> QED  BY <2>1, <2>2, <2>4, <2>5 DEF u
<1>3. us \in Seq(Unacked) /\ Len(us) = Len(c.unacked) /\ DOMAIN us = DOMAIN c.unacked
  <2>1. Len(c.unacked) \in Nat /\ DOMAIN c.unacked = 1 .. Len(c.unacked)  BY <1>1
  <2>2. us \in [1 .. Len(c.unacked) -> Unacked]  BY <1>2, <2>1
  <2> HIDE DEF us
  <2> QED  BY <2>1, <2>2
<1>4. ps \in Seq(Unacked) /\ \A i \in DOMAIN ps : \E j \in DOMAIN c.unacked : ps[i] = c.unacked[j]
  BY SMTT(60), <1>1, PickType, PickFrom
<1>5. Resend(c, I) = SendInformation(e, ps)  BY DEF Resend
<1> HIDE DEF us, ps
<1>6. e \in Circuit /\ e.out = c.out /\ e.unacked = us /\ e.reason = c.reason /\ e.state = c.state
  BY ZenonT(60), <1>1, <1>3 DEF Circuit
<1>7. SameStream(c, e) /\ SameHand(c, e)
  BY <1>1, <1>2, <1>3 DEF SameStream, SameHand, Circuit, Open
<1> HIDE DEF e
<1>8. Within(e, d, to, from)  BY <1>6, <1>7, SameWithin
<1>9. \A i \in DOMAIN ps : \E k \in DOMAIN e.unacked :
          /\ ps[i].seq = e.unacked[k].seq /\ ps[i].body = e.unacked[k].body
          /\ ps[i].more = e.unacked[k].more
  BY <1>2, <1>3, <1>4, <1>6, SMTT(30)
<1>10. e.reason = "None" /\ e.state # "Connecting"  BY <1>6 DEF Open
<1> QED  BY <1>4, <1>5, <1>6, <1>8, <1>9, <1>10, SendInformationWithin

\* A NAK, whatever it names.
LEMMA RetransmitFromWithin ==
    ASSUME NEW c \in Sound, Open(c), c.reason = "None", NEW seq,
           NEW d \in Circuit, NEW to \in Seq(Packet), NEW from, Within(c, d, to, from)
    PROVE  Within(RetransmitFrom(c, seq), d, to, from)
BY ResendWithin DEF RetransmitFrom

-----------------------------------------------------------------------------
(* absorbAck *)

\* A number is its distance from another past that other.
LEMMA Distance ==
    \A r, v \in Int : r % Modulus = (v + ((r - v) % Modulus)) % Modulus
<1> SUFFICES ASSUME NEW r \in Int, NEW v \in Int
             PROVE r % Modulus = (v + ((r - v) % Modulus)) % Modulus
  OBVIOUS
<1> DEFINE h == (r - v) % Modulus
<1>1. r - v \in Int /\ h \in Int  BY ModBasic, ModulusAssumption
<1>2. (h + v) % Modulus = ((r - v) + v) % Modulus  BY <1>1, ModAdd
<1>3. h + v = v + h /\ (r - v) + v = r
  <2> HIDE DEF h
  <2> QED  BY <1>1
<1> HIDE DEF h
<1>4. r % Modulus = (v + h) % Modulus  BY <1>2, <1>3
<1> QED  BY <1>4 DEF h

\* Two distances from the same number, and the distance between their ends.
LEMMA Distances ==
    ASSUME NEW a \in Int, NEW r \in Int, NEW v \in Int,
           NEW g, g = (a - v) % Modulus, NEW h, h = (r - v) % Modulus, h <= g
    PROVE  (a - r) % Modulus = g - h
<1>1. Modulus \in Nat /\ Modulus > 0  BY ModulusAssumption
<1>2. a - v \in Int /\ r - v \in Int /\ a - r \in Int  OBVIOUS
<1>3. g \in 0 .. Modulus - 1 /\ h \in 0 .. Modulus - 1  BY <1>2, ModBasic
<1>4. g \in Int /\ h \in Int  BY <1>1, <1>3
<1>5. (g - (r - v)) % Modulus = ((a - v) - (r - v)) % Modulus  BY <1>2, ModAdd
<1>6. (g - h) % Modulus = (g - (r - v)) % Modulus  BY <1>2, <1>4, ModAdd
<1>7. (a - v) - (r - v) = a - r  OBVIOUS
<1>8. g - h \in 0 .. Modulus - 1  BY <1>1, <1>3
<1>9. (g - h) % Modulus = g - h  BY <1>8, ModSmall
<1> QED  BY <1>5, <1>6, <1>7, <1>9

\* The modulus is twice the horizon.
LEMMA TwiceHorizon == Modulus = Horizon + Horizon /\ Horizon \in Nat /\ MaxWindow = Horizon - 1
                      /\ Horizon >= 2
<1>1. Modulus \in Nat /\ Modulus > 3 /\ Modulus % 2 = 0  BY ModulusAssumption
<1> QED  BY <1>1 DEF Horizon, MaxWindow

\* A number in flight is acknowledged exactly when it is among the first h,
\* where the expectation is h past the oldest.
LEMMA AckedAre ==
    ASSUME NEW K \in Nat, NEW u \in Nat, u <= MaxWindow, NEW h \in Nat, h <= u,
           NEW k \in 1 .. u
    PROVE  SeqAcked((K + k - 1) % Modulus, (K + h) % Modulus) <=> k <= h
<1> DEFINE x == K + k - 1
           y == K + h
           w == h - k + 1
<1>1. x \in Int /\ y \in Int /\ y - x = w /\ w \in Int  OBVIOUS
<1>2. Modulus = Horizon + Horizon /\ Horizon \in Nat /\ MaxWindow = Horizon - 1 /\ Horizon >= 2
  BY TwiceHorizon
<1>3. ((y % Modulus) - (x % Modulus)) % Modulus = w % Modulus
  <2>1. y % Modulus \in Int  BY <1>1, ModBasic, ModulusAssumption
  <2> HIDE DEF x, y, w
  <2>2. ((y % Modulus) - (x % Modulus)) % Modulus = ((y % Modulus) - x) % Modulus
    BY <1>1, <2>1, ModAdd
  <2>3. ((y % Modulus) - x) % Modulus = (y - x) % Modulus  BY <1>1, ModAdd
  <2> QED  BY <1>1, <2>2, <2>3
<1>4. CASE k <= h
  <2>1. w \in 1 .. Horizon /\ w \in 0 .. Modulus - 1  BY <1>2, <1>4
  <2> HIDE DEF w, x, y
  <2>2. w % Modulus = w  BY <2>1, ModSmall
  <2>3. SeqAcked(x % Modulus, y % Modulus)  BY <1>3, <2>1, <2>2 DEF SeqAcked
  <2> QED  BY <1>4, <2>3 DEF x, y
<1>5. CASE ~(k <= h)
  <2>1. w <= 0 /\ -w <= Horizon - 2 /\ w \in Int  BY <1>2, <1>5
  <2> HIDE DEF w, x, y
  <2>2. CASE w = 0
    <3>1. w % Modulus = w  BY <1>2, <2>2, ModSmall
    <3> QED  BY <1>3, <1>5, <2>2, <3>1 DEF SeqAcked, x, y
  <2>3. CASE w < 0
    <3>1. -w < Modulus  BY <1>2, <2>1
    <3>2. w % Modulus = w + Modulus  BY <2>1, <2>3, <3>1, ModNegative
    <3>3. w + Modulus > Horizon  BY <1>2, <2>1
    <3>4. ~((w % Modulus) \in 1 .. Horizon)  BY <1>2, <2>1, <3>2, <3>3
    <3> QED  BY <1>3, <1>5, <3>4 DEF SeqAcked, x, y
  <2> QED  BY <2>1, <2>2, <2>3
<1> QED  BY <1>4, <1>5

\* An interval of numbers has one increasing listing.
LEMMA OneListing ==
    ASSUME NEW h \in Nat, NEW m \in Nat, NEW f \in [1 .. m -> h + 1 .. h + m],
           \A i, j \in 1 .. m : i < j => f[i] < f[j]
    PROVE  \A i \in 1 .. m : f[i] = h + i
<1>0. \A i \in 1 .. m : f[i] \in Nat /\ h + 1 <= f[i] /\ f[i] <= h + m  OBVIOUS
<1> DEFINE S == {j \in Nat : \A i \in 1 .. m : i + j \in 1 .. m => f[i] + j <= f[i + j]}
<1>1. 0 \in S
  <2>1. \A i \in 1 .. m : i + 0 = i /\ f[i] + 0 = f[i] /\ f[i] <= f[i]  BY <1>0
  <2> QED  BY <2>1
<1>2. ASSUME NEW j \in Nat, j \in S PROVE j + 1 \in S
  <2> SUFFICES ASSUME NEW i \in 1 .. m, i + (j + 1) \in 1 .. m
               PROVE f[i] + (j + 1) <= f[i + (j + 1)]
    OBVIOUS
  <2>1. i + j \in 1 .. m /\ i + j < i + (j + 1)  OBVIOUS
  <2>2. f[i] + j <= f[i + j]  BY <1>2, <2>1
  <2>3. f[i + j] < f[i + (j + 1)]  BY <2>1
  <2>4. f[i] \in Nat /\ f[i + j] \in Nat /\ f[i + (j + 1)] \in Nat  BY <1>0, <2>1
  <2> HIDE DEF S
  <2> QED  BY SMTT(60), <2>2, <2>3, <2>4
<1> HIDE DEF S
<1>3. Nat \subseteq S  BY <1>1, <1>2, NatSetInduction
<1>4. ASSUME NEW j \in Nat, NEW i \in 1 .. m, i + j \in 1 .. m PROVE f[i] + j <= f[i + j]
  BY <1>3, <1>4 DEF S
<1> SUFFICES ASSUME NEW x \in 1 .. m PROVE f[x] = h + x  OBVIOUS
<1>5. h + x <= f[x]
  <2>1. x - 1 \in Nat /\ 1 \in 1 .. m /\ 1 + (x - 1) = x  OBVIOUS
  <2>2. f[1] + (x - 1) <= f[x]  BY <1>4, <2>1
  <2> QED  BY <1>0, <2>1, <2>2
<1>6. f[x] <= h + x
  <2>1. m - x \in Nat /\ m \in 1 .. m /\ x + (m - x) = m  OBVIOUS
  <2>2. f[x] + (m - x) <= f[m]  BY <1>4, <2>1
  <2> QED  BY <1>0, <2>1, <2>2, SMTT(30)
<1> QED  BY <1>0, <1>5, <1>6

\* Filtering out the first h entries leaves the others, in order.
LEMMA PickRest ==
    ASSUME NEW S, NEW q \in Seq(S), NEW h \in Nat, h <= Len(q),
           NEW I, I = {i \in DOMAIN q : i > h}
    PROVE  /\ Pick(q, I) \in Seq(S) /\ Len(Pick(q, I)) = Len(q) - h
           /\ DOMAIN Pick(q, I) = 1 .. Len(q) - h
           /\ \A k \in 1 .. Len(q) - h : Pick(q, I)[k] = q[h + k] /\ h + k \in DOMAIN q
<1> DEFINE u == Len(q)
           m == u - h
           n == Cardinality(I)
           at == CHOOSE f \in [1 .. n -> I] : \A i, j \in 1 .. n : i < j => f[i] < f[j]
<1>1. u \in Nat /\ DOMAIN q = 1 .. u /\ m \in Nat /\ u = h + m  OBVIOUS
<1> HIDE DEF u, m
<1>2. I = h + 1 .. u  BY <1>1
<1>3. n = m
  <2>1. Cardinality(h + 1 .. u) = IF h + 1 > u THEN 0 ELSE u - (h + 1) + 1
    <3>1. h + 1 \in Int /\ u \in Int  BY <1>1
    <3> QED  BY <3>1, FS_Interval
  <2>2. n = Cardinality(h + 1 .. u)  BY <1>2
  <2>3. (IF h + 1 > u THEN 0 ELSE u - (h + 1) + 1) = m  BY <1>1
  <2> QED  BY <2>1, <2>2, <2>3
<1>4. I \in SUBSET (1 .. u)  BY <1>1, <1>2
<1>5. at \in [1 .. n -> I] /\ \A i, j \in 1 .. n : i < j => at[i] < at[j]
  BY <1>1, <1>4, IncreasingExists, ZenonT(60) DEF Increasing
<1>6. Pick(q, I) = [i \in 1 .. n |-> q[at[i]]]  BY DEF Pick
<1> HIDE DEF n, at
<1>7. \A i \in 1 .. m : at[i] = h + i
  <2>1. at \in [1 .. m -> h + 1 .. h + m] /\ \A i, j \in 1 .. m : i < j => at[i] < at[j]
    BY <1>1, <1>2, <1>3, <1>5
  <2> QED  BY <1>1, <2>1, OneListing
<1>8. Pick(q, I) = [i \in 1 .. m |-> q[h + i]] /\ \A i \in 1 .. m : h + i \in 1 .. u
  <2>1. \A i \in 1 .. m : h + i \in 1 .. u  BY <1>1
  <2> QED  BY Zenon, <1>3, <1>6, <1>7, <2>1
<1>9. \A i \in 1 .. m : q[h + i] \in S  BY <1>1, <1>8
<1>10. Pick(q, I) \in Seq(S) /\ Len(Pick(q, I)) = m
  BY <1>1, <1>8, <1>9
<1> QED  BY <1>1, <1>8, <1>10 DEF u, m

\* Which in-flight messages an acknowledgement leaves in flight.
LEMMA HeldAre ==
    ASSUME NEW c \in Circuit, Numbered(c), c.reason = "None",
           NEW p \in Packet, Covers(c, p) <= Len(c.unacked)
    PROVE  /\ p.rx = (Acknowledged(c) + Covers(c, p)) % Modulus
           /\ StillHeld(c, p.rx) = {i \in DOMAIN c.unacked : i > Covers(c, p)}
<1> DEFINE h == Covers(c, p)
           K == Acknowledged(c)
           u == Len(c.unacked)
<1>1. h \in Nat /\ K \in Nat /\ u \in Nat /\ u <= MaxWindow /\ h <= u /\ DOMAIN c.unacked = 1 .. u
  BY CoversRange, Positions, Fields
<1>2. p.rx \in Seqno /\ c.va \in Seqno /\ c.va = K % Modulus
  BY PacketFields, Fields DEF Numbered
<1>3. Modulus \in Nat  BY ModulusAssumption
<1>4. h = (p.rx - c.va) % Modulus  BY DEF Covers
<1>5. \A k \in 1 .. u : c.unacked[k].seq = (K + k - 1) % Modulus  BY <1>1 DEF Numbered
<1>6. StillHeld(c, p.rx) = {i \in DOMAIN c.unacked : ~SeqAcked(c.unacked[i].seq, p.rx)}
  BY DEF StillHeld
<1> HIDE DEF h, K, u
<1>7. p.rx \in Int /\ c.va \in Int /\ p.rx \in 0 .. Modulus - 1  BY <1>2, <1>3 DEF Seqno
<1>8. p.rx = (K + h) % Modulus
  <2>1. p.rx % Modulus = (c.va + h) % Modulus  BY <1>4, <1>7, Distance
  <2>2. p.rx % Modulus = p.rx  BY <1>7, ModSmall
  <2>3. ((K % Modulus) + h) % Modulus = (K + h) % Modulus  BY <1>1, ModAdd
  <2> QED  BY <1>2, <2>1, <2>2, <2>3
<1>9. \A k \in 1 .. u : SeqAcked(c.unacked[k].seq, p.rx) <=> k <= h
  <2> SUFFICES ASSUME NEW k \in 1 .. u PROVE SeqAcked(c.unacked[k].seq, p.rx) <=> k <= h
    OBVIOUS
  <2>1. SeqAcked((K + k - 1) % Modulus, (K + h) % Modulus) <=> k <= h
    BY <1>1, AckedAre
  <2> QED  BY <1>5, <1>8, <2>1
<1>10. \A k \in 1 .. u : ~(k <= h) <=> k > h  BY <1>1
<1> QED  BY <1>1, <1>6, <1>8, <1>9, <1>10 DEF h, K

\* Taking the acknowledged messages out of flight keeps the stream contiguous.
LEMMA AbsorbNumbered ==
    ASSUME NEW c \in Circuit, Numbered(c), c.reason = "None", NEW p \in Packet,
           NEW h, h = Covers(c, p), h <= Len(c.unacked),
           NEW e, Len(e.unacked) = Len(c.unacked) - h,
           DOMAIN e.unacked = 1 .. Len(c.unacked) - h,
           \A k \in 1 .. Len(c.unacked) - h :
              e.unacked[k] = c.unacked[h + k] /\ h + k \in DOMAIN c.unacked,
           e.va = p.rx, e.sendQueue = c.sendQueue, e.vs = c.vs,
           e.sent = c.sent, e.inc = c.inc, e.reason = c.reason,
           e.state = c.state, e.window = c.window
    PROVE  /\ Numbered(e) /\ Transmitted(e) = Transmitted(c)
           /\ Acknowledged(e) = Acknowledged(c) + h /\ Len(e.unacked) = Len(c.unacked) - h
<1> DEFINE T == Transmitted(c)
           K == Acknowledged(c)
           u == Len(c.unacked)
           b == Len(c.sendQueue)
           a == Len(c.sent)
<1>1. /\ T \in Nat /\ K \in Nat /\ u \in Nat /\ b \in Nat /\ a \in Nat /\ T = K + u /\ T + b = a
      /\ MaxWindow \in Nat /\ u <= MaxWindow /\ h \in Nat /\ h <= u
  BY Positions, Fields, HorizonFacts, CoversRange
<1>2. p.rx = (K + h) % Modulus  BY HeldAre
<1>3. Transmitted(e) = T  BY DEF Transmitted
<1>4. Len(e.unacked) = u - h  OBVIOUS
<1>5. Acknowledged(e) = K + h
  <2>1. Acknowledged(e) = T - (u - h)  BY <1>3, <1>4 DEF Acknowledged
  <2> HIDE DEF T, K, u
  <2>2. T - (u - h) = K + h  BY ONLY <1>1
  <2> QED  BY <2>1, <2>2
<1>6. \A k \in 1 .. u : /\ c.unacked[k].seq = (K + k - 1) % Modulus
                        /\ c.unacked[k].body = <<c.inc, K + k>>
                        /\ c.unacked[k].more = c.sent[K + k]
  <2>1. DOMAIN c.unacked = 1 .. u  BY Fields
  <2> QED  BY <2>1 DEF Numbered
<1>7. \A k \in DOMAIN e.sendQueue :
          /\ e.sendQueue[k].body = <<e.inc, Transmitted(e) + k>>
          /\ e.sendQueue[k].more = e.sent[Transmitted(e) + k]
  <2>1. e.sendQueue = c.sendQueue /\ e.sent = c.sent /\ e.inc = c.inc  OBVIOUS
  <2> QED  BY <1>3, <2>1 DEF Numbered
<1>8. DOMAIN e.unacked = 1 .. u - h
      /\ \A k \in 1 .. u - h : e.unacked[k] = c.unacked[h + k] /\ h + k \in DOMAIN c.unacked
  OBVIOUS
<1>9. DOMAIN c.unacked = 1 .. u  BY Fields
<1>10. c.vs = T % Modulus  BY DEF Numbered
<1>11. b + u <= a /\ (c.state = "Connected" => c.window <= MaxWindow)  BY DEF Numbered
<1>15. e.sendQueue = c.sendQueue /\ e.sent = c.sent  OBVIOUS
<1> HIDE DEF T, K, u, b, a
<1>12. ASSUME NEW k \in DOMAIN e.unacked
       PROVE  /\ e.unacked[k].seq = (Acknowledged(e) + k - 1) % Modulus
              /\ e.unacked[k].body = <<e.inc, Acknowledged(e) + k>>
              /\ e.unacked[k].more = e.sent[Acknowledged(e) + k]
  <2> DEFINE j == h + k
  <2>1. j \in 1 .. u /\ e.unacked[k] = c.unacked[j] /\ k \in 1 .. u - h  BY <1>8, <1>9
  <2>2. K + j = (K + h) + k /\ K + j - 1 = (K + h) + k - 1
    <3>1. k \in Int /\ h \in Nat /\ K \in Nat /\ u \in Nat  BY <1>1, <2>1
    <3> QED  BY ONLY <3>1
  <2> HIDE DEF j
  <2>3. c.unacked[j].seq = (K + j - 1) % Modulus /\ c.unacked[j].body = <<c.inc, K + j>>
    BY <1>6, <2>1
  <2>4. c.unacked[j].more = c.sent[K + j]  BY Zenon, <1>6, <2>1
  <2>5. e.unacked[k].more = e.sent[Acknowledged(e) + k]
    BY Zenon, <1>5, <1>15, <2>1, <2>2, <2>4
  <2>6. e.unacked[k].seq = (Acknowledged(e) + k - 1) % Modulus  BY <1>5, <2>1, <2>2, <2>3
  <2>7. e.unacked[k].body = <<e.inc, Acknowledged(e) + k>>  BY <1>5, <2>1, <2>2, <2>3
  <2> QED  BY <2>5, <2>6, <2>7
<1>13. Len(e.sendQueue) + Len(e.unacked) <= Len(e.sent) /\ Len(e.unacked) <= MaxWindow
  <2>1. Len(e.sendQueue) = b /\ Len(e.sent) = a  BY <1>15 DEF a, b
  <2>2. b + (u - h) <= a /\ u - h <= MaxWindow  BY ONLY <1>1, <1>11
  <2> QED  BY <1>4, <2>1, <2>2
<1>14. Numbered(e)  BY <1>2, <1>3, <1>5, <1>7, <1>10, <1>11, <1>12, <1>13 DEF Numbered
<1> QED  BY <1>3, <1>4, <1>5, <1>14 DEF T, K, u

\* Acknowledgements behind the absorbed one cover the rest.
LEMMA AbsorbReturned ==
    ASSUME NEW c \in Circuit, NEW d \in Circuit, NEW e \in Circuit,
           NEW from \in Seq(Packet), Returned(c, d, from), c.reason = "None",
           from # <<>>, IsAck(from[1]), Numbered(c), Assembled(d, c),
           NEW h, h = Covers(c, from[1]),
           e.va = from[1].rx, e.reason = c.reason,
           Acknowledged(e) = Acknowledged(c) + h, Len(e.unacked) = Len(c.unacked) - h
    PROVE  Returned(e, d, from)
<1> DEFINE K == Acknowledged(c)
           A == Accepted(d)
           u == Len(c.unacked)
<1>1. Len(from) \in Nat /\ DOMAIN from = 1 .. Len(from) /\ 1 \in DOMAIN from
      /\ \A k \in DOMAIN from : from[k] \in Packet /\ k \in Nat /\ k >= 1
  OBVIOUS
<1>2. K \in Nat /\ A \in Nat /\ u \in Nat /\ h \in Nat /\ h <= u /\ from[1] \in Packet
  BY <1>1, Positions, AcceptedIs, Fields, CoversRange DEF Returned
<1>3. d.reason = "None" => K + h <= A  BY <1>1 DEF Returned
<1>4. ASSUME NEW k \in DOMAIN from, IsAck(from[k])
      PROVE  /\ Covers(c, from[k]) \in Nat /\ h <= Covers(c, from[k])
             /\ Covers(e, from[k]) = Covers(c, from[k]) - h
  <2> DEFINE g == Covers(c, from[k])
  <2>1. g \in Nat  BY CoversRange
  <2>2. h <= g
    <3>1. CASE k = 1  BY <1>2, <3>1
    <3>2. CASE k # 1
      <4>1. 1 < k  BY <1>1, <3>2
      <4> QED  BY <1>1, <1>4, <4>1 DEF Returned
    <3> QED  BY <3>1, <3>2
  <2>3. from[k].rx \in Int /\ from[1].rx \in Int /\ c.va \in Int
    <3>1. from[k].rx \in Seqno /\ from[1].rx \in Seqno /\ c.va \in Seqno
      BY <1>1, PacketFields, Fields
    <3> QED  BY <3>1, ModulusAssumption DEF Seqno
  <2>4. g = (from[k].rx - c.va) % Modulus /\ h = (from[1].rx - c.va) % Modulus
    BY DEF Covers
  <2> HIDE DEF g
  <2>5. (from[k].rx - from[1].rx) % Modulus = g - h  BY SMTT(60), <2>2, <2>3, <2>4, Distances
  <2>6. Covers(e, from[k]) = g - h  BY <2>5 DEF Covers
  <2> QED  BY <2>1, <2>2, <2>6 DEF g
<1>5. /\ \A k \in DOMAIN from : IsAck(from[k]) =>
            /\ Covers(c, from[k]) <= u
            /\ d.reason = "None" => K + Covers(c, from[k]) <= A
      /\ \A k, l \in DOMAIN from : k < l /\ IsAck(from[k]) /\ IsAck(from[l]) =>
            Covers(c, from[k]) <= Covers(c, from[l])
  BY DEF Returned
<1> HIDE DEF K, A, u
<1>6. ASSUME NEW k \in DOMAIN from, IsAck(from[k])
      PROVE  /\ Covers(e, from[k]) <= u - h
             /\ d.reason = "None" => (K + h) + Covers(e, from[k]) <= A
  <2> DEFINE g == Covers(c, from[k])
  <2>1. g \in Nat /\ Covers(e, from[k]) = g - h /\ g <= u /\ (d.reason = "None" => K + g <= A)
    BY <1>4, <1>5, <1>6
  <2> HIDE DEF g
  <2>2. g - h <= u - h /\ (d.reason = "None" => (K + h) + (g - h) <= A)
    BY ONLY <1>2, <2>1
  <2> QED  BY <2>1, <2>2
<1>7. ASSUME NEW k \in DOMAIN from, NEW l \in DOMAIN from, k < l, IsAck(from[k]), IsAck(from[l])
      PROVE  Covers(e, from[k]) <= Covers(e, from[l])
  <2> DEFINE g == Covers(c, from[k])
             f == Covers(c, from[l])
  <2>1. g \in Nat /\ f \in Nat /\ Covers(e, from[k]) = g - h /\ Covers(e, from[l]) = f - h /\ g <= f
    BY <1>4, <1>5, <1>7
  <2> HIDE DEF g, f
  <2>2. g - h <= f - h  BY ONLY <1>2, <2>1
  <2> QED  BY <2>1, <2>2
<1>8. Acknowledged(e) = K + h /\ Len(e.unacked) = u - h  BY DEF K, u
<1> QED  BY <1>3, <1>6, <1>7, <1>8 DEF Returned, A

\* absorbAck of the acknowledgement that just arrived keeps the invariant.
LEMMA AbsorbAckWithin ==
    ASSUME NEW c \in Sound, c.state = "Connected", NEW d \in Circuit,
           NEW to \in Seq(Packet), NEW from \in Seq(Packet), Within(c, d, to, from),
           from # <<>>, IsAck(from[1])
    PROVE  Within(AbsorbAck(c, from[1].rx), d, to, from)
<1> DEFINE p == from[1]
           h == Covers(c, p)
           q == to \o c.out
           I == StillHeld(c, p.rx)
           us == Pick(c.unacked, I)
           e == [c EXCEPT !.va = p.rx, !.unacked = us]
<1>1. c \in Circuit /\ p \in Packet /\ c.reason = "None" /\ 1 \in DOMAIN from
      /\ p.rx \in Seqno /\ c.va \in Seqno
  <2>1. c \in Circuit /\ p \in Packet /\ c.reason = "None" /\ 1 \in DOMAIN from
    BY DEF Sound, EndIsSound
  <2> QED  BY <2>1, PacketFields, Fields
<1>2. Pair(c, d, q, from)  BY DEF Within
<1>3. q \in Seq(Packet)  BY <1>1, Fields, CatType
<1>4. /\ Numbered(c) /\ Assembled(d, c) /\ Carried(c, d, q) /\ Returned(c, d, from)
      /\ Shaken(c, q)
      /\ Numbered(d) /\ Assembled(c, d) /\ Carried(d, c, from) /\ Returned(d, c, q)
      /\ Shaken(d, from)
  BY <1>2 DEF Pair, Direction
<1>5. h <= Len(c.unacked)  BY <1>1, <1>4 DEF Returned
<1>6. h \in Nat /\ p.rx = (Acknowledged(c) + h) % Modulus /\ I = {i \in DOMAIN c.unacked : i > h}
  BY <1>1, <1>4, <1>5, CoversRange, HeldAre
<1>7. CASE c.unacked = <<>>
  <2>1. h = 0  BY <1>5, <1>6, <1>7
  <2>2. c.va = Acknowledged(c) % Modulus /\ Acknowledged(c) \in Nat
    BY <1>1, <1>4, Positions DEF Numbered
  <2>3. p.rx = c.va  BY <1>6, <2>1, <2>2
  <2>4. [c EXCEPT !.va = p.rx] = c  BY <1>1, <2>3 DEF Circuit
  <2>5. AbsorbAck(c, p.rx) = c  BY <1>7, <2>4 DEF AbsorbAck
  <2> QED  BY <2>5
<1>8. CASE c.unacked # <<>>
  <2>1. AbsorbAck(c, p.rx) = Pump(e)  BY <1>8 DEF AbsorbAck
  <2>2. c.unacked \in Seq(Unacked) /\ Len(c.unacked) <= c.window /\ c.window \in Nat
        /\ Len(c.unacked) \in Nat
    BY <1>8, SoundFields
  <2> DEFINE v == c.unacked
  <2>9. v \in Seq(Unacked) /\ h <= Len(v) /\ I = {i \in DOMAIN v : i > h}  BY <1>5, <1>6, <2>2
  <2> HIDE DEF I, h, v
  <2>3. /\ Pick(v, I) \in Seq(Unacked) /\ Len(Pick(v, I)) = Len(v) - h
        /\ DOMAIN Pick(v, I) = 1 .. Len(v) - h
        /\ \A k \in 1 .. Len(v) - h : Pick(v, I)[k] = v[h + k] /\ h + k \in DOMAIN v
    <3>1. h \in Nat /\ v \in Seq(Unacked) /\ h <= Len(v) /\ I = {i \in DOMAIN v : i > h}
      BY <1>6, <2>9
    <3> QED  BY ONLY <3>1, PickRest, SMTT(30)
  <2>4. /\ us \in Seq(Unacked) /\ Len(us) = Len(c.unacked) - h
        /\ DOMAIN us = 1 .. Len(c.unacked) - h
        /\ \A k \in 1 .. Len(c.unacked) - h : us[k] = c.unacked[h + k] /\ h + k \in DOMAIN c.unacked
    BY <2>3 DEF v
  <2> HIDE DEF us, p
  <2>5. Len(us) <= c.window  BY <1>6, <2>2, <2>4
  <2>6. e \in DataSteps(c)  
    <3>1. c \in Sound /\ c.state \in {"Connected", "Disconnecting"} /\ c.vs \in Seqno
          /\ c.sendQueue \in Seq(Fragment) /\ p.rx \in Seqno
      BY <1>1, SoundFields
    <3>2. us \in Seq(Unacked) /\ Len(us) <= c.window  BY <2>4, <2>5
    <3> QED  BY <3>1, <3>2, FlightType
  <2>7. /\ e.va = p.rx /\ e.unacked = us /\ e.sendQueue = c.sendQueue /\ e.vs = c.vs
        /\ e.sent = c.sent /\ e.inc = c.inc /\ e.reason = c.reason
        /\ e.state = c.state /\ e.window = c.window /\ e.out = c.out
        /\ SameReceiver(c, e) /\ SameHand(c, e)
    BY <1>1 DEF Circuit, SameReceiver, SameHand, Open
  <2> HIDE DEF e
  <2>8. e \in Sound /\ e \in Circuit  BY <2>6, Transitivity DEF Sound
  <2>10. h = Covers(c, p)  BY DEF h
  <2>11. /\ Numbered(e) /\ Transmitted(e) = Transmitted(c)
         /\ Acknowledged(e) = Acknowledged(c) + h /\ Len(e.unacked) = Len(c.unacked) - h
    <3>1. /\ c \in Circuit /\ Numbered(c) /\ c.reason = "None" /\ p \in Packet
          /\ h = Covers(c, p) /\ h <= Len(c.unacked)
      BY <1>1, <1>4, <1>5, <2>10
    <3>2. /\ Len(e.unacked) = Len(c.unacked) - h
          /\ DOMAIN e.unacked = 1 .. Len(c.unacked) - h
          /\ \A k \in 1 .. Len(c.unacked) - h :
               e.unacked[k] = c.unacked[h + k] /\ h + k \in DOMAIN c.unacked
          /\ e.va = p.rx /\ e.sendQueue = c.sendQueue /\ e.vs = c.vs
          /\ e.sent = c.sent /\ e.inc = c.inc /\ e.reason = c.reason
          /\ e.state = c.state /\ e.window = c.window
      BY Zenon, <2>4, <2>7
    <3> QED  BY ONLY <3>1, <3>2, AbsorbNumbered
  <2>12. Returned(e, d, from)
    <3>1. p = from[1]  BY DEF p
    <3> QED  BY <1>1, <1>4, <2>7, <2>8, <2>10, <2>11, <3>1, AbsorbReturned
  <2>13. Assembled(d, e) /\ Carried(e, d, q)
    <3>1. \A f : WholeFrame(d, f, e) = WholeFrame(d, f, c)  BY <2>7 DEF WholeFrame
    <3>2. Assembled(d, e)  BY <1>4, <2>7, <2>11, <3>1 DEF Assembled
    <3>3. Carried(e, d, q)  BY <1>4, <2>7, <2>11 DEF Carried
    <3> QED  BY <3>2, <3>3
  <2>14. Assembled(e, d) /\ Carried(d, e, from) /\ Returned(d, e, q)
    BY <1>4, <2>7, ReceiverSide
  <2>15. Shaken(e, q)  BY <1>4, <2>7, SameShaken
  <2>16. Pair(e, d, q, from)
    BY <1>4, <2>11, <2>12, <2>13, <2>14, <2>15 DEF Pair, Direction
  <2>17. Within(e, d, to, from)  BY <2>7, <2>16 DEF Within
  <2>18. Within(Pump(e), d, to, from)  BY <2>8, <2>17, PumpWithin
  <2> QED  BY <2>1, <2>18 DEF p
<1> QED  BY <1>7, <1>8

-----------------------------------------------------------------------------
(* The application's calls *)

\* Queueing a frame writes it to the stream and to the queue alike.
LEMMA QueueNumbered ==
    ASSUME NEW c \in Circuit, Numbered(c), c.reason = "None", NEW size \in Nat,
           NEW more \in Seq(BOOLEAN), Len(more) = size, DOMAIN more = 1 .. size,
           NEW frame \in Seq(Fragment), Len(frame) = size, DOMAIN frame = 1 .. size,
           \A i \in 1 .. size : /\ frame[i].body = <<c.inc, Len(c.sent) + i>>
                                /\ frame[i].more = more[i],
           NEW e, e.sendQueue = c.sendQueue \o frame, e.sent = c.sent \o more,
           e.unacked = c.unacked, e.va = c.va, e.vs = c.vs, e.inc = c.inc,
           e.reason = c.reason, e.state = c.state, e.window = c.window
    PROVE  /\ Numbered(e) /\ Transmitted(e) = Transmitted(c) /\ Acknowledged(e) = Acknowledged(c)
           /\ \A x \in DOMAIN c.sent : x \in DOMAIN e.sent /\ e.sent[x] = c.sent[x]
<1> DEFINE T == Transmitted(c)
           K == Acknowledged(c)
           u == Len(c.unacked)
           b == Len(c.sendQueue)
           a == Len(c.sent)
           Q == c.sendQueue
           W == c.sent
<1>1. /\ T \in Nat /\ K \in Nat /\ u \in Nat /\ b \in Nat /\ a \in Nat /\ T = K + u /\ T + b = a
      /\ size \in Nat
  BY Positions, Fields
<1>2. /\ Q \in Seq(Fragment) /\ W \in Seq(BOOLEAN) /\ b = Len(Q) /\ a = Len(W)
      /\ DOMAIN Q = 1 .. b /\ DOMAIN W = 1 .. a /\ DOMAIN c.unacked = 1 .. u
      /\ e.sendQueue = Q \o frame /\ e.sent = W \o more
  BY Fields
<1>3. /\ b + u <= a /\ u <= MaxWindow /\ (c.state = "Connected" => c.window <= MaxWindow)
      /\ c.vs = T % Modulus /\ c.va = K % Modulus
      /\ \A k \in 1 .. u : /\ c.unacked[k].seq = (K + k - 1) % Modulus
                           /\ c.unacked[k].body = <<c.inc, K + k>>
                           /\ c.unacked[k].more = W[K + k]
      /\ \A k \in 1 .. b : /\ Q[k].body = <<c.inc, T + k>>
                           /\ Q[k].more = W[T + k]
  BY <1>2 DEF Numbered
<1>4. \A i \in 1 .. size : frame[i].body = <<c.inc, a + i>> /\ frame[i].more = more[i]
  OBVIOUS
<1>5. Transmitted(e) = Len(e.sent) - Len(e.sendQueue) /\ Acknowledged(e) = Transmitted(e) - Len(e.unacked)
      /\ Len(e.unacked) = u
  BY DEF Transmitted, Acknowledged
<1> HIDE DEF T, K, u, b, a, Q, W
<1>0. /\ more \in Seq(BOOLEAN) /\ Len(more) = size /\ frame \in Seq(Fragment) /\ Len(frame) = size
  OBVIOUS
<1>6. /\ Len(e.sendQueue) = b + size /\ DOMAIN e.sendQueue = 1 .. b + size
      /\ \A k \in 1 .. b + size : e.sendQueue[k] = IF k <= b THEN Q[k] ELSE frame[k - b]
  <2>0. Q \in Seq(Fragment)  BY <1>2
  <2>1. /\ Len(Q \o frame) = Len(Q) + Len(frame) /\ DOMAIN (Q \o frame) = 1 .. Len(Q) + Len(frame)
        /\ \A k \in 1 .. Len(Q) + Len(frame) :
              (Q \o frame)[k] = IF k <= Len(Q) THEN Q[k] ELSE frame[k - Len(Q)]
    BY ONLY <1>0, <2>0, CatIndex
  <2>2. \A k \in 1 .. b + size : e.sendQueue[k] = IF k <= b THEN Q[k] ELSE frame[k - b]
    BY Zenon, <1>0, <1>2, <2>1
  <2> QED  BY <1>0, <1>2, <2>1, <2>2
<1>7. /\ Len(e.sent) = a + size /\ DOMAIN e.sent = 1 .. a + size
      /\ \A k \in 1 .. a + size : e.sent[k] = IF k <= a THEN W[k] ELSE more[k - a]
  <2>0. W \in Seq(BOOLEAN)  BY <1>2
  <2>1. /\ Len(W \o more) = Len(W) + Len(more) /\ DOMAIN (W \o more) = 1 .. Len(W) + Len(more)
        /\ \A k \in 1 .. Len(W) + Len(more) :
              (W \o more)[k] = IF k <= Len(W) THEN W[k] ELSE more[k - Len(W)]
    BY ONLY <1>0, <2>0, CatIndex
  <2>2. \A k \in 1 .. a + size : e.sent[k] = IF k <= a THEN W[k] ELSE more[k - a]
    BY Zenon, <1>0, <1>2, <2>1
  <2> QED  BY <1>0, <1>2, <2>1, <2>2
<1>8. Transmitted(e) = T /\ Acknowledged(e) = K
  <2> DEFINE t == Transmitted(e)
             k == Acknowledged(e)
  <2> HIDE DEF t, k
  <2>1. t = (a + size) - (b + size) /\ k = t - u  BY <1>5, <1>6, <1>7 DEF t, k
  <2>2. t = T /\ k = K  BY ONLY <1>1, <2>1
  <2> QED  BY <2>2 DEF t, k
<1>9. ASSUME NEW x \in 1 .. a PROVE x \in DOMAIN e.sent /\ e.sent[x] = W[x]
  <2>1. x \in 1 .. a + size /\ x <= a  BY ONLY <1>1, x \in 1 .. a
  <2>2. e.sent[x] = W[x]  BY Zenon, <1>7, <2>1
  <2> QED  BY <1>7, <2>1, <2>2
<1>10. ASSUME NEW k \in 1 .. u
       PROVE  e.unacked[k].more = e.sent[K + k]
  <2>1. K + k \in 1 .. a  BY ONLY <1>1, k \in 1 .. u
  <2>2. e.sent[K + k] = W[K + k]  BY <1>9, <2>1
  <2> QED  BY Zenon, <1>3, <2>2
<1>11. ASSUME NEW k \in 1 .. b + size
       PROVE  e.sendQueue[k].body = <<c.inc, T + k>> /\ e.sendQueue[k].more = e.sent[T + k]
  <2>1. CASE k <= b
    <3>1. k \in 1 .. b /\ T + k \in 1 .. a  BY ONLY <1>1, <2>1, k \in 1 .. b + size
    <3>2. e.sendQueue[k] = Q[k]  BY <1>6, <2>1
    <3>3. e.sent[T + k] = W[T + k]  BY <1>9, <3>1
    <3>4. e.sendQueue[k].more = e.sent[T + k]  BY Zenon, <1>3, <3>1, <3>2, <3>3
    <3> QED  BY <1>3, <3>1, <3>2, <3>4
  <2>2. CASE ~(k <= b)
    <3> DEFINE i == k - b
    <3>1. i \in 1 .. size /\ a + i = T + k /\ T + k \in 1 .. a + size /\ ~(T + k <= a) /\ T + k - a = i
      BY ONLY <1>1, <2>2, k \in 1 .. b + size
    <3>2. e.sendQueue[k] = frame[i]  BY <1>6, <2>2
    <3> HIDE DEF i
    <3> DEFINE y == T + k
    <3>6. y \in 1 .. a + size /\ ~(y <= a) /\ y - a = i
      BY ONLY <1>1, <3>1, k \in 1 .. b + size
    <3> HIDE DEF y
    <3>7. e.sent[y] = IF y <= a THEN W[y] ELSE more[y - a]  BY <1>7, <3>6
    <3>8. e.sent[y] = more[y - a]  BY Zenon, <3>6, <3>7
    <3>9. e.sent[y] = more[i]  BY Zenon, <3>6, <3>8
    <3>3. e.sent[T + k] = more[i]  BY <3>9 DEF y
    <3>4. e.sendQueue[k].more = e.sent[T + k]  BY Zenon, <1>4, <3>1, <3>2, <3>3
    <3>5. e.sendQueue[k].body = <<c.inc, T + k>>  BY SMTT(60), <1>4, <3>1, <3>2
    <3> QED  BY <3>4, <3>5
  <2> QED  BY <2>1, <2>2
<1>12. Numbered(e)
  <2>1. \A k \in DOMAIN e.unacked :
          /\ e.unacked[k].seq = (Acknowledged(e) + k - 1) % Modulus
          /\ e.unacked[k].body = <<e.inc, Acknowledged(e) + k>>
          /\ e.unacked[k].more = e.sent[Acknowledged(e) + k]
    BY ZenonT(60), <1>2, <1>3, <1>8, <1>10
  <2>2. \A k \in DOMAIN e.sendQueue :
          /\ e.sendQueue[k].body = <<e.inc, Transmitted(e) + k>>
          /\ e.sendQueue[k].more = e.sent[Transmitted(e) + k]
    BY <1>6, <1>8, <1>11
  <2>3. (b + size) + u <= a + size  BY ONLY <1>1
  <2>4. Len(e.sendQueue) + Len(e.unacked) <= Len(e.sent) /\ Len(e.unacked) <= MaxWindow
    BY <1>3, <1>5, <1>6, <1>7, <2>3
  <2> QED  BY <1>3, <1>8, <2>1, <2>2, <2>4 DEF Numbered
<1> QED  BY <1>2, <1>8, <1>9, <1>12 DEF T, K, W

\* send keeps the invariant, in every state.
LEMMA SendWithin ==
    ASSUME NEW c \in Sound, NEW size \in Nat, NEW d \in Circuit,
           NEW to \in Seq(Packet), NEW from \in Seq(Packet), Within(c, d, to, from)
    PROVE  Within(Send(c, size), d, to, from)
<1>1. CASE c.state # "Connected"  BY <1>1 DEF Send
<1>2. CASE c.state = "Connected"
  <2> DEFINE more  == [i \in 1 .. size |-> i < size]
             frame == [i \in 1 .. size |->
                         [body |-> <<c.inc, Len(c.sent) + i>>, more |-> more[i]]]
             q == c.sendQueue \o frame
             s == c.sent \o more
             e == [c EXCEPT !.sendQueue = q, !.sent = s]
  <2>1. /\ c \in Circuit /\ EndIsSound(c) /\ c.inc \in Nat /\ c.reason = "None" /\ Numbered(c)
        /\ c.sendQueue \in Seq(Fragment) /\ c.sent \in Seq(BOOLEAN)
    BY <1>2 DEF Sound, Circuit, EndIsSound, Within, Pair, Direction
  <2>2. more \in Seq(BOOLEAN) /\ Len(more) = size /\ DOMAIN more = 1 .. size  OBVIOUS
  <2>3. \A i \in 1 .. size : frame[i] \in Fragment
    <3> SUFFICES ASSUME NEW i \in 1 .. size
                 PROVE  [body |-> <<c.inc, Len(c.sent) + i>>, more |-> more[i]] \in Fragment
      OBVIOUS
    <3>1. Len(c.sent) + i \in Nat /\ more[i] \in BOOLEAN  BY <2>1
    <3> QED  BY <2>1, <3>1 DEF Fragment, Body
  <2>10. \A i \in 1 .. size : frame[i].body = <<c.inc, Len(c.sent) + i>>
    OBVIOUS
  <2>11. \A i \in 1 .. size : frame[i].more = more[i]
    <3> HIDE DEF more
    <3> QED  BY Zenon
  <2>4. frame \in Seq(Fragment) /\ Len(frame) = size /\ DOMAIN frame = 1 .. size
    <3>1. frame \in [1 .. size -> Fragment]  BY <2>3
    <3> HIDE DEF frame
    <3> QED  BY <3>1
  <2>5. Send(c, size) = Pump(e)  BY <1>2 DEF Send
  <2> HIDE DEF more, frame
  <2>6. q \in Seq(Fragment) /\ s \in Seq(BOOLEAN)  BY <2>1, <2>2, <2>4
  <2> HIDE DEF q, s
  <2>7. e \in Circuit  BY ZenonT(60), <2>1, <2>6 DEF Circuit
  <2>8. EndIsSound(e)  BY <1>2, <2>1 DEF Circuit, EndIsSound
  <2>9. /\ e.sendQueue = q /\ e.sent = s /\ e.unacked = c.unacked /\ e.va = c.va
        /\ e.vs = c.vs /\ e.inc = c.inc /\ e.reason = c.reason /\ e.state = c.state
        /\ e.window = c.window /\ e.out = c.out /\ SameReceiver(c, e) /\ SameHand(c, e)
    BY <2>1 DEF Circuit, SameReceiver, SameHand, Open
  <2> HIDE DEF e
  <2>12. /\ Numbered(e) /\ Transmitted(e) = Transmitted(c) /\ Acknowledged(e) = Acknowledged(c)
         /\ \A x \in DOMAIN c.sent : x \in DOMAIN e.sent /\ e.sent[x] = c.sent[x]
    <3>1. c \in Circuit /\ Numbered(c) /\ c.reason = "None" /\ size \in Nat  BY <2>1
    <3>2. /\ e.sendQueue = c.sendQueue \o frame /\ e.sent = c.sent \o more
          /\ e.unacked = c.unacked /\ e.va = c.va /\ e.vs = c.vs /\ e.inc = c.inc
          /\ e.reason = c.reason /\ e.state = c.state /\ e.window = c.window
      BY <2>9 DEF q, s
    <3> QED  BY ONLY <2>2, <2>4, <2>10, <2>11, <3>1, <3>2, QueueNumbered, ZenonT(60)
  <2>13. Transmitted(c) <= Transmitted(e) /\ Len(c.unacked) <= Len(e.unacked)
    <3>1. Transmitted(c) \in Nat /\ Len(c.unacked) \in Nat  BY <2>1, Positions, Fields
    <3> QED  BY <2>9, <2>12, <3>1
  <2>14. Grown(c, e)  BY <2>1, <2>9, <2>12, <2>13 DEF Grown
  <2>15. Within(e, d, to, from)  BY <2>1, <2>7, <2>9, <2>12, <2>14, GrownWithin
  <2>16. e \in Sound  BY <2>7, <2>8 DEF Sound
  <2> QED  BY <2>5, <2>15, <2>16, PumpWithin
<1> QED  BY <1>1, <1>2

\* An end that closed holds nothing, and nothing it says counts any more; what
\* it delivered stays delivered.
Ended(c, e) ==
    /\ e.reason # "None" /\ e.state = "Disconnected"
    /\ e.sent = c.sent /\ e.inc = c.inc /\ e.got = c.got
    /\ e.sendQueue = <<>> /\ e.unacked = <<>> /\ e.reassembly \in {<<>>, c.reassembly}

\* Closing keeps the invariant.
LEMMA EndedWithin ==
    ASSUME NEW c \in Circuit, NEW e \in Circuit, NEW d \in Circuit,
           NEW to \in Seq(Packet), NEW from \in Seq(Packet),
           Ended(c, e), SameHand(c, e), e.out = c.out, Within(c, d, to, from)
    PROVE  Within(e, d, to, from)
<1> DEFINE q == to \o c.out
           L == Len(c.sent)
<1>1. q \in Seq(Packet)  BY Fields, CatType
<1>2. Pair(c, d, q, from)  BY DEF Within
<1>3. Within(e, d, to, from) <=> Pair(e, d, q, from)  BY DEF Within
<1> HIDE DEF q
<1>4. /\ Numbered(c) /\ Assembled(d, c) /\ Carried(c, d, q) /\ Returned(c, d, from)
      /\ Shaken(c, q)
      /\ Numbered(d) /\ Assembled(c, d) /\ Carried(d, c, from) /\ Returned(d, c, q)
      /\ Shaken(d, from)
  BY <1>2 DEF Pair, Direction
<1>5. L \in Nat /\ Transmitted(c) <= L /\ MaxWindow \in Nat
  BY <1>4, Fields, Positions, HorizonFacts
<1>6. Transmitted(e) = L /\ Acknowledged(e) = L
  <2>1. Len(e.sent) = L /\ Len(e.sendQueue) = 0 /\ Len(e.unacked) = 0  BY DEF Ended
  <2>2. Transmitted(e) = L - 0 /\ Acknowledged(e) = Transmitted(e) - 0
    BY <2>1 DEF Transmitted, Acknowledged
  <2> HIDE DEF L
  <2>3. L - 0 = L  BY <1>5
  <2> QED  BY <2>2, <2>3
<1>7. Numbered(e)
  <2>1. Len(e.sendQueue) + Len(e.unacked) <= Len(e.sent) /\ Len(e.unacked) <= MaxWindow
    <3>1. Len(e.sent) = L /\ Len(e.sendQueue) = 0 /\ Len(e.unacked) = 0  BY DEF Ended
    <3> HIDE DEF L
    <3>2. 0 + 0 <= L /\ 0 <= MaxWindow  BY <1>5
    <3> QED  BY <3>1, <3>2
  <2>2. DOMAIN e.sendQueue = {} /\ DOMAIN e.unacked = {}  BY DEF Ended
  <2>3. e.state # "Connected" /\ e.reason # "None"  BY DEF Ended
  <2> QED  BY <2>1, <2>2, <2>3 DEF Numbered
<1>8. Grown(c, e)
  <2>1. e.sent = c.sent /\ e.inc = c.inc /\ e.reason # "None"  BY DEF Ended
  <2> QED  BY <1>5, <1>6, <2>1 DEF Grown
<1>9. Assembled(d, e) /\ Carried(e, d, q) /\ Returned(e, d, from)
  BY <1>1, <1>4, <1>5, <1>6, <1>8, GrownSender
<1>10. Assembled(e, d)
  <2>1. Delivered(e) = Delivered(c) /\ \A f : WholeFrame(e, f, d) = WholeFrame(c, f, d)
    BY DEF Ended, Delivered, WholeFrame
  <2>2. CASE e.reassembly = c.reassembly
    <3>1. Accepted(e) = Accepted(c) /\ e.got = c.got /\ e.reason # "None"
      BY <2>2 DEF Accepted, Ended
    <3> QED  BY <1>4, <2>1, <2>2, <3>1 DEF Assembled
  <2>3. CASE e.reassembly = <<>>
    <3>1. Accepted(e) = Delivered(c) /\ e.got = c.got /\ e.reason # "None"
      BY <2>3 DEF Accepted, Delivered, Ended
    <3>2. Accepted(c) = Delivered(c) + Len(c.reassembly) /\ Delivered(c) \in Nat
      BY <1>4, AcceptedIs
    <3>3. Accepted(c) <= Transmitted(d) /\ Transmitted(d) \in Nat  BY <1>4, Positions DEF Assembled
    <3> DEFINE D == Delivered(c)
               n == Len(c.reassembly)
               A == Accepted(c)
    <3>4. D \in Nat /\ n \in Nat /\ A = D + n /\ A <= Transmitted(d) /\ Transmitted(d) \in Nat
      BY <3>2, <3>3, Fields
    <3> HIDE DEF D, n, A
    <3>5. D <= Transmitted(d)  BY ONLY <3>4
    <3>6. Accepted(e) <= Transmitted(d)  BY <3>1, <3>5 DEF D
    <3>7. DOMAIN e.reassembly = {}  BY <2>3
    <3> QED  BY <1>4, <2>1, <3>1, <3>6, <3>7 DEF Assembled
  <2> QED  BY <2>2, <2>3 DEF Ended
<1>11. Carried(d, e, from)  BY <1>4 DEF Carried, Ended
<1>12. Returned(d, e, q)  BY <1>4 DEF Returned, Ended
<1>13. Shaken(e, q)  BY <1>4, SameShaken
<1> QED  BY <1>3, <1>4, <1>7, <1>9, <1>10, <1>11, <1>12, <1>13 DEF Pair, Direction

\* close, from every state.
LEMMA CloseWithin ==
    ASSUME NEW c \in Circuit, NEW reason \in Reason, reason # "None", NEW d \in Circuit,
           NEW to \in Seq(Packet), NEW from \in Seq(Packet), Within(c, d, to, from)
    PROVE  Within(Close(c, reason), d, to, from)
<1>1. CASE c.state = "Disconnected"  BY <1>1 DEF Close
<1>2. CASE c.state # "Disconnected"
  <2> DEFINE e == Close(c, reason)
  <2>1. e \in Circuit  BY <1>2, CloseType DEF Evolutions, Sound
  <2>2. e = [c EXCEPT !.state = "Disconnected", !.armed = FALSE, !.unacked = <<>>,
                      !.sendQueue = <<>>, !.reassembly = <<>>, !.reason = reason]
    BY <1>2 DEF Close
  <2>3. Ended(c, e) /\ SameHand(c, e) /\ e.out = c.out
    BY <2>2 DEF Circuit, Ended, SameHand, Open
  <2> HIDE DEF e
  <2>4. Within(e, d, to, from)  BY <2>1, <2>3, EndedWithin
  <2> QED  BY <2>4 DEF e
<1> QED  BY <1>1, <1>2

\* disconnect, from every state.
LEMMA DisconnectWithin ==
    ASSUME NEW c \in Sound, NEW d \in Circuit,
           NEW to \in Seq(Packet), NEW from \in Seq(Packet), Within(c, d, to, from)
    PROVE  Within(Disconnect(c), d, to, from)
<1>0. c \in Circuit  BY DEF Sound
<1>1. CASE c.state = "Connecting"
  BY <1>0, <1>1, CloseWithin DEF Disconnect, Reason
<1>2. CASE c.state = "Connected"
  <2> DEFINE s == SendDisconnectRequest(c)
             e == [s EXCEPT !.state = "Disconnecting", !.retries = 0, !.armed = TRUE]
  <2>1. s \in Circuit /\ s.state = "Connected"
    <3>1. s \in Emissions(c)  BY <1>0, SendDisconnectType, 0 \in Nat
    <3> QED  BY <1>0, <1>2, <3>1 DEF Emissions, Circuit
  <2>2. Within(s, d, to, from)  BY <1>0, <1>2, SendDisconnectWithin, 0 \in Nat DEF Open
  <2>3. Disconnect(c) = e  BY <1>2 DEF Disconnect
  <2> HIDE DEF s
  <2>4. SameStream(s, e) /\ SameHand(s, e) /\ e.out = s.out
    BY <2>1 DEF Circuit, SameStream, SameHand, Open
  <2> HIDE DEF e
  <2> QED  BY <2>2, <2>3, <2>4, SameWithin
<1>3. CASE c.state \notin {"Connecting", "Connected"}  BY <1>3 DEF Disconnect
<1> QED  BY <1>1, <1>2, <1>3

-----------------------------------------------------------------------------
(* onInformation *)

\* A message whose number is the expected one is the expected message.
LEMMA ExpectedIsNext ==
    ASSUME NEW r \in Circuit, NEW s \in Circuit, Numbered(s), Assembled(r, s), r.reason = "None",
           NEW fwd \in Seq(Packet), Carried(s, r, fwd), NEW k \in DOMAIN fwd, IsInfo(fwd[k]),
           fwd[k].tx = r.vr
    PROVE  /\ Position(fwd[k]) = Accepted(r) + 1
           /\ fwd[k].body = <<s.inc, Accepted(r) + 1>>
           /\ fwd[k].more = s.sent[Accepted(r) + 1]
           /\ Accepted(r) + 1 <= Transmitted(s)
<1> DEFINE A == Accepted(r)
           T == Transmitted(s)
           x == Position(fwd[k])
<1>1. A \in Nat /\ T \in Nat /\ r.vr = A % Modulus  BY AcceptedIs, Positions DEF Assembled
<1>2. /\ fwd[k].body = <<s.inc, x>> /\ x \in 1 .. T /\ fwd[k].tx = (x - 1) % Modulus
      /\ x <= A + MaxWindow /\ A < x + MaxWindow
  BY DEF Carried
<1>3. fwd[k].more = s.sent[x]  BY Zenon DEF Carried
<1> HIDE DEF A, T, x
<1>4. Modulus = Horizon + Horizon /\ Horizon \in Nat /\ MaxWindow = Horizon - 1 /\ Horizon >= 2
  BY TwiceHorizon
<1>5. x - 1 = A
  <2>1. x - 1 \in Int /\ A \in Int /\ (x - 1) - A < Modulus /\ A - (x - 1) < Modulus
    BY ONLY <1>1, <1>2, <1>4
  <2>2. (x - 1) % Modulus = A % Modulus  BY <1>1, <1>2
  <2> QED  BY <2>1, <2>2, ModUnique
<1>6. x = A + 1 /\ A + 1 <= T  BY ONLY <1>1, <1>2, <1>5
<1>7. fwd[k].more = s.sent[A + 1]  BY Zenon, <1>3, <1>6
<1> QED  BY <1>2, <1>6, <1>7 DEF A, T, x

\* The elements of a sequence with one more at its end.
LEMMA AppendIndex ==
    ASSUME NEW S, NEW a \in Seq(S), NEW b \in S
    PROVE  /\ Append(a, b) \in Seq(S) /\ Len(Append(a, b)) = Len(a) + 1
           /\ DOMAIN Append(a, b) = 1 .. Len(a) + 1 /\ Append(a, b) # <<>>
           /\ \A k \in 1 .. Len(a) + 1 : Append(a, b)[k] = IF k <= Len(a) THEN a[k] ELSE b
<1>1. Append(a, b) \in Seq(S) /\ Len(Append(a, b)) = Len(a) + 1  OBVIOUS
<1>2. DOMAIN Append(a, b) = 1 .. Len(a) + 1  OBVIOUS
<1>3. Append(a, b) # <<>>  BY SMTT(60)
<1>4. \A k \in 1 .. Len(a) + 1 : Append(a, b)[k] = IF k <= Len(a) THEN a[k] ELSE b
  OBVIOUS
<1> QED  BY <1>1, <1>2, <1>3, <1>4

\* Frame f is a whole frame of the stream that begins at the position named.
FrameFrom(r, f, s, first) ==
    /\ r.got[f] # <<>>
    /\ \A k \in DOMAIN r.got[f] : /\ first + k - 1 \in DOMAIN s.sent
                                 /\ r.got[f][k] = <<s.inc, first + k - 1>>
                                 /\ s.sent[first + k - 1] = (k < Len(r.got[f]))

\* The next frame of the stream begins after the frame before it.
LEMMA WholeFrameIs ==
    ASSUME NEW r, NEW f, NEW s, NEW first,
           first = IF f = 1 THEN 1 ELSE Last(r.got[f - 1])[2] + 1,
           FrameFrom(r, f, s, first)
    PROVE  WholeFrame(r, f, s)
BY Zenon DEF WholeFrame, FrameFrom

\* The next fragment joins the frame being assembled, or completes it.
LEMMA AcceptAssembled ==
    ASSUME NEW c \in Circuit, NEW d \in Circuit, Assembled(c, d), c.reason = "None", Numbered(d),
           NEW p, p.body = <<d.inc, Accepted(c) + 1>>, p.more = d.sent[Accepted(c) + 1],
           p.body \in Body,
           Accepted(c) + 1 <= Transmitted(d),
           NEW e, e.vr = NextSeq(c.vr, 1),
           \/ p.more /\ e.got = c.got /\ e.reassembly = Append(c.reassembly, p.body)
           \/ ~p.more /\ e.got = Append(c.got, Append(c.reassembly, p.body)) /\ e.reassembly = <<>>
    PROVE  Assembled(e, d) /\ Accepted(e) = Accepted(c) + 1
<1> DEFINE A == Accepted(c)
           D == Delivered(c)
           n == Len(c.reassembly)
           T == Transmitted(d)
           R == c.reassembly
           G == c.got
           b == p.body
           g == Append(R, b)
<1>1. /\ A \in Nat /\ D \in Nat /\ n \in Nat /\ T \in Nat /\ A = D + n /\ A + 1 <= T
      /\ T <= Len(d.sent) /\ Len(d.sent) \in Nat /\ DOMAIN d.sent = 1 .. Len(d.sent)
  BY SMTT(60), AcceptedIs, Positions, Fields
<1>2. /\ R \in Seq(Body) /\ G \in Seq(Seq(Body)) /\ n = Len(R) /\ DOMAIN R = 1 .. n
      /\ Len(G) \in Nat /\ DOMAIN G = 1 .. Len(G) /\ b \in Body
      /\ (G = <<>> => D = 0) /\ (G # <<>> => D = Last(Last(G))[2])
  BY Fields DEF Delivered
<1>3. \A k \in 1 .. n : /\ D + k \in DOMAIN d.sent
                        /\ R[k] = <<d.inc, D + k>>
                        /\ d.sent[D + k]
  BY <1>2 DEF Assembled
<1>4. b = <<d.inc, A + 1>> /\ p.more = d.sent[A + 1]  OBVIOUS
<1>5. c.vr = A % Modulus  BY DEF Assembled
<1>6. \A f \in DOMAIN G : WholeFrame(c, f, d)  BY DEF Assembled
<1>7. e.vr = NextSeq(c.vr, 1)  BY SMTT(60)
<1>8. \/ p.more /\ e.got = G /\ e.reassembly = g
      \/ ~p.more /\ e.got = Append(G, g) /\ e.reassembly = <<>>
  OBVIOUS
<1>18. G = c.got  OBVIOUS
<1> HIDE DEF A, D, n, T, R, G, b
<1>9. g \in Seq(Body) /\ Len(g) = n + 1 /\ DOMAIN g = 1 .. n + 1 /\ g # <<>>
      /\ \A k \in 1 .. n + 1 : g[k] = IF k <= n THEN R[k] ELSE b
  <2>1. R \in Seq(Body) /\ b \in Body /\ n = Len(R)  BY <1>2
  <2> QED  BY ONLY <2>1, AppendIndex
<1> HIDE DEF g
<1>10. \A k \in 1 .. n + 1 : g[k] = <<d.inc, D + k>>
  <2> SUFFICES ASSUME NEW k \in 1 .. n + 1 PROVE g[k] = <<d.inc, D + k>>  OBVIOUS
  <2>1. CASE k <= n
    <3>1. k \in 1 .. n  BY <1>1, <2>1
    <3> QED  BY <1>3, <1>9, <2>1, <3>1
  <2>2. CASE ~(k <= n)
    <3>1. k = n + 1 /\ D + k = A + 1  BY ONLY <1>1, <2>2, k \in 1 .. n + 1
    <3> QED  BY <1>4, <1>9, <2>2, <3>1
  <2> QED  BY <2>1, <2>2
<1>11. \A k \in 1 .. n + 1 : D + k \in DOMAIN d.sent
  <2> SUFFICES ASSUME NEW k \in 1 .. n + 1 PROVE D + k \in DOMAIN d.sent  OBVIOUS
  <2> DEFINE L == Len(d.sent)
  <2>1. L \in Nat /\ T <= L /\ DOMAIN d.sent = 1 .. L  BY <1>1
  <2> HIDE DEF L
  <2>2. D + k \in 1 .. L  BY <1>1, <2>1
  <2> QED  BY <2>1, <2>2
<1>12. e.vr = (A + 1) % Modulus
  <2>1. ((A % Modulus) + 1) % Modulus = (A + 1) % Modulus  BY <1>1, ModAdd
  <2> QED  BY <1>5, <1>7, <2>1 DEF NextSeq
<1>13. CASE p.more /\ e.got = G /\ e.reassembly = g
  <2>1. Delivered(e) = D  BY <1>13, <1>18 DEF Delivered, D
  <2>2. Last(g) = <<d.inc, A + 1>>
    <3>1. Last(g) = g[n + 1] /\ n + 1 \in 1 .. n + 1  BY <1>1, <1>9 DEF Last
    <3>2. D + (n + 1) = A + 1  BY ONLY <1>1
    <3> QED  BY <1>10, <3>1, <3>2
  <2>3. Accepted(e) = A + 1  BY <1>9, <1>13, <2>2 DEF Accepted
  <2>4. \A f \in DOMAIN e.got : WholeFrame(e, f, d)
    BY <1>6, <1>13, <1>18 DEF WholeFrame
  <2>5. ASSUME NEW k \in 1 .. n + 1 PROVE d.sent[D + k]
    <3>1. CASE k <= n
      <4>1. k \in 1 .. n  BY <1>1, <3>1
      <4> QED  BY <1>3, <4>1
    <3>2. CASE ~(k <= n)
      <4>1. D + k = A + 1  BY ONLY <1>1, <3>2, k \in 1 .. n + 1
      <4> QED  BY <1>4, <1>13, <4>1
    <3> QED  BY <3>1, <3>2
  <2>6. A + 1 <= T  BY <1>1
  <2> QED  BY <1>9, <1>10, <1>11, <1>12, <1>13, <2>1, <2>3, <2>4, <2>5, <2>6 DEF Assembled, A, T
<1>14. CASE ~p.more /\ e.got = Append(G, g) /\ e.reassembly = <<>>
  <2> DEFINE m == Len(G)
             H == Append(G, g)
  <2>1. /\ m \in Nat /\ Len(H) = m + 1 /\ DOMAIN H = 1 .. m + 1 /\ H # <<>> /\ H[m + 1] = g
        /\ \A f \in 1 .. m : H[f] = G[f]
        /\ DOMAIN G = 1 .. m
    BY <1>2, <1>9
  <2>2. Last(H) = g /\ Last(g) = <<d.inc, A + 1>>
    <3>1. Last(g) = g[n + 1] /\ n + 1 \in 1 .. n + 1  BY <1>1, <1>9 DEF Last
    <3>2. D + (n + 1) = A + 1  BY ONLY <1>1
    <3>3. Last(H) = g  BY <2>1 DEF Last
    <3> QED  BY <1>10, <3>1, <3>2, <3>3
  <2>3. G = <<>> <=> m = 0  BY <1>2
  <2>4. G # <<>> => D = Last(G[m])[2]  BY <1>2 DEF Last
  <2> HIDE DEF m, H
  <2>5. e.got = H  BY <1>14 DEF H
  <2>6. Delivered(e) = A + 1 /\ Accepted(e) = A + 1
    BY <1>14, <2>1, <2>2, <2>5, SMTT(30) DEF Delivered, Accepted
  <2>7. ASSUME NEW f \in 1 .. m PROVE WholeFrame(e, f, d)
    <3>1. e.got[f] = c.got[f] /\ (f # 1 => e.got[f - 1] = c.got[f - 1])
      <4>1. f # 1 => f - 1 \in 1 .. m  BY <2>1
      <4> QED  BY <1>18, <2>1, <2>5, <4>1
    <3>2. WholeFrame(c, f, d)  BY <1>6, <2>1
    <3> QED  BY <3>1, <3>2 DEF WholeFrame
  <2>8. WholeFrame(e, m + 1, d)
    <3> DEFINE first == IF m + 1 = 1 THEN 1 ELSE Last(e.got[(m + 1) - 1])[2] + 1
    <3>1. first = D + 1
      <4>1. CASE m = 0  BY <1>2, <2>3, <4>1
      <4>2. CASE m # 0
        <5>1. m + 1 # 1 /\ (m + 1) - 1 = m /\ m \in 1 .. m  BY <2>1, <4>2
        <5>2. e.got[m] = G[m]  BY <2>1, <2>5, <5>1
        <5>3. D = Last(G[m])[2]  BY <2>3, <2>4, <4>2
        <5> QED  BY <5>1, <5>2, <5>3
      <4> QED  BY <4>1, <4>2
    <3>2. e.got[m + 1] = g  BY <2>1, <2>5
    <3> HIDE DEF first
    <3>3. ASSUME NEW k \in DOMAIN g
          PROVE  /\ first + k - 1 \in DOMAIN d.sent
                 /\ g[k] = <<d.inc, first + k - 1>>
                 /\ d.sent[first + k - 1] = (k < Len(g))
      <4>1. k \in 1 .. n + 1 /\ Len(g) = n + 1  BY <1>9
      <4>2. first + k - 1 = D + k  BY ONLY <1>1, <3>1, <4>1
      <4>3. d.sent[D + k] = (k < n + 1)
        <5>1. CASE k <= n
          <6>1. k \in 1 .. n /\ k < n + 1  BY <1>1, <4>1, <5>1
          <6>2. d.sent[D + k]  BY <1>3, <6>1
          <6>3. d.sent[D + k] \in BOOLEAN
            <7>1. D + k \in DOMAIN d.sent /\ d.sent \in Seq(BOOLEAN)  BY <1>11, <4>1, Fields
            <7> QED  BY <7>1
          <6> QED  BY <6>1, <6>2, <6>3
        <5>2. CASE ~(k <= n)
          <6>1. D + k = A + 1 /\ ~(k < n + 1)  BY ONLY <1>1, <4>1, <5>2
          <6>2. ~d.sent[A + 1]  BY <1>4, <1>14, Zenon
          <6>3. d.sent[D + k] \in BOOLEAN
            <7>1. D + k \in DOMAIN d.sent /\ d.sent \in Seq(BOOLEAN)  BY <1>11, <4>1, Fields
            <7> QED  BY <7>1
          <6> QED  BY <6>1, <6>2, <6>3
        <5> QED  BY <5>1, <5>2
      <4>4. d.sent[first + k - 1] = (k < Len(g))  BY Zenon, <4>1, <4>2, <4>3
      <4> QED  BY <1>10, <1>11, <4>1, <4>2, <4>4
    <3>4. g # <<>>  BY <1>9
    <3>5. FrameFrom(e, m + 1, d, first)
      BY ONLY Zenon, <3>2, <3>3, <3>4 DEF FrameFrom
    <3>6. first = IF m + 1 = 1 THEN 1 ELSE Last(e.got[(m + 1) - 1])[2] + 1  BY DEF first
    <3> HIDE DEF first
    <3> QED  BY ONLY <3>5, <3>6, WholeFrameIs
  <2>9. \A f \in DOMAIN e.got : WholeFrame(e, f, d)
    <3>1. \A f \in 1 .. m + 1 : f \in 1 .. m \/ f = m + 1  BY <2>1
    <3> QED  BY <2>1, <2>5, <2>7, <2>8, <3>1
  <2>10. DOMAIN e.reassembly = {}  BY <1>14
  <2>11. A + 1 <= T  BY <1>1
  <2> QED  BY <1>12, <2>6, <2>9, <2>10, <2>11 DEF Assembled, A, T
<1> QED  BY SMTT(60), <1>8, <1>13, <1>14

\* Accepting the expected message keeps the invariant.
LEMMA AcceptWithin ==
    ASSUME NEW c \in Circuit, NEW d \in Circuit, NEW e \in Circuit,
           NEW to \in Seq(Packet), NEW from \in Seq(Packet), Within(c, d, to, from),
           c.reason = "None", from # <<>>, IsInfo(from[1]), from[1].tx = c.vr,
           e.vr = NextSeq(c.vr, 1),
           \/ /\ from[1].more /\ e.got = c.got
              /\ e.reassembly = Append(c.reassembly, from[1].body)
           \/ /\ ~from[1].more /\ e.got = Append(c.got, Append(c.reassembly, from[1].body))
              /\ e.reassembly = <<>>,
           SameSender(c, e), SameHand(c, e), e.out = c.out
    PROVE  Within(e, d, to, from)
<1> DEFINE q == to \o c.out
           A == Accepted(c)
           B == Accepted(e)
           p == from[1]
<1>1. q \in Seq(Packet)  BY Fields, CatType
<1>2. Within(e, d, to, from) <=> Pair(e, d, q, from)  BY DEF Within
<1>3. Pair(c, d, q, from)  BY DEF Within
<1>4. /\ Numbered(c) /\ Assembled(d, c) /\ Carried(c, d, q) /\ Returned(c, d, from)
      /\ Shaken(c, q)
      /\ Numbered(d) /\ Assembled(c, d) /\ Carried(d, c, from) /\ Returned(d, c, q)
      /\ Shaken(d, from)
  BY <1>3 DEF Pair, Direction
<1>5. p \in Packet /\ 1 \in DOMAIN from /\ p.body \in Body  BY PacketFields
<1> HIDE DEF q
<1>6. /\ Position(p) = A + 1 /\ p.body = <<d.inc, A + 1>>
      /\ A + 1 <= Transmitted(d)
  BY <1>4, <1>5, ExpectedIsNext
<1>7. p.more = d.sent[A + 1]  BY Zenon, <1>4, <1>5, ExpectedIsNext
<1>8. Assembled(e, d) /\ B = A + 1
  <2>1. /\ c \in Circuit /\ d \in Circuit /\ Assembled(c, d) /\ c.reason = "None" /\ Numbered(d)
        /\ p.body = <<d.inc, Accepted(c) + 1>> /\ p.more = d.sent[Accepted(c) + 1]
        /\ p.body \in Body /\ Accepted(c) + 1 <= Transmitted(d)
        /\ e.vr = NextSeq(c.vr, 1)
        /\ \/ p.more /\ e.got = c.got /\ e.reassembly = Append(c.reassembly, p.body)
           \/ ~p.more /\ e.got = Append(c.got, Append(c.reassembly, p.body)) /\ e.reassembly = <<>>
    BY <1>4, <1>5, <1>6, <1>7, Zenon
  <2> HIDE DEF p
  <2> QED  BY ONLY <2>1, AcceptAssembled
<1>9. A \in Nat /\ MaxWindow \in Nat /\ MaxWindow >= 1  BY <1>4, AcceptedIs, HorizonFacts
<1>10. e.reason = "None" /\ e.state \in State /\ (e.state = "Connected" => e.window <= MaxWindow)
  <2>1. c.state = "Connected" => c.window <= MaxWindow  BY <1>4 DEF Numbered
  <2> QED  BY <2>1 DEF SameSender, SameHand, Circuit
<1>11. Numbered(e) /\ Assembled(d, e) /\ Carried(e, d, q) /\ Returned(e, d, from)
        /\ Accepted(e) = B
  <2>1. Numbered(e) /\ Assembled(d, e) /\ Carried(e, d, q)
    BY <1>4, <1>10, SenderSide
  <2>2. Returned(e, d, from)  BY <1>4, SenderSide
  <2> QED  BY <2>1, <2>2
<1>13. Carried(d, e, from)
  <2>1. ASSUME NEW k \in DOMAIN from, IsInfo(from[k])
        PROVE  Position(from[k]) <= B + MaxWindow /\ B < Position(from[k]) + MaxWindow
    <3> DEFINE x == Position(from[k])
    <3>1. x \in 1 .. Transmitted(d) /\ x <= A + MaxWindow /\ A < x + MaxWindow
      BY <1>4, <2>1 DEF Carried
    <3>2. k = 1 \/ 1 < k  BY <2>1
    <3>3. 1 < k => A + 1 < x + MaxWindow  BY <1>4, <1>5, <1>6, <2>1 DEF Carried
    <3>4. k = 1 => x = A + 1  BY <1>6
    <3>5. Transmitted(d) \in Nat  BY <1>4, Positions
    <3> HIDE DEF x, A, B
    <3>6. x <= B + MaxWindow /\ B < x + MaxWindow
      BY <1>8, <1>9, <3>1, <3>2, <3>3, <3>4, <3>5
    <3> QED  BY <3>6 DEF x
  <2>2. ASSUME NEW k \in DOMAIN from, IsInfo(from[k])
        PROVE  /\ from[k].body = <<d.inc, Position(from[k])>>
               /\ Position(from[k]) \in 1 .. Transmitted(d)
               /\ from[k].tx = (Position(from[k]) - 1) % Modulus
    BY <1>4, <2>2 DEF Carried
  <2>3. ASSUME NEW k \in DOMAIN from, IsInfo(from[k])
        PROVE  from[k].more = d.sent[Position(from[k])]
    BY <1>4, <2>3, Zenon DEF Carried
  <2>4. \A k, l \in DOMAIN from : k < l /\ IsInfo(from[k]) /\ IsInfo(from[l]) =>
           Position(from[k]) < Position(from[l]) + MaxWindow
    BY <1>4 DEF Carried
  <2> HIDE DEF A, B, p
  <2>5. ASSUME NEW k \in DOMAIN from, IsInfo(from[k])
        PROVE  /\ from[k].body = <<d.inc, Position(from[k])>>
               /\ Position(from[k]) \in 1 .. Transmitted(d)
               /\ from[k].tx = (Position(from[k]) - 1) % Modulus
               /\ from[k].more = d.sent[Position(from[k])]
               /\ e.reason = "None" => /\ Position(from[k]) <= Accepted(e) + MaxWindow
                                       /\ Accepted(e) < Position(from[k]) + MaxWindow
    BY Zenon, <2>1, <2>2, <2>3, <2>5 DEF B
  <2> QED  BY ONLY Zenon, <2>4, <2>5 DEF Carried
<1>14. Returned(d, e, q)
  <2> SUFFICES ASSUME d.reason = "None" PROVE Returned(d, e, q)  BY DEF Returned
  <2>1. Acknowledged(d) <= A  BY <1>4 DEF Returned
  <2>2. Acknowledged(d) \in Nat  BY <1>4, Positions
  <2>3. ASSUME NEW k \in DOMAIN q, IsAck(q[k])
        PROVE  Covers(d, q[k]) <= Len(d.unacked) /\ Acknowledged(d) + Covers(d, q[k]) <= B
    <3>1. /\ Covers(d, q[k]) <= Len(d.unacked)
          /\ Acknowledged(d) + Covers(d, q[k]) <= A
      BY <1>4, <2>3 DEF Returned
    <3> DEFINE v == Covers(d, q[k])
    <3>2. v \in Nat  BY <1>1, CoversRange
    <3> HIDE DEF A, B, v
    <3>3. Acknowledged(d) + v <= B  BY <1>8, <1>9, <2>2, <3>1, <3>2 DEF v
    <3> QED  BY <3>1, <3>3 DEF v
  <2>4. Acknowledged(d) <= B
    <3> HIDE DEF A, B
    <3> QED  BY <1>8, <1>9, <2>1, <2>2
  <2> QED  BY <1>4, <2>3, <2>4 DEF Returned
<1>15. Shaken(e, q)  BY <1>4, SameShaken
<1> QED  BY <1>2, <1>4, <1>8, <1>11, <1>13, <1>14, <1>15 DEF Pair, Direction

\* What an open end may become without closing or negotiating anew.
Staying(c) == {e \in Evolutions(c) : e.window = c.window /\ (Open(c) => Open(e))}

\* Such steps compose, and data, acknowledgements and choke are such steps.
LEMMA StayingSteps ==
    ASSUME NEW c, NEW d, NEW e
    PROVE  /\ d \in Staying(c) /\ e \in Staying(d) => e \in Staying(c)
           /\ d \in DataSteps(c) \/ d \in SameState(c) => d \in Staying(c)
           /\ d \in Staying(c) => d \in Sound /\ d \in Circuit /\ d \in Evolutions(c)
<1>1. d \in Evolutions(c) /\ e \in Evolutions(d) => e \in Evolutions(c)  BY Transitivity
<1>2. d \in DataSteps(c) \/ d \in SameState(c)
        => d \in Evolutions(c) /\ d.state = c.state /\ d.window = c.window
  BY DEF DataSteps, SameState
<1> QED  BY <1>1, <1>2 DEF Staying, Open, Evolutions, Sound

\* disconnect keeps an open end open: it waits for its acknowledgement.
LEMMA DisconnectStays == ASSUME NEW c \in Sound PROVE Disconnect(c) \in Staying(c)
<1>1. Disconnect(c) \in Evolutions(c)  BY DisconnectType
<1>2. c \in Circuit  BY DEF Sound
<1>3. CASE c.state = "Connected"
  <2> DEFINE s == SendDisconnectRequest(c)
  <2>1. s \in Circuit /\ s.window = c.window
    <3>1. s \in Emissions(c)  BY <1>2, SendDisconnectType, 0 \in Nat
    <3> QED  BY <3>1, <1>2 DEF Emissions, Circuit
  <2>2. Disconnect(c) = [s EXCEPT !.state = "Disconnecting", !.retries = 0, !.armed = TRUE]
    BY <1>3 DEF Disconnect
  <2> HIDE DEF s
  <2>3. Disconnect(c).window = c.window /\ Disconnect(c).state = "Disconnecting"
    BY <2>1, <2>2 DEF Circuit
  <2> QED  BY <1>1, <2>3 DEF Staying, Open
<1>4. CASE c.state # "Connected"
  <2>1. Disconnect(c).window = c.window
    BY <1>2, <1>4 DEF Disconnect, Close, Circuit
  <2>2. Open(c) => Disconnect(c) = c  BY <1>4 DEF Open, Disconnect
  <2> QED  BY <1>1, <2>1, <2>2 DEF Staying
<1> QED  BY <1>3, <1>4

\* Whatever the application does inside the data callback keeps the invariant.
LEMMA ReactWithin ==
    ASSUME NEW c \in Sound, NEW reaction \in Reaction, NEW d \in Circuit,
           NEW to \in Seq(Packet), NEW from \in Seq(Packet), Within(c, d, to, from)
    PROVE  Within(React(c, reaction), d, to, from) /\ React(c, reaction) \in Staying(c)
<1>1. CASE reaction = "hold"
  <2>1. React(c, reaction) = c  BY <1>1 DEF React
  <2> QED  BY <2>1, Reflexivity, StayingSteps
<1>2. CASE reaction = "drain"
  <2>1. React(c, reaction) = OnDeliveryDrained(c)  BY <1>2 DEF React
  <2> QED  BY <2>1, OnDeliveryDrainedType, OnDeliveryDrainedWithin, StayingSteps
<1>3. CASE reaction = "reply"
  <2> DEFINE e == Send(c, 1)
  <2>1. React(c, reaction) = OnDeliveryDrained(e)  BY <1>3 DEF React
  <2>2. e \in DataSteps(c) /\ Within(e, d, to, from)  BY SendType, SendWithin, 1 \in Nat
  <2> HIDE DEF e
  <2>3. e \in Sound  BY <2>2, Transitivity
  <2>4. OnDeliveryDrained(e) \in DataSteps(e) /\ Within(OnDeliveryDrained(e), d, to, from)
    BY <2>2, <2>3, OnDeliveryDrainedType, OnDeliveryDrainedWithin
  <2> QED  BY <2>1, <2>2, <2>4, StayingSteps
<1>4. CASE reaction = "dispose"
  <2> DEFINE e == Disconnect(c)
  <2>1. React(c, reaction) = OnDeliveryDrained(e)  BY <1>4 DEF React
  <2>2. e \in Staying(c) /\ Within(e, d, to, from)  BY DisconnectStays, DisconnectWithin
  <2> HIDE DEF e
  <2>3. e \in Sound  BY <2>2, StayingSteps
  <2>4. OnDeliveryDrained(e) \in DataSteps(e) /\ Within(OnDeliveryDrained(e), d, to, from)
    BY <2>2, <2>3, OnDeliveryDrainedType, OnDeliveryDrainedWithin
  <2> QED  BY <2>1, <2>2, <2>4, StayingSteps
<1> QED  BY <1>1, <1>2, <1>3, <1>4 DEF Reaction

\* Accepting the expected message: buffered, or delivered with the rest of its
\* frame and reacted to.
LEMMA DeliverWithin ==
    ASSUME NEW c \in Sound, c.state = "Connected", NEW reaction \in Reaction, NEW d \in Circuit,
           NEW to \in Seq(Packet), NEW from \in Seq(Packet), Within(c, d, to, from),
           from # <<>>, IsInfo(from[1]), from[1].tx = c.vr,
           NEW a, a = [c EXCEPT !.vr = NextSeq(c.vr, 1),
                                !.reassembly = Append(c.reassembly, from[1].body)],
           NEW x, x = IF from[1].more THEN a ELSE Deliver(a, reaction)
    PROVE  Within(x, d, to, from) /\ x \in Staying(c)
<1> DEFINE p == from[1]
           v == NextSeq(c.vr, 1)
           r == Append(c.reassembly, p.body)
<1>1. c \in Circuit /\ c.reason = "None" /\ p \in Packet /\ p.body \in Body
  BY PacketFields DEF Sound, EndIsSound
<1>2. v \in Seqno /\ r \in Seq(Body)
  <2>1. c.vr \in Seqno /\ c.reassembly \in Seq(Body)  BY <1>1, Fields
  <2>2. c.vr \in Nat  BY <2>1, ModulusAssumption DEF Seqno
  <2> QED  BY <1>1, <2>1, <2>2, NextSeqType, 1 \in Int
<1>3. a = [c EXCEPT !.vr = v, !.reassembly = r]  OBVIOUS
<1> HIDE DEF p, v, r
<1>4. a \in Circuit  BY <1>1, <1>2, <1>3, ZenonT(60) DEF Circuit
<1>5. EndIsSound(c)  BY DEF Sound
<1>6. EndIsSound(a) /\ SameIdentity(c, a) /\ a.window = c.window /\ a.state = c.state
      /\ a.reason = c.reason /\ a.armed = c.armed
      /\ a.out = c.out /\ a.remoteKey = c.remoteKey
  BY <1>1, <1>3, <1>5, ZenonT(60) DEF Circuit, EndIsSound, SameIdentity
<1>7. a \in DataSteps(c) /\ a \in Sound /\ a \in Staying(c)
  <2>1. a \in DataSteps(c)
    BY <1>4, <1>6 DEF DataSteps, SameState, Chats, Evolutions, Sound
  <2> QED  BY <2>1, StayingSteps
<1>8. CASE p.more
  <2>1. x = a  BY <1>8 DEF p
  <2>2. SameSender(c, a) /\ SameHand(c, a) /\ a.out = c.out /\ a.vr = v /\ a.got = c.got
        /\ a.reassembly = r
    BY <1>1, <1>3, ZenonT(60) DEF Circuit, SameSender, SameHand, Open
  <2>3. Within(a, d, to, from)
    BY <1>1, <1>4, <1>8, <2>2, AcceptWithin DEF p, v, r
  <2> QED  BY <1>7, <2>1, <2>3
<1>9. CASE ~p.more
  <2> DEFINE got == Append(a.got, a.reassembly)
             n   == IF ChokeThreshold > 0 THEN a.pending + 1 ELSE a.pending
             g   == [a EXCEPT !.got = got, !.reassembly = <<>>, !.pending = n]
             y   == React(g, reaction)
  <2>1. x = MaybeAssertChoke(y)  BY <1>9 DEF Deliver, p
  <2>2. got \in Seq(Seq(Body)) /\ n \in Nat
    <3>1. a.got \in Seq(Seq(Body)) /\ a.reassembly \in Seq(Body) /\ a.pending \in Nat
      BY <1>4 DEF Circuit
    <3> QED  BY <3>1
  <2>3. a.got = c.got /\ a.reassembly = r  BY <1>1, <1>3 DEF Circuit
  <2>4. got = Append(c.got, r)  BY <2>3
  <2> HIDE DEF got, n
  <2>5. g \in Circuit
    <3>1. ASSUME NEW b \in Seq(Body)
          PROVE  [a EXCEPT !.got = got, !.reassembly = b, !.pending = n] \in Circuit
      BY <1>4, <2>2, ZenonT(60) DEF Circuit
    <3>2. <<>> \in Seq(Body)  OBVIOUS
    <3> QED  BY <3>1, <3>2
  <2>6. EndIsSound(g) /\ SameIdentity(a, g) /\ g.window = a.window /\ g.state = a.state
        /\ g.reason = a.reason /\ g.armed = a.armed
        /\ g.out = a.out /\ g.remoteKey = a.remoteKey
    BY <1>4, <1>6 DEF Circuit, EndIsSound, SameIdentity
  <2>7. g \in DataSteps(a) /\ g \in Sound /\ g \in Staying(a)
    <3>1. g \in DataSteps(a)
      BY <2>5, <2>6 DEF DataSteps, SameState, Chats, Evolutions, Sound
    <3> QED  BY <3>1, StayingSteps
  <2>8. SameSender(c, g) /\ SameHand(c, g) /\ g.out = c.out /\ g.vr = v
        /\ g.got = Append(c.got, r) /\ g.reassembly = <<>>
    <3>1. SameSender(c, a) /\ SameHand(c, a) /\ a.out = c.out /\ a.vr = v
      BY <1>1, <1>3, ZenonT(60) DEF Circuit, SameSender, SameHand, Open
    <3>2. SameSender(a, g) /\ SameHand(a, g) /\ g.out = a.out /\ g.vr = a.vr
          /\ g.got = got /\ g.reassembly = <<>>
      BY <1>4 DEF Circuit, SameSender, SameHand, Open
    <3> QED  BY <2>4, <3>1, <3>2 DEF SameSender, SameHand
  <2> HIDE DEF g
  <2>9. Within(g, d, to, from)
    BY <1>1, <1>9, <2>5, <2>8, AcceptWithin DEF p, v, r
  <2>10. Within(y, d, to, from) /\ y \in Staying(g)  BY <2>7, <2>9, ReactWithin
  <2> HIDE DEF y
  <2>11. y \in Circuit /\ y \in Sound  BY <2>10, StayingSteps
  <2>12. Within(x, d, to, from) /\ x \in DataSteps(y)
    BY <2>1, <2>10, <2>11, MaybeAssertChokeWithin, MaybeAssertChokeType
  <2> QED  BY <1>7, <2>7, <2>10, <2>12, StayingSteps
<1> QED  BY <1>8, <1>9

\* onInformation, whatever number the message carries.
LEMMA OnInformationWithin ==
    ASSUME NEW c \in Sound, NEW reaction \in Reaction, NEW d \in Circuit,
           NEW to \in Seq(Packet), NEW from \in Seq(Packet), Within(c, d, to, from),
           from # <<>>, IsInfo(from[1])
    PROVE  /\ Within(OnInformation(c, from[1], reaction), d, to, from)
           /\ OnInformation(c, from[1], reaction) \in Staying(c)
<1> DEFINE p == from[1]
<1>1. CASE c.state # "Connected"
  <2>1. OnInformation(c, p, reaction) = c  BY <1>1 DEF OnInformation
  <2> QED  BY <2>1, Reflexivity, StayingSteps
<1>2. CASE c.state = "Connected"
  <2> DEFINE b == AbsorbAck(c, p.rx)
             a == ApplyPeerChoke(b, p.choke)
             g == [a EXCEPT !.vr = NextSeq(a.vr, 1),
                            !.reassembly = Append(a.reassembly, p.body)]
             x == IF p.more THEN g ELSE Deliver(g, reaction)
             future == Mod256After(p.tx, a.vr)
  <2>1. p \in Packet /\ p.rx \in Seqno /\ p.choke \in BOOLEAN  BY PacketFields
  <2>2. OnInformation(c, p, reaction) =
          IF p.tx # a.vr THEN SendInformationAcknowledge(a, future)
          ELSE SendInformationAcknowledge(x, FALSE)
    BY <1>2 DEF OnInformation
  <2>3. b \in DataSteps(c) /\ Within(b, d, to, from)
    <3>1. IsAck(from[1])  BY DEF IsAck, IsInfo
    <3> QED  BY <1>2, <2>1, <3>1, AbsorbAckType, AbsorbAckWithin
  <2> HIDE DEF b
  <2>4. b \in Sound  BY <2>3, Transitivity
  <2>5. a \in DataSteps(b) /\ Within(a, d, to, from)
    BY <2>1, <2>3, <2>4, ApplyPeerChokeType, ApplyPeerChokeWithin
  <2> HIDE DEF a
  <2>6. a \in DataSteps(c) /\ a \in Sound /\ a \in Staying(c)  BY <2>3, <2>5, Transitivity, StayingSteps
  <2>7. a.state = "Connected" /\ a.reason = "None" /\ a \in Circuit
    BY <1>2, <2>6 DEF DataSteps, SameState, Sound, EndIsSound
  <2>8. CASE p.tx # a.vr
    <3>1. future \in BOOLEAN  BY DEF Mod256After
    <3> HIDE DEF future
    <3>2. /\ SendInformationAcknowledge(a, future) \in DataSteps(a)
          /\ Within(SendInformationAcknowledge(a, future), d, to, from)
      BY <2>5, <2>6, <2>7, <3>1, SendInformationAcknowledgeType,
         SendInformationAcknowledgeWithin
    <3> QED  BY <2>2, <2>6, <2>8, <3>2, StayingSteps
  <2>9. CASE p.tx = a.vr
    <3>1. Within(x, d, to, from) /\ x \in Staying(a)
      BY <2>5, <2>6, <2>7, <2>9, DeliverWithin, ZenonT(60)
    <3> HIDE DEF x
    <3>2. x \in Sound /\ x \in Circuit /\ Open(x)  BY <2>7, <3>1, StayingSteps DEF Staying, Open
    <3>3. x.reason = "None" /\ x.state # "Connecting"  BY <3>2 DEF Sound, EndIsSound, Open
    <3>4. /\ SendInformationAcknowledge(x, FALSE) \in DataSteps(x)
          /\ Within(SendInformationAcknowledge(x, FALSE), d, to, from)
      BY <3>1, <3>2, <3>3, SendInformationAcknowledgeType,
         SendInformationAcknowledgeWithin
    <3> QED  BY <2>2, <2>6, <2>9, <3>1, <3>4, StayingSteps
  <2> QED  BY <2>8, <2>9
<1> QED  BY <1>1, <1>2

\* onInformationAcknowledge, with the resend a NAK asks for.
LEMMA OnInformationAcknowledgeWithin ==
    ASSUME NEW c \in Sound, NEW d \in Circuit,
           NEW to \in Seq(Packet), NEW from \in Seq(Packet), Within(c, d, to, from),
           from # <<>>, IsAck(from[1])
    PROVE  /\ Within(OnInformationAcknowledge(c, from[1]), d, to, from)
           /\ OnInformationAcknowledge(c, from[1]) \in Staying(c)
<1> DEFINE p == from[1]
<1>1. CASE c.state # "Connected"
  <2>1. OnInformationAcknowledge(c, p) = c  BY <1>1 DEF OnInformationAcknowledge
  <2> QED  BY <2>1, Reflexivity, StayingSteps
<1>2. CASE c.state = "Connected"
  <2> DEFINE b == ApplyPeerChoke(c, p.choke)
             a == AbsorbAck(b, p.rx)
             x == IF p.nak THEN RetransmitFrom(a, p.rx) ELSE a
  <2>1. p \in Packet /\ p.rx \in Seqno /\ p.choke \in BOOLEAN  BY PacketFields
  <2>2. OnInformationAcknowledge(c, p) = Pump(x)  BY <1>2 DEF OnInformationAcknowledge
  <2>3. b \in DataSteps(c) /\ Within(b, d, to, from)
    BY <2>1, ApplyPeerChokeType, ApplyPeerChokeWithin
  <2> HIDE DEF b
  <2>4. b \in Sound /\ b.state = "Connected"
    BY <1>2, <2>3, Transitivity DEF DataSteps, SameState
  <2>5. a \in DataSteps(b) /\ Within(a, d, to, from)
    BY <2>1, <2>3, <2>4, AbsorbAckType, AbsorbAckWithin
  <2> HIDE DEF a
  <2>6. a \in DataSteps(c) /\ a \in Sound /\ a.state = "Connected"
    BY <2>3, <2>4, <2>5, Transitivity DEF DataSteps, SameState
  <2>7. a.reason = "None" /\ Open(a)  BY <2>6 DEF Sound, EndIsSound, Open
  <2>8. x \in DataSteps(a) /\ Within(x, d, to, from)
    BY <2>5, <2>6, <2>7, RetransmitFromType, RetransmitFromWithin, Reflexivity
  <2> HIDE DEF x
  <2>9. x \in Sound  BY <2>8, Transitivity
  <2>10. Pump(x) \in DataSteps(x) /\ Within(Pump(x), d, to, from)
    BY <2>8, <2>9, PumpType, PumpWithin
  <2> QED  BY <2>2, <2>6, <2>8, <2>10, Transitivity, StayingSteps
<1> QED  BY <1>1, <1>2

-----------------------------------------------------------------------------
(* The handshake's handlers *)

\* A Disconnect Acknowledge may also leave together with the close.
LEMMA OnDisconnectRequestWithin ==
    ASSUME NEW c \in Circuit, NEW p \in Packet, NEW d \in Circuit,
           NEW to \in Seq(Packet), NEW from \in Seq(Packet), Within(c, d, to, from)
    PROVE  Within(OnDisconnectRequest(c, p), d, to, from)
<1>1. p.inc \in Nat  BY PacketFields
<1>2. CASE c.state = "Disconnected"
  <2>1. SendDisconnectAcknowledge(c, p.inc).state = "Disconnected"
    BY <1>2 DEF SendDisconnectAcknowledge, Emit, Circuit
  <2>2. OnDisconnectRequest(c, p) = SendDisconnectAcknowledge(c, p.inc)
    BY <2>1 DEF OnDisconnectRequest, Close
  <2> QED  BY <1>1, <1>2, <2>2, SendDisconnectWithin
<1>3. CASE c.state # "Disconnected"
  <2> DEFINE e == Close(c, "Normal")
             b == Blank("DisconnectAcknowledge", c.remoteKey, p.inc)
  <2>1. OnDisconnectRequest(c, p) = Emit(e, <<b>>)
    BY ZenonT(60), <1>3 DEF OnDisconnectRequest, SendDisconnectAcknowledge, Emit, Close, Circuit
  <2>2. Within(e, d, to, from)  BY CloseWithin DEF Reason
  <2>3. e \in Circuit /\ e.state = "Disconnected" /\ e.mintedFor = c.mintedFor
    <3>1. e \in Evolutions(c)  BY <1>3, CloseType DEF Reason
    <3>2. e.state = "Disconnected" /\ e.mintedFor = c.mintedFor
      BY <1>3 DEF Close, Circuit
    <3> QED  BY <3>1, <3>2 DEF Evolutions, Sound
  <2>4. b \in Packet
    <3>1. c.remoteKey \in Key  BY DEF Circuit
    <3> QED  BY <1>1, <3>1, BlankType DEF Opcode
  <2>5. Timely(e, b)  BY <2>3 DEF Timely, Blank, IsAck, IsInfo, IsAccept
  <2> HIDE DEF e, b
  <2> QED  BY <2>1, <2>2, <2>3, <2>4, <2>5, EmitOneWithin
<1> QED  BY <1>2, <1>3

\* The acknowledgement of our own Disconnect Request closes the end.
LEMMA OnDisconnectAcknowledgeWithin ==
    ASSUME NEW c \in Circuit, NEW d \in Circuit,
           NEW to \in Seq(Packet), NEW from \in Seq(Packet), Within(c, d, to, from)
    PROVE  Within(OnDisconnectAcknowledge(c), d, to, from)
BY CloseWithin DEF OnDisconnectAcknowledge, Reason

\* A repeated Connect Request is acknowledged again by a connected end.
LEMMA OnConnectRequestWithin ==
    ASSUME NEW c \in Sound, c.mintedFor # 0, NEW d \in Circuit,
           NEW to \in Seq(Packet), NEW from \in Seq(Packet), Within(c, d, to, from)
    PROVE  Within(OnConnectRequest(c), d, to, from) /\ OnConnectRequest(c) \in Staying(c)
<1>1. c \in Circuit  BY DEF Sound
<1>2. CASE c.state = "Connected"
  <2>1. c.window \in 1 .. MaxWindow
    BY <1>2 DEF Within, Pair, Direction, Shaken, Open
  <2>2. OnConnectRequest(c) = SendConnectAcknowledge(c, FALSE)  BY <1>2 DEF OnConnectRequest
  <2>3. Within(SendConnectAcknowledge(c, FALSE), d, to, from)
    BY <1>1, <1>2, <2>1, SendConnectAcknowledgeWithin
  <2>4. SendConnectAcknowledge(c, FALSE) \in SameState(c)
    BY <1>1, SendConnectAcknowledgeType, EmissionKeepsState
  <2> QED  BY <2>2, <2>3, <2>4, StayingSteps
<1>3. CASE c.state # "Connected"
  <2>1. OnConnectRequest(c) = c  BY <1>3 DEF OnConnectRequest
  <2> QED  BY <2>1, Reflexivity, StayingSteps
<1> QED  BY <1>2, <1>3

\* The answer to a Connect Request: refused, or open with the window agreed.
LEMMA OnConnectAcknowledgeWithin ==
    ASSUME NEW c \in Sound, NEW d \in Circuit,
           NEW to \in Seq(Packet), NEW from \in Seq(Packet), Within(c, d, to, from),
           from # <<>>, from[1].op = "ConnectAcknowledge"
    PROVE  Within(OnConnectAcknowledge(c, from[1]), d, to, from)
<1> DEFINE p == from[1]
<1>1. c \in Circuit /\ p \in Packet /\ p.own \in Key /\ p.choke \in BOOLEAN /\ p.win \in Nat
      /\ 1 \in DOMAIN from
  BY PacketFields DEF Sound
<1>2. CASE c.state # "Connecting"
  BY <1>2 DEF OnConnectAcknowledge
<1>3. CASE c.state = "Connecting" /\ p.choke
  <2> DEFINE e == OnConnectAcknowledge(c, p)
             g == [c EXCEPT !.remoteKey = p.own, !.armed = FALSE]
  <2>1. e = [g EXCEPT !.state = "Disconnected", !.armed = FALSE, !.unacked = <<>>,
                     !.sendQueue = <<>>, !.reassembly = <<>>, !.reason = "Refused"]
    BY <1>1, <1>3 DEF OnConnectAcknowledge, Close, Circuit
  <2>2. e \in Circuit  BY OnConnectAcknowledgeType DEF Evolutions, Sound
  <2> HIDE DEF e
  <2>3. Ended(c, e) /\ SameHand(c, e) /\ e.out = c.out
    BY <1>1, <2>1 DEF Ended, SameHand, Open, Circuit
  <2> QED  BY <1>1, <2>2, <2>3, EndedWithin DEF e
<1>4. CASE c.state = "Connecting" /\ ~p.choke
  <2> DEFINE g == [c EXCEPT !.remoteKey = p.own, !.armed = FALSE]
             w == IF p.win \in 1 .. MaxWindow THEN Lesser(c.window, p.win) ELSE c.window
             e == [g EXCEPT !.window = w, !.state = "Connected"]
             q == to \o c.out
  <2>1. OnConnectAcknowledge(c, p) = Pump(e)  BY <1>4 DEF OnConnectAcknowledge
  <2>2. Pair(c, d, q, from) /\ \A k \in DOMAIN c.out : c.out[k].op # "ConnectRequest"
    BY DEF Within
  <2>3. /\ Numbered(c) /\ Assembled(d, c) /\ Carried(c, d, q) /\ Returned(c, d, from)
        /\ Shaken(c, q)
        /\ Numbered(d) /\ Assembled(c, d) /\ Carried(d, c, from) /\ Returned(d, c, q)
        /\ Shaken(d, from)
    BY <2>2 DEF Pair, Direction
  <2>4. p.win \in 1 .. MaxWindow
    BY <1>1, <1>4, <2>3 DEF Shaken, IsAccept
  <2>5. w \in Nat /\ w <= MaxWindow
    <3>1. c.window \in Nat /\ w = Lesser(c.window, p.win)  BY <1>1, <2>4, Fields
    <3>2. MaxWindow \in Nat  BY HorizonFacts
    <3> QED  BY <2>4, <3>1, <3>2 DEF Lesser
  <2> HIDE DEF w, q
  <2>6. e = [c EXCEPT !.remoteKey = p.own, !.state = "Connected", !.window = w, !.armed = FALSE]
    BY <1>1 DEF Circuit
  <2>7. e \in Sound
    <3>1. c.reason = "None"  BY <1>4 DEF Sound, EndIsSound
    <3>2. c.state \in {"Disconnected", "Connecting"}  BY <1>4
    <3>3. e \in Evolutions(c)
      <4> HIDE DEF e
      <4> QED  BY ONLY <1>1, <2>5, <2>6, <3>1, <3>2, c \in Sound, EstablishType
    <3> QED  BY <3>3, Transitivity
  <2>8. e.out = c.out /\ SameSender(c, e) /\ SameReceiver(c, e) /\ e.window = w
        /\ e.state = "Connected" /\ e.mintedFor = c.mintedFor /\ e.localKey = c.localKey
        /\ e.windowSize = c.windowSize /\ e.inc = c.inc
    BY <1>1 DEF Circuit, SameSender, SameReceiver
  <2> HIDE DEF e
  <2>9. Shaken(e, q)
    <3>1. c.mintedFor = 0 /\ \A k \in DOMAIN q : q[k].op = "ConnectRequest"
      BY <1>4, <2>3 DEF Shaken
    <3> QED  BY <2>3, <2>8, <3>1 DEF Shaken, IsAccept
  <2>10. Numbered(e) /\ Assembled(d, e) /\ Carried(e, d, q) /\ Returned(e, d, from)
    <3>1. e.state = "Connected" => e.window <= MaxWindow  BY <2>5, <2>8
    <3> QED  BY <2>3, <2>8, <3>1, SenderSide
  <2>11. Assembled(e, d) /\ Carried(d, e, from) /\ Returned(d, e, q)
    BY <2>3, <2>8, ReceiverSide
  <2>12. Within(e, d, to, from)
    BY <2>2, <2>3, <2>8, <2>9, <2>10, <2>11 DEF Within, Pair, Direction, q
  <2> QED  BY <2>1, <2>7, <2>12, PumpWithin
<1> QED  BY <1>1, <1>2, <1>3, <1>4

\* An inbound circuit that is accepted before either end has sent data.
LEMMA AcceptInboundWithin ==
    ASSUME NEW c \in Sound, c.state = "Disconnected", c.reason = "None", c.mintedFor # 0,
           NEW peerKey \in Key, peerKey = c.peerKey[2], NEW proposed \in Nat,
           NEW d \in Circuit, NEW to \in Seq(Packet), NEW from \in Seq(Packet),
           Within(c, d, to, from), c.out = <<>>, \A k \in DOMAIN to : ~IsAccept(to[k])
    PROVE  /\ Within(AcceptInbound(c, peerKey, proposed), d, to, from)
           /\ LET asked == IF proposed <= 0 THEN c.windowSize ELSE proposed
                  w == AcceptInbound(c, peerKey, proposed).window
              IN  w = Clamp(Lesser(asked, c.windowSize), 1, MaxWindow) /\ w \in 1 .. MaxWindow
           /\ AcceptInbound(c, peerKey, proposed).state = "Connected"
<1> DEFINE asked == IF proposed <= 0 THEN c.windowSize ELSE proposed
           w == Clamp(Lesser(asked, c.windowSize), 1, MaxWindow)
           g == [c EXCEPT !.remoteKey = peerKey, !.state = "Connected", !.window = w]
           e == SendConnectAcknowledge(g, FALSE)
<1>1. c \in Circuit /\ EndIsSound(c)  BY DEF Sound
<1>2. AcceptInbound(c, peerKey, proposed) = e  BY DEF AcceptInbound
<1>3. w \in 1 .. MaxWindow
  <2>1. c.windowSize \in Nat /\ asked \in Nat  BY <1>1 DEF Circuit
  <2>2. Lesser(asked, c.windowSize) \in Nat  BY <2>1 DEF Lesser
  <2> QED  BY <2>2, HorizonFacts DEF Clamp
<1>4. w \in Nat  BY <1>3, HorizonFacts
<1> HIDE DEF w
<1>5. g \in Circuit  BY <1>1, <1>4, ZenonT(60) DEF Circuit, State
<1>6. g.out = <<>> /\ SameSender(c, g) /\ SameReceiver(c, g) /\ g.window = w
      /\ g.state = "Connected" /\ g.mintedFor = c.mintedFor /\ g.localKey = c.localKey
      /\ g.windowSize = c.windowSize /\ g.inc = c.inc /\ g.peerKey = c.peerKey
      /\ g.remoteKey = peerKey
  BY <1>1 DEF Circuit, SameSender, SameReceiver
<1> HIDE DEF g
<1>7. to \o <<>> = to  OBVIOUS
<1>8. Pair(c, d, to, from)  BY <1>7 DEF Within
<1>9. /\ Numbered(c) /\ Assembled(d, c) /\ Carried(c, d, to) /\ Returned(c, d, from)
      /\ Shaken(c, to)
      /\ Numbered(d) /\ Assembled(c, d) /\ Carried(d, c, from) /\ Returned(d, c, to)
      /\ Shaken(d, from)
  BY <1>8 DEF Pair, Direction
<1>10. Shaken(g, to)  BY <1>3, <1>6, <1>9 DEF Shaken
<1>11. Numbered(g) /\ Assembled(d, g) /\ Carried(g, d, to) /\ Returned(g, d, from)
  <2>1. g.state = "Connected" => g.window <= MaxWindow  BY <1>3, <1>6, HorizonFacts
  <2> QED  BY <1>6, <1>9, <2>1, SenderSide
<1>12. Assembled(g, d) /\ Carried(d, g, from) /\ Returned(d, g, to)
  BY <1>6, <1>9, ReceiverSide
<1>13. Within(g, d, to, from)
  <2>1. Pair(g, d, to, from)  BY <1>9, <1>10, <1>11, <1>12 DEF Pair, Direction
  <2> QED  BY <1>6, <1>7, <2>1 DEF Within
<1>14. Within(e, d, to, from)
  BY <1>3, <1>5, <1>6, <1>13, SendConnectAcknowledgeWithin
<1>15. e.window = w /\ e.state = "Connected"
  <2>1. e \in Emissions(g)  BY <1>5, SendConnectAcknowledgeType
  <2> QED  BY <1>5, <1>6, <2>1 DEF Emissions, Circuit
<1> QED  BY <1>2, <1>3, <1>14, <1>15 DEF w

\* A refusal closes an end that never held anything.
LEMMA RefuseInboundWithin ==
    ASSUME NEW c \in Sound, c.state = "Disconnected", NEW peerKey \in Key,
           NEW d \in Circuit, NEW to \in Seq(Packet), NEW from \in Seq(Packet),
           Within(c, d, to, from)
    PROVE  Within([RefuseInbound(c, peerKey) EXCEPT !.reason = "Refused"], d, to, from)
<1> DEFINE g == [c EXCEPT !.remoteKey = peerKey]
           b == Blank("ConnectAcknowledge", g.remoteKey, g.inc)
           p == [b EXCEPT !.own = g.localKey, !.choke = TRUE, !.win = 0]
           s == Emit(g, <<p>>)
           e == [[s EXCEPT !.state = "Disconnected"] EXCEPT !.reason = "Refused"]
<1>1. c \in Circuit /\ EndIsSound(c)  BY DEF Sound
<1>2. [RefuseInbound(c, peerKey) EXCEPT !.reason = "Refused"] = e
  BY DEF RefuseInbound, SendConnectAcknowledge
<1>3. e \in Circuit
  <2>1. e \in Evolutions(c)  BY <1>2, RefuseInboundType
  <2> QED  BY <2>1 DEF Evolutions, Sound
<1>4. g \in Circuit  BY ZenonT(60), <1>1 DEF Circuit
<1>5. SameStream(c, g) /\ SameHand(c, g) /\ g.out = c.out /\ g.state = "Disconnected"
      /\ g.sendQueue = c.sendQueue /\ g.unacked = c.unacked
  BY <1>1 DEF Circuit, SameStream, SameHand, Open
<1>6. g.remoteKey \in Key /\ g.inc \in Nat /\ g.localKey \in Key  BY <1>4 DEF Circuit
<1> HIDE DEF g
<1>7. p \in Packet /\ p.op = "ConnectAcknowledge" /\ p.choke
  <2>1. b \in Packet  BY <1>6, BlankType DEF Opcode
  <2>2. b.op = "ConnectAcknowledge"  BY DEF Blank
  <2> HIDE DEF b
  <2> QED  BY <1>6, <2>1, <2>2 DEF Packet
<1> HIDE DEF p
<1>8. Within(g, d, to, from)  BY <1>5, SameWithin
<1>9. Timely(g, p)  BY <1>5, <1>7 DEF Timely, IsAck, IsInfo, IsAccept
<1>10. Within(s, d, to, from)  BY <1>4, <1>7, <1>8, <1>9, EmitOneWithin
<1>11. s \in Circuit  BY <1>4, <1>7, EmitOne DEF Emissions
<1>12. s.state = "Disconnected" /\ s.sendQueue = <<>> /\ s.unacked = <<>>
  BY <1>1, <1>4, <1>5 DEF Emit, Circuit, EndIsSound
<1> HIDE DEF s
<1>13. Ended(s, e) /\ SameHand(s, e) /\ e.out = s.out
  BY <1>11, <1>12 DEF Circuit, Ended, SameHand, Open
<1> HIDE DEF e
<1>14. Within(e, d, to, from)  BY <1>3, <1>10, <1>11, <1>13, EndedWithin
<1> QED  BY <1>2, <1>14

\* A Connect Request follows what a connecting end has sent.
LEMMA RequestPair ==
    ASSUME NEW c \in Circuit, c.mintedFor = 0, NEW d \in Circuit,
           NEW to \in Seq(Packet), NEW from, Pair(c, d, to, from), c.state = "Connecting",
           NEW p \in Packet, p.op = "ConnectRequest", p.key = c.localKey, p.inc = c.inc,
           p.win = Clamp(c.windowSize, 1, MaxWindow)
    PROVE  Pair(c, d, to \o <<p>>, from)
<1> DEFINE q == to \o <<p>>
           ps == <<p>>
<1>1. ps \in Seq(Packet) /\ DOMAIN ps = {1} /\ ps[1] = p  OBVIOUS
<1>2. /\ Numbered(c) /\ Assembled(d, c) /\ Carried(c, d, to) /\ Returned(c, d, from)
      /\ Shaken(c, to)
      /\ Numbered(d) /\ Assembled(c, d) /\ Carried(d, c, from) /\ Returned(d, c, to)
      /\ Shaken(d, from)
  BY DEF Pair, Direction
<1>3. ASSUME NEW k \in DOMAIN q
      PROVE  \/ k \in DOMAIN to /\ q[k] = to[k]
             \/ q[k] = p
  <2>1. k \in DOMAIN (to \o ps)  OBVIOUS
  <2> HIDE DEF ps
  <2>2. \/ k \in DOMAIN to /\ (to \o ps)[k] = to[k]
        \/ k - Len(to) \in DOMAIN ps /\ (to \o ps)[k] = ps[k - Len(to)]
    BY <1>1, <2>1, CatAt
  <2> QED  BY <1>1, <2>2 DEF ps
<1> HIDE DEF q
<1>4. ~IsInfo(p) /\ ~IsAck(p) /\ ~IsAccept(p)  BY DEF IsInfo, IsAck, IsAccept
<1>5. Carried(c, d, q)
  <2>1. \A k \in DOMAIN q : IsInfo(q[k]) => k \in DOMAIN to /\ q[k] = to[k]
    BY <1>3, <1>4
  <2> QED  BY <1>2, <2>1, Zenon DEF Carried
<1>6. Returned(d, c, q)
  <2>1. \A k \in DOMAIN q : IsAck(q[k]) => k \in DOMAIN to /\ q[k] = to[k]
    BY <1>3, <1>4
  <2> QED  BY <1>2, <2>1 DEF Returned
<1>7. Shaken(c, q)
  <2>1. \A k \in DOMAIN to : to[k].op = "ConnectRequest"  BY <1>2 DEF Shaken
  <2>2. \A k \in DOMAIN q : q[k].op = "ConnectRequest"  BY <1>3, <2>1
  <2>3. \A k \in DOMAIN q : /\ c.mintedFor = 0 /\ q[k].key = c.localKey /\ q[k].inc = c.inc
                            /\ q[k].win = Clamp(c.windowSize, 1, MaxWindow)
    BY <1>2, <1>3, <2>1 DEF Shaken
  <2> QED  BY <2>2, <2>3 DEF Shaken, IsAccept
<1> QED  BY <1>2, <1>5, <1>6, <1>7 DEF Pair, Direction, q

\* The retransmit timer, on an end that is not connecting any more.
LEMMA TickWithin ==
    ASSUME NEW c \in Sound, TimerRunning(c), c.state # "Connecting" \/ RetriesSpent(c),
           NEW d \in Circuit, NEW to \in Seq(Packet), NEW from \in Seq(Packet),
           Within(c, d, to, from)
    PROVE  Within(Tick(c), d, to, from)
<1>1. c \in Circuit /\ EndIsSound(c)  BY DEF Sound
<1>2. CASE RetriesSpent(c)
  BY <1>1, <1>2, CloseWithin DEF Tick, Reason
<1>3. CASE ~RetriesSpent(c)
  <2>1. c.state \in {"Disconnecting", "Connected"}
    BY <1>1, <1>3 DEF TimerRunning, EndIsSound
  <2>2. c.reason = "None" /\ Open(c)  BY <1>1, <2>1 DEF EndIsSound, Open
  <2>3. CASE c.state = "Disconnecting"
    <3> DEFINE n == c.retries + 1
               again == [c EXCEPT !.retries = n]
    <3>1. Tick(c) = SendDisconnectRequest(again)  BY <1>3, <2>3 DEF Tick
    <3>2. n \in Nat
      <4>1. c.retries \in Nat  BY <1>1 DEF Circuit
      <4> QED  BY <4>1
    <3> HIDE DEF n
    <3>3. again \in Circuit /\ again.state = c.state  BY <1>1, <3>2 DEF Circuit
    <3>4. Within(again, d, to, from)  BY <1>1, <3>2, QuietFieldWithin, TRUE \in BOOLEAN
    <3> HIDE DEF again
    <3>5. Open(again) /\ again.state # "Connecting"  BY <2>3, <3>3 DEF Open
    <3> QED  BY <3>1, <3>3, <3>4, <3>5, SendDisconnectWithin, 0 \in Nat
  <2>4. CASE c.state = "Connected"
    <3>1. Tick(c) = Resend(c, DOMAIN c.unacked)  BY <1>3, <2>4 DEF Tick
    <3> QED  BY <2>2, <3>1, ResendWithin
  <2> QED  BY <2>1, <2>3, <2>4
<1> QED  BY <1>2, <1>3

\* Any packet that reaches the front of its queue, whatever the application does.
LEMMA OnPacketWithin ==
    ASSUME NEW c \in Sound, NEW reaction \in Reaction, NEW d \in Circuit,
           NEW to \in Seq(Packet), NEW from \in Seq(Packet), Within(c, d, to, from),
           from # <<>>, from[1].op = "ConnectRequest" => c.mintedFor # 0
    PROVE  Within(OnPacket(c, from[1], reaction), d, to, from)
<1> DEFINE p == from[1]
<1>1. c \in Circuit /\ p \in Packet /\ p.op \in Opcode  BY PacketFields DEF Sound
<1>2. CASE p.op = "ConnectRequest"
  <2>1. OnPacket(c, p, reaction) = OnConnectRequest(c)  BY <1>2 DEF OnPacket
  <2> QED  BY <1>2, <2>1, OnConnectRequestWithin
<1>3. CASE p.op = "ConnectAcknowledge"
  <2>1. OnPacket(c, p, reaction) = OnConnectAcknowledge(c, p)  BY <1>3 DEF OnPacket
  <2> QED  BY <1>3, <2>1, OnConnectAcknowledgeWithin
<1>4. CASE p.op = "DisconnectRequest"
  <2>1. OnPacket(c, p, reaction) = OnDisconnectRequest(c, p)  BY <1>4 DEF OnPacket
  <2> QED  BY <1>1, <2>1, OnDisconnectRequestWithin
<1>5. CASE p.op = "DisconnectAcknowledge"
  <2>1. OnPacket(c, p, reaction) = OnDisconnectAcknowledge(c)  BY <1>5 DEF OnPacket
  <2> QED  BY <1>1, <2>1, OnDisconnectAcknowledgeWithin
<1>6. CASE p.op = "Information"
  <2>1. OnPacket(c, p, reaction) = OnInformation(c, p, reaction)  BY <1>6 DEF OnPacket
  <2>2. IsInfo(p)  BY <1>6 DEF IsInfo
  <2> QED  BY <2>1, <2>2, OnInformationWithin
<1>7. CASE p.op = "InformationAcknowledge"
  <2>1. OnPacket(c, p, reaction) = OnInformationAcknowledge(c, p)  BY <1>7 DEF OnPacket
  <2>2. IsAck(p)  BY <1>7 DEF IsAck
  <2> QED  BY <2>1, <2>2, OnInformationAcknowledgeWithin
<1> QED  BY <1>1, <1>2, <1>3, <1>4, <1>5, <1>6, <1>7 DEF Opcode

-----------------------------------------------------------------------------
(* Queues *)

\* What is left of a queue from which packets were taken, at the front by the
\* receiver or the network, at the end by the capacity of the link.
LeftOf(p, q) ==
    \E n \in Nat : /\ Len(p) + n <= Len(q)
                   /\ \A k \in 1 .. Len(p) : p[k] = q[k + n]

\* Every packet left was there, and in the same order.
LEMMA LeftOrder ==
    ASSUME NEW q \in Seq(Packet), NEW p \in Seq(Packet), LeftOf(p, q)
    PROVE  \E n \in Nat :
             /\ \A k \in DOMAIN p : k + n \in DOMAIN q /\ p[k] = q[k + n]
             /\ \A k, l \in DOMAIN p : k < l => k + n < l + n
<1>1. PICK n \in Nat : /\ Len(p) + n <= Len(q)
                       /\ \A k \in 1 .. Len(p) : p[k] = q[k + n]
  BY DEF LeftOf
<1> DEFINE a == Len(p)
           b == Len(q)
<1>2. a \in Nat /\ b \in Nat /\ DOMAIN p = 1 .. a /\ DOMAIN q = 1 .. b /\ a + n <= b  BY <1>1
<1> HIDE DEF a, b
<1>3. \A k \in 1 .. a : k + n \in 1 .. b  BY <1>2
<1>4. \A k, l \in 1 .. a : k < l => k + n < l + n  BY <1>2
<1>5. \A k \in 1 .. a : p[k] = q[k + n]  BY <1>1 DEF a
<1> QED  BY <1>2, <1>3, <1>4, <1>5

\* A direction stays sound when packets are gone.
LEMMA LeftDirection ==
    ASSUME NEW s, NEW r, NEW fwd \in Seq(Packet), NEW back \in Seq(Packet),
           Direction(s, r, fwd, back),
           NEW f \in Seq(Packet), LeftOf(f, fwd), NEW b \in Seq(Packet), LeftOf(b, back)
    PROVE  Direction(s, r, f, b)
<1>1. /\ Numbered(s) /\ Assembled(r, s) /\ Carried(s, r, fwd)
      /\ Returned(s, r, back) /\ Shaken(s, fwd)
  BY DEF Direction
<1>2. PICK n \in Nat : /\ \A k \in DOMAIN f : k + n \in DOMAIN fwd /\ f[k] = fwd[k + n]
                       /\ \A k, l \in DOMAIN f : k < l => k + n < l + n
  BY LeftOrder
<1>3. PICK m \in Nat : /\ \A k \in DOMAIN b : k + m \in DOMAIN back /\ b[k] = back[k + m]
                       /\ \A k, l \in DOMAIN b : k < l => k + m < l + m
  BY LeftOrder
<1>4. Carried(s, r, f)
  <2>1. ASSUME NEW k \in DOMAIN f, IsInfo(f[k])
        PROVE  /\ f[k].body = <<s.inc, Position(f[k])>>
               /\ Position(f[k]) \in 1 .. Transmitted(s)
               /\ f[k].tx = (Position(f[k]) - 1) % Modulus
               /\ f[k].more = s.sent[Position(f[k])]
               /\ r.reason = "None" => /\ Position(f[k]) <= Accepted(r) + MaxWindow
                                       /\ Accepted(r) < Position(f[k]) + MaxWindow
    <3>1. PICK j \in DOMAIN fwd : f[k] = fwd[j]  BY <1>2
    <3>2. IsInfo(fwd[j])  BY <2>1, <3>1
    <3> QED  BY Zenon, <1>1, <3>1, <3>2 DEF Carried
  <2>2. ASSUME NEW k \in DOMAIN f, NEW l \in DOMAIN f, k < l, IsInfo(f[k]), IsInfo(f[l])
        PROVE  Position(f[k]) < Position(f[l]) + MaxWindow
    <3>1. k + n \in DOMAIN fwd /\ l + n \in DOMAIN fwd /\ k + n < l + n
          /\ f[k] = fwd[k + n] /\ f[l] = fwd[l + n]
      BY <1>2, <2>2
    <3> QED  BY <1>1, <2>2, <3>1 DEF Carried
  <2> QED  BY ONLY Zenon, <2>1, <2>2 DEF Carried
<1>5. Returned(s, r, b)
  <2> SUFFICES ASSUME s.reason = "None" PROVE Returned(s, r, b)  BY DEF Returned
  <2>1. ASSUME NEW k \in DOMAIN b, IsAck(b[k])
        PROVE  /\ Covers(s, b[k]) <= Len(s.unacked)
               /\ r.reason = "None" => Acknowledged(s) + Covers(s, b[k]) <= Accepted(r)
    <3>1. PICK j \in DOMAIN back : b[k] = back[j]  BY <1>3
    <3> QED  BY <1>1, <2>1, <3>1 DEF Returned
  <2>2. ASSUME NEW k \in DOMAIN b, NEW l \in DOMAIN b, k < l, IsAck(b[k]), IsAck(b[l])
        PROVE  Covers(s, b[k]) <= Covers(s, b[l])
    <3>1. k + m \in DOMAIN back /\ l + m \in DOMAIN back /\ k + m < l + m
          /\ b[k] = back[k + m] /\ b[l] = back[l + m]
      BY <1>3, <2>2
    <3> QED  BY <1>1, <2>2, <3>1 DEF Returned
  <2> QED  BY <1>1, <2>1, <2>2 DEF Returned
<1>6. Shaken(s, f)
  <2>1. ASSUME NEW k \in DOMAIN f
        PROVE  \E j \in DOMAIN fwd : f[k] = fwd[j]
    BY <1>2
  <2>2. ASSUME NEW k \in DOMAIN f, NEW l \in DOMAIN f, k < l, f[l].op = "ConnectRequest"
        PROVE  f[k].op = "ConnectRequest"
    <3>1. k + n \in DOMAIN fwd /\ l + n \in DOMAIN fwd /\ k + n < l + n
          /\ f[k] = fwd[k + n] /\ f[l] = fwd[l + n]
      BY <1>2, <2>2
    <3> QED  BY <1>1, <2>2, <3>1 DEF Shaken
  <2>3. \A k \in DOMAIN f : f[k].op = "ConnectRequest" =>
          /\ s.mintedFor = 0 /\ f[k].key = s.localKey /\ f[k].inc = s.inc
          /\ f[k].win = Clamp(s.windowSize, 1, MaxWindow)
    BY <1>1, <2>1 DEF Shaken
  <2>4. s.state = "Connecting" =>
          /\ s.mintedFor = 0
          /\ \A k \in DOMAIN f : f[k].op = "ConnectRequest"
    BY <1>1, <2>1 DEF Shaken
  <2>5. \A k \in DOMAIN f : IsAccept(f[k]) =>
          s.mintedFor # 0 /\ f[k].win = s.window /\ s.window \in 1 .. MaxWindow
    BY <1>1, <2>1 DEF Shaken
  <2>6. s.mintedFor # 0 =>
          /\ Open(s) => s.remoteKey = s.peerKey[2] /\ s.window \in 1 .. MaxWindow
          /\ \A k \in DOMAIN f : f[k].op = "DisconnectRequest" => f[k].key = s.peerKey[2]
    BY <1>1, <2>1 DEF Shaken
  <2> QED  BY <2>2, <2>3, <2>4, <2>5, <2>6 DEF Shaken
<1> QED  BY <1>1, <1>4, <1>5, <1>6 DEF Direction

\* When a handler is done its end is at rest, and what it emitted is under way
\* as far as the link has room for it.
LEMMA RestPair ==
    ASSUME NEW c \in Circuit, NEW d \in Circuit,
           NEW to \in Seq(Packet), NEW from \in Seq(Packet), Pair(c, d, to \o c.out, from),
           NEW t \in Seq(Packet), LeftOf(t, to \o c.out), NEW f \in Seq(Packet), LeftOf(f, from)
    PROVE  Pair(AtRest(c), d, t, f)
<1> DEFINE e == AtRest(c)
<1>1. SameStream(c, e) /\ SameHand(c, e)
  BY DEF AtRest, SameStream, SameHand, Circuit, Open
<1>2. to \o c.out \in Seq(Packet)  BY Fields, CatType
<1>3. Pair(c, d, t, f)  BY <1>2, LeftDirection DEF Pair
<1> QED  BY <1>1, <1>3, SamePair

=============================================================================
