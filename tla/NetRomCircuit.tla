--------------------------- MODULE NetRomCircuit ---------------------------
(***************************************************************************)
(* One end of a NET/ROM L4 circuit (src/src/netrom/circuit.ts), as pure    *)
(* operators over a circuit record.  An operator is one method of the      *)
(* class: it takes the circuit the method runs on and returns the circuit  *)
(* it leaves behind, with the packets it hands to the sendPacket sink      *)
(* appended to the field "out".  CircuitManager keeps the circuits in its  *)
(* tables, feeds the operators and ships "out".                            *)
(*                                                                         *)
(* Abstractions.  A payload is the pair <<circuit, position>>: the circuit *)
(* object that queued it and its position in that circuit's stream.  The   *)
(* 8-bit circuit index and id are one key, 0..NumKeys-1, in the order      *)
(* allocateKey hands them out.  The sequence space is Modulus (256 in the   *)
(* code), with the same half-space horizon.  Time is absent: a deadline    *)
(* may have passed whenever the timer that owns it is running.             *)
(***************************************************************************)
EXTENDS Integers, Sequences, FiniteSets

CONSTANTS
    Node,            \* callsigns of the NET/ROM nodes
    NumKeys,         \* size of a node's (index, id) space: 65536 in the code
    Modulus,          \* size of the sequence space: 256 in the code
    MaxRetries,      \* NetRomCircuitOptions.maxRetries
    ChokeThreshold   \* NetRomCircuitOptions.chokeThreshold, 0 = never choke

ASSUME NumKeysAssumption   == NumKeys \in Nat \ {0}
ASSUME ModulusAssumption    == Modulus \in Nat /\ Modulus > 3 /\ Modulus % 2 = 0
ASSUME OptionsAssumption   == MaxRetries \in Nat /\ ChokeThreshold \in Nat

Key       == 0 .. NumKeys - 1
Seqno     == 0 .. Modulus - 1
Horizon   == Modulus \div 2      \* 128
MaxWindow == Horizon - 1        \* 127, the clamp of a negotiated window
NoPeerKey == <<>>               \* a circuit this node originated
NoBody    == <<0, 0>>

State  == {"Disconnected", "Connecting", "Connected", "Disconnecting"}
Reason == {"None", "Normal", "Refused", "Timeout"}
Opcode == {"ConnectRequest", "ConnectAcknowledge", "DisconnectRequest",
           "DisconnectAcknowledge", "Information", "InformationAcknowledge"}

Body     == Nat \X Nat
Fragment == [body : Body, more : BOOLEAN]
Unacked  == [seq : Seqno, body : Body, more : BOOLEAN, retries : Nat]

\* The fields a handler reads.  "own" is the circuit key a Connect Acknowledge
\* carries in its TX/RX slots, "win" the window octet of a connect's info field
\* (0 when there is none).  "inc" is history: the circuit object that sent the
\* packet, or on a Disconnect Acknowledge the one that asked for it.
Packet == [op : Opcode, key : Key, own : Key, tx : Seqno, rx : Seqno,
           choke : BOOLEAN, nak : BOOLEAN, more : BOOLEAN,
           win : Nat, body : Body, inc : Nat]

\* "inc", "mintedFor", "sent", "got" and "reason" are history; the rest are the
\* private fields of the class.  "sent" has one entry per fragment the
\* application queued (its more-follows flag), "got" one entry per frame
\* delivered to the application.
Circuit == [node : Node, remoteNode : Node, localKey : Key, remoteKey : Key,
            peerKey : (Node \X Key) \cup {NoPeerKey}, windowSize : Nat,
            state : State, window : Nat,
            vs : Seqno, va : Seqno, vr : Seqno,
            sendQueue : Seq(Fragment), unacked : Seq(Unacked),
            reassembly : Seq(Body),
            peerChoked : BOOLEAN, localChoked : BOOLEAN, pending : Nat,
            armed : BOOLEAN, retries : Nat, out : Seq(Packet),
            inc : Nat, mintedFor : Nat, sent : Seq(BOOLEAN),
            got : Seq(Seq(Body)), reason : Reason]

\* The constructor: index and id allocated by the owner, nothing learned yet.
NewCircuit(node, remoteNode, localKey, peerKey, windowSize, inc, mintedFor) ==
    [node |-> node, remoteNode |-> remoteNode, localKey |-> localKey,
     remoteKey |-> 0, peerKey |-> peerKey, windowSize |-> windowSize,
     state |-> "Disconnected", window |-> windowSize,
     vs |-> 0, va |-> 0, vr |-> 0,
     sendQueue |-> <<>>, unacked |-> <<>>, reassembly |-> <<>>,
     peerChoked |-> FALSE, localChoked |-> FALSE, pending |-> 0,
     armed |-> FALSE, retries |-> 0, out |-> <<>>,
     inc |-> inc, mintedFor |-> mintedFor, sent |-> <<>>, got |-> <<>>,
     reason |-> "None"]

-----------------------------------------------------------------------------
(* Sequence arithmetic *)

Lesser(a, b)     == IF a <= b THEN a ELSE b
Clamp(v, lo, hi) == IF v < lo THEN lo ELSE IF v > hi THEN hi ELSE v

\* Walking forward from b, a is reached within half the sequence space.
Mod256After(a, b) == (a - b) % Modulus \in 1 .. Horizon

\* Mutants of SeqAcked: the expected number itself counts as acknowledged; only
\* the newest acknowledged number does.
SeqAckedInclusive(seq, expected) == (expected - seq) % Modulus \in 0 .. Horizon
SeqAckedNewest(seq, expected)    == (expected - seq) % Modulus = 1

SeqAcked(seq, expected) == (expected - seq) % Modulus \in 1 .. Horizon

\* Mutant of NextSeq: the 8-bit mask forgotten.
NextSeqUnmasked(seq, n) == seq + n

NextSeq(seq, n) == (seq + n) % Modulus

\* The entries of q at the positions in I, in order (an in-place filter).
Pick(q, I) ==
    LET at == CHOOSE f \in [1 .. Cardinality(I) -> I] :
                  \A i, j \in 1 .. Cardinality(I) : i < j => f[i] < f[j]
    IN  [i \in 1 .. Cardinality(I) |-> q[at[i]]]

-----------------------------------------------------------------------------
(* Emission *)

Blank(op, key, inc) ==
    [op |-> op, key |-> key, own |-> 0, tx |-> 0, rx |-> 0, choke |-> FALSE,
     nak |-> FALSE, more |-> FALSE, win |-> 0, body |-> NoBody, inc |-> inc]

Emit(c, packets) == [c EXCEPT !.out = @ \o packets]

SendConnectRequest(c) ==
    Emit(c, <<[Blank("ConnectRequest", c.localKey, c.inc) EXCEPT
                  !.win = Clamp(c.windowSize, 1, MaxWindow)]>>)

SendConnectAcknowledge(c, refused) ==
    Emit(c, <<[Blank("ConnectAcknowledge", c.remoteKey, c.inc) EXCEPT
                  !.own = c.localKey, !.choke = refused,
                  !.win = IF refused THEN 0 ELSE c.window]>>)

SendDisconnectRequest(c) ==
    Emit(c, <<Blank("DisconnectRequest", c.remoteKey, c.inc)>>)

SendDisconnectAcknowledge(c, asker) ==
    Emit(c, <<Blank("DisconnectAcknowledge", c.remoteKey, asker)>>)

\* One Information message, stamped with what this end knows as it leaves.
InformationOf(c, u) ==
    [Blank("Information", c.remoteKey, c.inc) EXCEPT
        !.tx = u.seq, !.rx = c.vr, !.more = u.more, !.body = u.body,
        !.choke = c.localChoked]

SendInformation(c, us) ==
    Emit(c, [i \in DOMAIN us |-> InformationOf(c, us[i])])

SendInformationAcknowledge(c, nak) ==
    Emit(c, <<[Blank("InformationAcknowledge", c.remoteKey, c.inc) EXCEPT
                  !.rx = c.vr, !.nak = nak, !.choke = c.localChoked]>>)

-----------------------------------------------------------------------------
(* Window and acknowledgement mechanics *)

\* Number the first n queued fragments, put them in flight and send them.
Fill(c, n) ==
    LET fresh == [i \in 1 .. n |->
                     [seq |-> NextSeq(c.vs, i - 1), retries |-> 0,
                      body |-> c.sendQueue[i].body, more |-> c.sendQueue[i].more]]
    IN  SendInformation(
            [c EXCEPT !.vs = NextSeq(@, n), !.unacked = @ \o fresh,
                      !.sendQueue = SubSeq(@, n + 1, Len(@))], fresh)

\* Mutants of Pump: one message beyond the window; the choke ignored.
PumpOneTooMany(c) ==
    IF c.state # "Connected" \/ c.peerChoked \/ Len(c.unacked) > c.window THEN c
    ELSE Fill(c, Lesser(Len(c.sendQueue), c.window + 1 - Len(c.unacked)))

PumpWhileChoked(c) ==
    IF c.state # "Connected" \/ Len(c.unacked) >= c.window THEN c
    ELSE Fill(c, Lesser(Len(c.sendQueue), c.window - Len(c.unacked)))

\* pumpSendQueue: fill the window from the queue, unless the peer choked us.
Pump(c) ==
    IF c.state # "Connected" \/ c.peerChoked \/ Len(c.unacked) >= c.window THEN c
    ELSE Fill(c, Lesser(Len(c.sendQueue), c.window - Len(c.unacked)))

\* Still in flight once the peer expects "expected".
StillHeld(c, expected) ==
    {i \in DOMAIN c.unacked : ~SeqAcked(c.unacked[i].seq, expected)}

\* Mutant of AbsorbAck: V(a) left behind while messages are in flight.
AbsorbAckLazily(c, expected) ==
    IF c.unacked = <<>> THEN [c EXCEPT !.va = expected]
    ELSE Pump([c EXCEPT !.unacked = Pick(@, StillHeld(c, expected))])

\* Drop what the peer's expectation acknowledges, then send more.
AbsorbAck(c, expected) ==
    IF c.unacked = <<>> THEN [c EXCEPT !.va = expected]
    ELSE Pump([c EXCEPT !.va = expected, !.unacked = Pick(@, StillHeld(c, expected))])

\* One more retry of a message.  A count beyond MaxRetries is kept at
\* MaxRetries + 1: nothing reads more of it.
Again(u) == [u EXCEPT !.retries = Lesser(u.retries + 1, MaxRetries + 1)]

\* Send the in-flight messages at the positions in I again.
Resend(c, I) ==
    SendInformation(
        [c EXCEPT !.unacked = [i \in DOMAIN c.unacked |->
            IF i \in I THEN Again(c.unacked[i]) ELSE c.unacked[i]]],
        Pick(c.unacked, I))

\* A NAK: the named message and every in-flight one after it.
RetransmitFrom(c, seq) ==
    Resend(c, {i \in DOMAIN c.unacked : \/ c.unacked[i].seq = seq
                                        \/ Mod256After(c.unacked[i].seq, seq)})

-----------------------------------------------------------------------------
(* Choke *)

ApplyPeerChoke(c, choke) ==
    IF choke THEN [c EXCEPT !.peerChoked = TRUE]
    ELSE IF c.peerChoked THEN Pump([c EXCEPT !.peerChoked = FALSE])
    ELSE c

\* Mutant of MaybeAssertChoke: the threshold is not looked at.
MaybeAssertChokeNever(c) == c

MaybeAssertChoke(c) ==
    IF ChokeThreshold > 0 /\ c.pending >= ChokeThreshold
    THEN [c EXCEPT !.localChoked = TRUE]
    ELSE c

\* onDeliveryDrained, with the choke release it may lead to.
OnDeliveryDrained(c) ==
    LET d == [c EXCEPT !.pending = IF @ > 0 THEN @ - 1 ELSE 0]
        r == [d EXCEPT !.localChoked = FALSE]
    IN  IF ~(d.localChoked /\ d.pending < ChokeThreshold) THEN d
        ELSE IF d.state = "Connected" THEN SendInformationAcknowledge(r, FALSE)
        ELSE r

-----------------------------------------------------------------------------
(* Lifecycle and the application's calls *)

\* Mutant of Close: the control deadline stays.
CloseLeavingTimer(c, reason) ==
    IF c.state = "Disconnected" THEN c
    ELSE [c EXCEPT !.state = "Disconnected", !.unacked = <<>>,
                   !.sendQueue = <<>>, !.reassembly = <<>>, !.reason = reason]

Close(c, reason) ==
    IF c.state = "Disconnected" THEN c
    ELSE [c EXCEPT !.state = "Disconnected", !.armed = FALSE, !.unacked = <<>>,
                   !.sendQueue = <<>>, !.reassembly = <<>>, !.reason = reason]

\* Mutant of Connect: the timer is not armed.
ConnectUnarmed(c) ==
    IF c.state # "Disconnected" THEN c
    ELSE [SendConnectRequest(c) EXCEPT !.state = "Connecting", !.retries = 0]

Connect(c) ==
    IF c.state # "Disconnected" THEN c
    ELSE [SendConnectRequest(c) EXCEPT
             !.state = "Connecting", !.retries = 0, !.armed = TRUE]

\* Queue a frame of "size" fragments; more-follows on all but the last.
Send(c, size) ==
    IF c.state # "Connected" THEN c
    ELSE LET more  == [i \in 1 .. size |-> i < size]
             frame == [i \in 1 .. size |->
                         [body |-> <<c.inc, Len(c.sent) + i>>, more |-> more[i]]]
         IN  Pump([c EXCEPT !.sendQueue = @ \o frame, !.sent = @ \o more])

\* Mutant of Disconnect: the timer is not armed.
DisconnectUnarmed(c) ==
    IF c.state = "Connecting" THEN Close(c, "Normal")
    ELSE IF c.state = "Connected"
    THEN [SendDisconnectRequest(c) EXCEPT !.state = "Disconnecting", !.retries = 0]
    ELSE c

Disconnect(c) ==
    IF c.state = "Connecting" THEN Close(c, "Normal")
    ELSE IF c.state = "Connected"
    THEN [SendDisconnectRequest(c) EXCEPT
             !.state = "Disconnecting", !.retries = 0, !.armed = TRUE]
    ELSE c

\* An inbound circuit the host accepts, with the window clamped.
AcceptInbound(c, peerKey, proposed) ==
    LET asked == IF proposed <= 0 THEN c.windowSize ELSE proposed
    IN  SendConnectAcknowledge(
            [c EXCEPT !.remoteKey = peerKey, !.state = "Connected",
                      !.window = Clamp(Lesser(asked, c.windowSize), 1, MaxWindow)],
            FALSE)

RefuseInbound(c, peerKey) ==
    [SendConnectAcknowledge([c EXCEPT !.remoteKey = peerKey], TRUE) EXCEPT
        !.state = "Disconnected"]

-----------------------------------------------------------------------------
(* Packet handlers *)

OnConnectRequest(c) ==
    IF c.state = "Connected" THEN SendConnectAcknowledge(c, FALSE) ELSE c

\* Mutant of OnConnectAcknowledge: the accepted window is not read.
OnConnectAcknowledgeOwnWindow(c, p) ==
    LET d == [c EXCEPT !.remoteKey = p.own, !.armed = FALSE]
    IN  IF c.state # "Connecting" THEN c
        ELSE IF p.choke THEN Close(d, "Refused")
        ELSE Pump([d EXCEPT !.state = "Connected"])

OnConnectAcknowledge(c, p) ==
    LET d == [c EXCEPT !.remoteKey = p.own, !.armed = FALSE]
        w == IF p.win \in 1 .. MaxWindow THEN Lesser(c.window, p.win) ELSE c.window
    IN  IF c.state # "Connecting" THEN c
        ELSE IF p.choke THEN Close(d, "Refused")
        ELSE Pump([d EXCEPT !.window = w, !.state = "Connected"])

\* Mutant of OnDisconnectRequest: acknowledged, but the circuit stays.
OnDisconnectRequestStaying(c, p) == SendDisconnectAcknowledge(c, p.inc)

OnDisconnectRequest(c, p) == Close(SendDisconnectAcknowledge(c, p.inc), "Normal")

OnDisconnectAcknowledge(c) ==
    IF c.state = "Disconnecting" THEN Close(c, "Normal") ELSE c

\* What the application does inside the data callback.  "hold" is a host that
\* stalls its reader; the others are NetRomConnection.fireData, whose listener
\* may write or dispose before the connection reports the frame consumed.
React(c, reaction) ==
    CASE reaction = "hold"    -> c
      [] reaction = "drain"   -> OnDeliveryDrained(c)
      [] reaction = "reply"   -> OnDeliveryDrained(Send(c, 1))
      [] reaction = "dispose" -> OnDeliveryDrained(Disconnect(c))

\* Mutant of Deliver: the reassembly buffer is not cleared.
DeliverKeepingBuffer(c, reaction) ==
    MaybeAssertChoke(React(
        [c EXCEPT !.got = Append(@, c.reassembly),
                  !.pending = IF ChokeThreshold > 0 THEN @ + 1 ELSE @],
        reaction))

\* A complete logical frame: hand it up, then see whether to choke.
Deliver(c, reaction) ==
    MaybeAssertChoke(React(
        [c EXCEPT !.got = Append(@, c.reassembly), !.reassembly = <<>>,
                  !.pending = IF ChokeThreshold > 0 THEN @ + 1 ELSE @],
        reaction))

OnInformation(c, p, reaction) ==
    LET a == ApplyPeerChoke(AbsorbAck(c, p.rx), p.choke)
        d == [a EXCEPT !.vr = NextSeq(@, 1),
                       !.reassembly = Append(@, p.body)]
    IN  IF c.state # "Connected" THEN c
        ELSE IF p.tx # a.vr
        THEN SendInformationAcknowledge(a, Mod256After(p.tx, a.vr))
        ELSE SendInformationAcknowledge(
                 IF p.more THEN d ELSE Deliver(d, reaction), FALSE)

OnInformationAcknowledge(c, p) ==
    LET a == AbsorbAck(ApplyPeerChoke(c, p.choke), p.rx)
    IN  IF c.state # "Connected" THEN c
        ELSE Pump(IF p.nak THEN RetransmitFrom(a, p.rx) ELSE a)

OnPacket(c, p, reaction) ==
    CASE p.op = "ConnectRequest"         -> OnConnectRequest(c)
      [] p.op = "ConnectAcknowledge"     -> OnConnectAcknowledge(c, p)
      [] p.op = "DisconnectRequest"      -> OnDisconnectRequest(c, p)
      [] p.op = "DisconnectAcknowledge"  -> OnDisconnectAcknowledge(c)
      [] p.op = "Information"            -> OnInformation(c, p, reaction)
      [] p.op = "InformationAcknowledge" -> OnInformationAcknowledge(c, p)

-----------------------------------------------------------------------------
(* The retransmit timer *)

TimerRunning(c) == \/ c.armed
                   \/ c.state = "Connected" /\ c.unacked # <<>>

\* Mutant of RetriesSpent: only the control exchanges give up.
RetriesSpentOnControl(c) == c.armed /\ c.retries >= MaxRetries

RetriesSpent(c) == IF c.armed THEN c.retries >= MaxRetries
                   ELSE c.unacked[1].retries >= MaxRetries

\* tick, on a circuit whose running timer has expired.
Tick(c) ==
    LET again == [c EXCEPT !.retries = @ + 1]
    IN  IF RetriesSpent(c) THEN Close(c, "Timeout")
        ELSE IF c.state = "Connecting" THEN SendConnectRequest(again)
        ELSE IF c.state = "Disconnecting" THEN SendDisconnectRequest(again)
        ELSE Resend(c, DOMAIN c.unacked)

-----------------------------------------------------------------------------
(* One end in every state *)

\* A control deadline is armed exactly while a Connect or Disconnect waits for
\* its answer, an end that is not connected yet or any more holds no data, what
\* is in flight stays within the window, and an end that reported a reason is
\* closed.
EndIsSound(c) ==
    /\ c.armed <=> c.state \in {"Connecting", "Disconnecting"}
    /\ c.state \in {"Disconnected", "Connecting"} => c.unacked = <<>> /\ c.sendQueue = <<>>
    /\ c.unacked = <<>> \/ Len(c.unacked) <= c.window
    /\ c.reason # "None" => c.state = "Disconnected"

=============================================================================
