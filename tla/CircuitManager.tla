--------------------------- MODULE CircuitManager ---------------------------
(***************************************************************************)
(* The NET/ROM L4 circuit tables of a set of nodes                         *)
(* (src/src/netrom/circuit-manager.ts) joined by an unreliable datagram    *)
(* network.  Every circuit is an end of the state machine of               *)
(* NetRomCircuit; a manager allocates keys, demultiplexes inbound packets, *)
(* mints inbound circuits for the host to accept or refuse, and            *)
(* deregisters a circuit that closes.                                      *)
(*                                                                         *)
(* The network stands for interlinks, forwarding and the radio: a packet   *)
(* may be lost, and the next to arrive is one of the ReorderDepth oldest.  *)
(* One action is one callback run to completion by the event loop.         *)
(***************************************************************************)
EXTENDS NetRomCircuit

CONSTANTS
    WindowSize,       \* [Node -> Nat], each node's NetRomCircuitOptions.windowSize
    Openers,          \* the nodes whose hosts open circuits
    Writers,          \* the nodes whose applications write
    Listeners,        \* the nodes with an onIncomingCircuit listener
    Dispositions,     \* what a listener may do: subset of accept, refuse, defer
    Reactions,        \* what the data callback may do: see NetRomCircuit!React
    FrameSizes,       \* fragments per frame the applications write
    DisconnectFrom,   \* the states in which the applications disconnect
    MaxLosses,        \* packets the network loses: a number, or Unlimited
    ReorderDepth,     \* one of the oldest ReorderDepth packets arrives next
    OutlivesRetries,  \* may a packet outlive the whole retry schedule?
    FirstKeys,        \* the allocation counters the nodes may start from
    MaxOpens,         \* bound: circuits the hosts open
    MaxSent,          \* bound: fragments written per circuit
    NetCap            \* bound: packets in flight per direction

ASSUME NetworkAssumption ==
    /\ ReorderDepth \in Nat \ {0} /\ NetCap \in Nat \ {0}
    /\ MaxLosses \in Nat \cup {-1}
    /\ WindowSize \in [Node -> Nat] /\ FirstKeys \subseteq Key
    /\ FrameSizes \subseteq Nat \ {0} /\ DisconnectFrom \subseteq {"Connecting", "Connected"}
    /\ Dispositions \subseteq {"accept", "refuse", "defer"}
    /\ Reactions \subseteq {"hold", "drain", "reply", "dispose"}

VARIABLES
    circuit,     \* every circuit object created, in order; its index is its identity
    byLocalKey,  \* [node][key]: the registered circuit with that key, 0 if none
    byPeerKey,   \* [node][<<origin, key>>]: the inbound circuit minted for it, 0 if none
    nextKey,     \* [node]: (nextIndex, nextId) as one counter
    net,         \* [<<from, to>>]: packets in flight, oldest first
    lossesLeft   \* what is left of MaxLosses

tables == <<circuit, byLocalKey, byPeerKey, nextKey>>
vars   == <<circuit, byLocalKey, byPeerKey, nextKey, net, lossesLeft>>

Unlimited == -1

-----------------------------------------------------------------------------
(* The network *)

Link == {l \in Node \X Node : l[1] # l[2]}

\* Hand packets to the sink; beyond NetCap they are lost.
Ship(from, to, packets) ==
    /\ UNCHANGED lossesLeft
    /\ net' = [net EXCEPT ![<<from, to>>] = SubSeq(@ \o packets, 1,
                                        Lesser(NetCap, Len(@) + Len(packets)))]

\* The network after packet i of the link is taken and the answers are shipped.
Exchange(from, to, i, back, packets) ==
    LET rest == [net EXCEPT ![<<from, to>>] = SubSeq(@, 1, i - 1)
                                          \o SubSeq(@, i + 1, Len(@))]
    IN  /\ UNCHANGED lossesLeft
        /\ net' = [rest EXCEPT ![<<to, back>>] = SubSeq(@ \o packets, 1,
                                        Lesser(NetCap, Len(@) + Len(packets)))]

Quiet(n, m) == net[<<n, m>>] = <<>> /\ net[<<m, n>>] = <<>>

-----------------------------------------------------------------------------
(* The tables *)

\* Mutant of FreeKeys: keys in use are not skipped.
FreeKeysAll(n) == Key

FreeKeys(n) == {k \in Key : byLocalKey[n][k] = 0}

\* allocateKey: the first free key at or after the counter.
AllocateKey(n) ==
    CHOOSE k \in FreeKeys(n) : \A j \in FreeKeys(n) :
        (k - nextKey[n]) % NumKeys <= (j - nextKey[n]) % NumKeys

\* The packets a handler emitted leave with it.
AtRest(c) == [c EXCEPT !.out = <<>>]

\* Circuit i closes when a handler leaves c of it (the closed callback fires).
Closes(i, c) == circuit[i].reason = "None" /\ c.reason # "None"

\* Mutant of Update: the peer key of a closed circuit is kept.
UpdateKeepingPeerKey(i, c) ==
    /\ circuit' = [circuit EXCEPT ![i] = AtRest(c)]
    /\ byLocalKey' = IF ~Closes(i, c) THEN byLocalKey
                     ELSE [byLocalKey EXCEPT ![c.node][c.localKey] = 0]
    /\ UNCHANGED byPeerKey

\* A handler ran on circuit i: keep its object, deregister it if it closed.
Update(i, c) ==
    LET n == c.node
    IN  /\ circuit' = [circuit EXCEPT ![i] = AtRest(c)]
        /\ IF ~Closes(i, c) THEN UNCHANGED <<byLocalKey, byPeerKey>>
           ELSE /\ byLocalKey' = [byLocalKey EXCEPT ![n][c.localKey] = 0]
                /\ byPeerKey' = IF c.peerKey = NoPeerKey THEN byPeerKey
                                ELSE [byPeerKey EXCEPT ![n][c.peerKey] = 0]

\* A local call or timer on circuit i.
LocalStep(i, after) ==
    \E c \in {after} :
        /\ Update(i, c)
        /\ Ship(c.node, c.remoteNode, c.out)
        /\ UNCHANGED nextKey

Registered(i) == byLocalKey[circuit[i].node][circuit[i].localKey] = i

-----------------------------------------------------------------------------
(* The host's and the applications' calls *)

OpenedSoFar == Cardinality({i \in DOMAIN circuit : circuit[i].mintedFor = 0})

\* openCircuit followed by connect, which the host calls on the result.
OpenCircuit(n, m) ==
    LET k == AllocateKey(n)
        i == Len(circuit) + 1
        c == Connect(NewCircuit(n, m, k, NoPeerKey, WindowSize[n], i, 0))
    IN  /\ n \in Openers /\ n # m
        /\ OpenedSoFar < MaxOpens
        /\ FreeKeys(n) # {}
        /\ circuit' = Append(circuit, AtRest(c))
        /\ byLocalKey' = [byLocalKey EXCEPT ![n][k] = i]
        /\ nextKey' = [nextKey EXCEPT ![n] = (k + 1) % NumKeys]
        /\ Ship(n, m, c.out)
        /\ UNCHANGED byPeerKey

AppSend(i, size) ==
    /\ circuit[i].node \in Writers
    /\ circuit[i].state = "Connected"
    /\ Len(circuit[i].sent) + size <= MaxSent
    /\ LocalStep(i, Send(circuit[i], size))

AppDisconnect(i) ==
    /\ circuit[i].state \in DisconnectFrom
    /\ LocalStep(i, Disconnect(circuit[i]))

\* A host that stalled its reader consumes one frame.
AppDrain(i) ==
    /\ circuit[i].pending > 0
    /\ LocalStep(i, OnDeliveryDrained(circuit[i]))

\* An inbound circuit the listener has not answered yet.
Deferred(i) == /\ circuit[i].mintedFor # 0
               /\ circuit[i].state = "Disconnected"
               /\ Registered(i)

AcceptIncoming(i) ==
    /\ Deferred(i)
    /\ LocalStep(i, AcceptInbound(circuit[i], circuit[i].peerKey[2],
                      Clamp(WindowSize[circuit[i].remoteNode], 1, MaxWindow)))

\* refuseIncoming: answer with a refusal, then deregister.
RefuseIncoming(i) ==
    /\ Deferred(i)
    /\ LocalStep(i, [RefuseInbound(circuit[i], circuit[i].peerKey[2]) EXCEPT
                        !.reason = "Refused"])

-----------------------------------------------------------------------------
(* Inbound packets *)

\* mintInbound: a fresh circuit for a Connect Request, which the listener
\* accepts, refuses or leaves for later; without a listener it is refused.
Answered(c, p, disposition) ==
    CASE disposition = "accept" -> AcceptInbound(c, p.key, p.win)
      [] disposition = "refuse" -> [RefuseInbound(c, p.key) EXCEPT !.reason = "Refused"]
      [] disposition = "defer"  -> c

MintInbound(n, from, i, p, disposition) ==
    \E k \in {AllocateKey(n)}, j \in {Len(circuit) + 1} :
    \E c \in {Answered(NewCircuit(n, from, k, <<from, p.key>>, WindowSize[n],
                                  j, p.inc), p, disposition)} :
        /\ circuit' = Append(circuit, AtRest(c))
        /\ IF c.reason # "None" THEN UNCHANGED <<byLocalKey, byPeerKey>>
           ELSE /\ byLocalKey' = [byLocalKey EXCEPT ![n][k] = j]
                /\ byPeerKey' = [byPeerKey EXCEPT ![n][c.peerKey] = j]
        /\ nextKey' = [nextKey EXCEPT ![n] = (k + 1) % NumKeys]
        /\ Exchange(from, n, i, from, c.out)

\* A packet routed to circuit j.
Handle(n, from, i, p, j, reaction) ==
    \E c \in {OnPacket(circuit[j], p, reaction)} :
        /\ Update(j, c)
        /\ Exchange(from, n, i, c.remoteNode, c.out)
        /\ UNCHANGED nextKey

\* A packet that changes nothing but may be answered.
Answer(n, from, i, packets) ==
    /\ Exchange(from, n, i, from, packets)
    /\ UNCHANGED tables

\* allocateKey throws: the packet is gone and no circuit is minted.
Drop(n, from, i) == Answer(n, from, i, <<>>)

\* A packet no circuit matches: only a Disconnect Request is answered, by a
\* Disconnect Acknowledge carrying the index/id of the request.
Reflect(n, from, i, p) ==
    Answer(n, from, i,
           IF p.op # "DisconnectRequest" THEN <<>>
           ELSE <<Blank("DisconnectAcknowledge", p.key, p.inc)>>)

Deliverable(l) == 1 .. Lesser(ReorderDepth, Len(net[l]))

\* onPacket, up to the circuit a Connect Request belongs to.
ReceiveConnectRequest(from, n, i, disposition) ==
    LET p == net[<<from, n>>][i]
        j == byPeerKey[n][<<from, p.key>>]
    IN  /\ p.op = "ConnectRequest"
        /\ IF j # 0 THEN Handle(n, from, i, p, j, "drain")
           ELSE IF FreeKeys(n) = {} THEN Drop(n, from, i)
           ELSE /\ disposition \in IF n \in Listeners THEN Dispositions
                                   ELSE {"refuse"}
                /\ MintInbound(n, from, i, p, disposition)

ReceiveOther(from, n, i, reaction) ==
    LET p == net[<<from, n>>][i]
        j == byLocalKey[n][p.key]
    IN  /\ p.op # "ConnectRequest"
        /\ reaction = "reply" => j # 0 /\ Len(circuit[j].sent) < MaxSent
        /\ IF j # 0 THEN Handle(n, from, i, p, j, reaction)
           ELSE Reflect(n, from, i, p)

Receive(from, n) ==
    \E i \in Deliverable(<<from, n>>) :
        \/ \E d \in {"accept", "refuse", "defer"} :
               ReceiveConnectRequest(from, n, i, d)
        \/ \E r \in Reactions : ReceiveOther(from, n, i, r)

-----------------------------------------------------------------------------
(* The timer and the network's own step *)

\* Giving up takes the whole retry schedule, which a packet outlives only if
\* OutlivesRetries.
TickCircuit(i) ==
    /\ TimerRunning(circuit[i])
    /\ \/ OutlivesRetries
       \/ ~RetriesSpent(circuit[i])
       \/ Quiet(circuit[i].node, circuit[i].remoteNode)
    /\ LocalStep(i, Tick(circuit[i]))

Lose(l) ==
    /\ lossesLeft # 0
    /\ net[l] # <<>>
    /\ net' = [net EXCEPT ![l] = Tail(@)]
    /\ lossesLeft' = IF lossesLeft = Unlimited THEN Unlimited ELSE lossesLeft - 1
    /\ UNCHANGED tables

-----------------------------------------------------------------------------

Init == /\ circuit = <<>>
        /\ byLocalKey = [n \in Node |-> [k \in Key |-> 0]]
        /\ byPeerKey = [n \in Node |-> [pk \in Node \X Key |-> 0]]
        /\ nextKey \in [Node -> FirstKeys]
        /\ net = [l \in Link |-> <<>>]
        /\ lossesLeft = MaxLosses

AppStep(i) == \/ \E size \in FrameSizes : AppSend(i, size)
              \/ AppDisconnect(i)
              \/ AppDrain(i)
              \/ AcceptIncoming(i)
              \/ RefuseIncoming(i)

Next == \/ \E l \in Link : OpenCircuit(l[1], l[2]) \/ Receive(l[1], l[2]) \/ Lose(l)
        \/ \E i \in DOMAIN circuit : AppStep(i) \/ TickCircuit(i)

Spec == Init /\ [][Next]_vars

\* The manager's tick keeps being called and a stalled reader resumes.  A
\* deadline that is running is reached: only a NAK pushes it back, and with
\* MaxLosses finite there are finitely many of those.
TimerFairSpec ==
    /\ Spec
    /\ WF_vars(\E i \in DOMAIN circuit : TickCircuit(i))
    /\ WF_vars(\E i \in DOMAIN circuit : AppDrain(i))

\* Moreover what is in flight arrives, or is lost on the way.
FairSpec ==
    /\ TimerFairSpec
    /\ \A l \in Link : WF_vars(Receive(l[1], l[2]))

-----------------------------------------------------------------------------
(* Properties *)

\* Type correctness: the tables refer to circuits, the network holds packets.
TypeOK ==
    /\ circuit \in Seq(Circuit)
    /\ byLocalKey \in [Node -> [Key -> 0 .. Len(circuit)]]
    /\ byPeerKey \in [Node -> [Node \X Key -> 0 .. Len(circuit)]]
    /\ nextKey \in [Node -> Key]
    /\ net \in [Link -> Seq(Packet)]
    /\ lossesLeft \in Nat \cup {Unlimited}

\* Every end is sound in every state: no handler, called from any state the
\* others leave behind, arms a dead timer, keeps data past the close or lets
\* more in flight than the window (connect, disconnect, close, pumpSendQueue).
EndsAreSound == \A i \in DOMAIN circuit : EndIsSound(circuit[i])

\* Two ends of one circuit: one was minted for the other's Connect Request.
Linked(i, j) == \/ circuit[i].mintedFor = j
                \/ circuit[j].mintedFor = i

Last(s) == s[Len(s)]

\* The position up to which an end has accepted its peer's stream.
Accepted(c) == IF c.reassembly # <<>> THEN Last(c.reassembly)[2]
               ELSE IF c.got # <<>> THEN Last(Last(c.got))[2]
               ELSE 0

\* How far an end's stream has left its queue, and how far it is acknowledged.
Transmitted(c)  == Len(c.sent) - Len(c.sendQueue)
Acknowledged(c) == Transmitted(c) - Len(c.unacked)

\* The f-th frame delivered to c is the frame circuit j wrote after the
\* previous one: the same fragments, whole, none missing, none twice.
IsNextFrame(c, f, j) ==
    LET g     == c.got[f]
        first == IF f = 1 THEN 1 ELSE Last(c.got[f - 1])[2] + 1
    IN  /\ g # <<>>
        /\ \A k \in DOMAIN g : /\ g[k] = <<j, first + k - 1>>
                               /\ circuit[j].sent[first + k - 1] = (k < Len(g))

\* Delivery: whatever is lost, retransmitted or NAKed, the frames an
\* application has been handed are a prefix of those the other end wrote, with
\* their boundaries (onInformation, pumpSendQueue, absorbAck, retransmitFrom).
InOrderDelivery ==
    \A i \in DOMAIN circuit :
        circuit[i].got # <<>> =>
            \E j \in DOMAIN circuit :
                /\ Linked(i, j)
                /\ \A f \in DOMAIN circuit[i].got : IsNextFrame(circuit[i], f, j)

\* No silent loss: a fragment leaves the in-flight list of a connected end only
\* after the other end accepted it (absorbAck against onInformation's V(r)).
AckedWereAccepted ==
    \A i \in DOMAIN circuit :
        circuit[i].state = "Connected" /\ Acknowledged(circuit[i]) > 0 =>
            \E j \in DOMAIN circuit :
                /\ Linked(i, j)
                /\ \/ circuit[j].reason # "None"
                   \/ Accepted(circuit[j]) >= Acknowledged(circuit[i])

\* The peer's buffer: an end never has more fragments beyond what the other
\* end accepted than the window that end agreed to (onConnectAcknowledge,
\* acceptInbound: "sending more than the peer agreed to hold overruns its
\* receive queue").
NoOverrun ==
    \A i, j \in DOMAIN circuit :
        /\ Linked(i, j)
        /\ circuit[i].state = "Connected" /\ circuit[j].state = "Connected"
        => Transmitted(circuit[i]) - Accepted(circuit[j]) <= circuit[j].window

\* Window negotiation: two connected ends agree, within both proposals.
WindowAgreed ==
    \A i, j \in DOMAIN circuit :
        /\ Linked(i, j)
        /\ circuit[i].state = "Connected" /\ circuit[j].state = "Connected"
        => /\ circuit[i].window = circuit[j].window
           /\ circuit[i].window \in 1 .. MaxWindow
           /\ circuit[i].window <= circuit[i].windowSize

\* Numbering: the in-flight messages are the newest transmitted ones, without
\* gaps, numbered up to V(s), so a sequence number in flight names one message.
InFlightIsContiguous ==
    \A i \in DOMAIN circuit :
        LET c == circuit[i] IN
        \A k \in DOMAIN c.unacked :
            /\ c.unacked[k].seq = (c.vs - Len(c.unacked) + k - 1) % Modulus
            /\ c.unacked[k].body = <<i, Acknowledged(c) + k>>

\* V(a) is the oldest unacknowledged sequence, as ackState's comment says.
AckStateIsOldest ==
    \A i \in DOMAIN circuit :
        circuit[i].state = "Connected" =>
            circuit[i].va = (circuit[i].vs - Len(circuit[i].unacked)) % Modulus

\* The two maps of the manager and the peer key a circuit carries agree
\* (register, mintInbound, deregister): an entry names a circuit that has not
\* closed and is filed under its own keys, and an inbound circuit is in both
\* maps or in neither.
TablesAgree ==
    \A n \in Node :
        /\ \A k \in Key : byLocalKey[n][k] # 0 =>
              LET c == circuit[byLocalKey[n][k]] IN
              /\ c.node = n /\ c.localKey = k /\ c.reason = "None"
              /\ c.peerKey # NoPeerKey => byPeerKey[n][c.peerKey] = c.inc
        /\ \A pk \in Node \X Key : byPeerKey[n][pk] # 0 =>
              LET c == circuit[byPeerKey[n][pk]] IN
              /\ c.peerKey = pk
              /\ byLocalKey[n][c.localKey] = c.inc

\* A circuit that has not closed can still be found by the peer's packets:
\* no live circuit is unregistered.
LiveIsRegistered ==
    \A i \in DOMAIN circuit :
        circuit[i].state # "Disconnected" => Registered(i)

\* A clean close is mutual: when an end reports Normal, "either end requested
\* it and it was acknowledged", the other end is not left connected.
CleanCloseIsMutual ==
    \A i, j \in DOMAIN circuit :
        Linked(i, j) /\ circuit[i].reason = "Normal"
            => circuit[j].state # "Connected"

\* Backpressure: the frames a stalled reader has not consumed stay within the
\* choke threshold and what the peer may have in flight when it is choked.
BacklogBounded ==
    \A i \in DOMAIN circuit :
        ChokeThreshold > 0 =>
            circuit[i].pending < ChokeThreshold + circuit[i].window

\* A step after which an end is choked has transmitted nothing new.
HonoursChoke ==
    [][\A i \in DOMAIN circuit :
          circuit'[i].peerChoked => circuit'[i].vs = circuit[i].vs]_vars

AnEndIs(state) == \E i \in DOMAIN circuit : circuit[i].state = state

\* A connected end with data its peer has not acknowledged.
DataIsUnsettled ==
    \E i \in DOMAIN circuit :
        /\ circuit[i].state = "Connected"
        /\ Acknowledged(circuit[i]) < Len(circuit[i].sent)

\* A connect attempt ends, connected, refused or timed out (tick's retries).
ConnectSettles == AnEndIs("Connecting") ~> ~AnEndIs("Connecting")

\* A disconnect ends, whether or not its acknowledgement gets through.
DisconnectSettles == AnEndIs("Disconnecting") ~> ~AnEndIs("Disconnecting")

\* Data never sits forever: what an application wrote is acknowledged in full,
\* or the circuit leaves the connected state (tick, pumpSendQueue, the choke
\* release of onDeliveryDrained).
DataSettles == DataIsUnsettled ~> ~DataIsUnsettled

=============================================================================
