# Verification of ax25-ts

TLA+ models of `@packet-net/ax25`, a TypeScript implementation of AX.25 v2.2
connected mode and of the NET/ROM layers 3 and 4 on top of it. The models are
translated from `src/src`; paths below are relative to the repository unless
they start with `src/`, which is the copy of it the map refers to.

Everything in the library runs on one JavaScript event loop: there are no
threads. What makes it hard is elsewhere: packets that are lost, overtaken or
repeated between nodes; callbacks that call back into the object that fired
them; `await`s between a look and a use; timers against late answers; and
tables that several nodes keep about each other without ever agreeing on them.

## 1. The system

| Component | State it keeps | Operations | Talks to |
|---|---|---|---|
| **NET/ROM circuit** `netrom/circuit.ts` | state, V(s)/V(a)/V(r), send queue, in-flight list, reassembly buffer, window, choke in both directions, one control deadline and its retries, one deadline per message | `connect`, `acceptInbound`, `refuseInbound`, `send`, `disconnect`, `tick`, `onDeliveryDrained`, one handler per opcode | hands packets to `sendPacket`; fires `data` and `closed` callbacks, which may call it again |
| **Circuit manager** `netrom/circuit-manager.ts` | `byLocalKey`, `byPeerKey`, `nextIndex`/`nextId` | `openCircuit`, `acceptIncoming`, `refuseIncoming`, `tick`, `onPacket` | owns circuits, deregisters from their `closed` callback; asks the host about inbound ones, which may answer later |
| **NET/ROM connection** `netrom/connection.ts` | read buffer, listeners | `onData`, `write`, `dispose` | wraps a circuit for the application |
| **Routing table** `netrom/routing-table.ts`, `quality.ts` | destinations with routes, neighbours, the withdrawn set | `ingest`, `ingestRif`, `buildAdvertisement`, `buildRif`, `sweep`, `markNeighbourDown` (one port or all), `markPortDown`, `drainWithdrawn`, `snapshot` | called by the service and the connector |
| **NODES broadcasts** `netrom/originator.ts`, `nodes-broadcast*.ts`, `service.ts` | attached ports | broadcast, hear, sweep, attach and detach a port | listener (UI frames) and routing table |
| **INP3** `netrom/inp3-*.ts` | per neighbour: probe in flight, SNTT, last heard; pending positive and negative updates | tick, L3RTT in, RIF in | connector's interlinks, routing table |
| **Connector** `netrom/connector.ts` | interlinks by neighbour and port, dials, the INP3 engine and scheduler | `connect`, inbound sessions, datagrams, INP3 tick | listener sessions below, circuit manager above, forwarding and routing table beside |
| **Forwarding** `netrom/forwarding.ts` | none | next hop for a datagram, flow hash | routing table |
| **Wire formats (NET/ROM)** `network-header.ts`, `packet.ts`, `callsign.ts`, `connect-request-info.ts` | none | parse, format | everything in `netrom/` |
| **Listener** `listener.ts` | sessions by peer, open connects, XID state | `connect`, inbound frames, eviction, UI and TEST | transport, session driver, management data link, carrier sense |
| **Session driver** `sdl/session-driver.ts` and the rest of `sdl/` | the SDL session context, timers, queues | `postEvent` | interprets the tables of the npm package `ax25sdl` |
| **Management data link** `sdl/management-data-link.ts`, `xid-negotiator.ts` | negotiation state, TM201, retries | negotiate, XID/FRMR in, timeout | listener, session |
| **Segmentation** `sdl/segmenter.ts`, `segmentation-layer.ts` | reassembly series | segment, reassemble | session |
| **Carrier sense** `carrier-sense.ts` | channel state, deferred frames | wait and send | transport |
| **Outbound stack** `session.ts` | one session | connect, write, disconnect | session driver |
| **Formats** `address.ts`, `frame.ts`, `kiss.ts`, `fcs.ts`, `xid.ts` | none | parse, format | everything |
| **Transports** `*-transport.ts` | socket or port | read, write | operating system |

### What is hard, and what makes each part correct

*Circuits.* Selective release of an in-flight list in an 8-bit sequence space
that wraps; a window refilled from four call sites; an acknowledgement that
transmits before the choke flag of the same packet is applied; a data callback
that writes or disconnects; disconnects from either side crossing data and each
other. Correct means: what is delivered is what was written, whole, once and in
order; nothing unacknowledged is forgotten; the window and the choke are
respected; a close is one both ends can trust; nothing waits for ever.

*Circuit manager.* Keys that are used up, freed and reused while packets and
`closed` callbacks for the old user are still to come. Correct means: the two
maps agree, and no close removes the successor on its key.

*Routing.* No node ever knows the network: correct means that tables stay well
formed under whatever the others say, that a loss is told to those who learnt
of the route, and that a destination which is gone is eventually forgotten
although its neighbours keep teaching it to each other.

*Data link.* A state machine drawn in figures the code does not own, repaired by
a driver around it: an owner that answers from inside its data callback, a UA
that is lost or comes late, retries that start over, frames kept under a number
that a reset uses again, a version and a reject mode settled by an exchange
whose answers may be late, and a frame that does not say how wide its control
field is. Correct means: in order, once, and nothing lost unless the owner is
told; both ends speak the same version when they read each other; every wait
ends.

*INP3 timing, interlinks, forwarding.* Dials other work waits for, a link that
has ended at one side, a probe answered late, an update dropped after what it
should have told was drained, tables that form a loop. Correct means: a live
neighbour is kept, a dead one is given up, a loss is told to those who rely on
the route, and no frame goes round for ever.

*Carrier sense.* Every deferred frame polls the channel on its own, so the order
of the frames of one station is not kept.

## 2. The modules

    NetRomCircuit  <--EXTENDS--  CircuitManager  <--  MCCircuitManager
          ^                            ^
    NetRomCircuitProofs  <----  CircuitManagerProofs, NetRomStreamProofs  <--  CircuitStreamProofs
                                                                                   ^
                                                                         CircuitChokeProofs

    RoutingTable  <--EXTENDS--  NodesBroadcast  <--  RoutingNetwork  <--  MCRoutingNetwork
         ^                                                ^
         |                                      RoutingNetworkProofs
         |
    Forwarding    Inp3Engine    Inp3UpdateScheduler    Inp3Rif
         ^             ^                 ^                ^
         +-------------+--- NetRomConnector --------------+  <--  MCNetRomConnector
                                ^
                    NetRomConnectorProofs

    FrameCodec  <--  SessionContext  <--  ManagementDataLink (with Xid)  <--  DataLinkFigures
                <--  SessionDriver  <--  LinkListener  <--  DataLink  <--  MCDataLink, DataLinkProofs
                                                               |
                                          LinkService  <--INSTANCE (refinement)

### NetRomCircuit: one end

Every method of the class is an operator that takes the circuit record and
returns the one the method leaves, with the packets it emitted in order in the
field `out`. Order inside a method is kept, because it is observable:
`OnInformation` absorbs the acknowledgement (which may transmit) before it
applies the choke, and `MaybeAssertChoke` runs after the data callback.

The callback itself is `React`: a host that keeps the frame (`hold`), one that
consumes it at once (`drain`, what `NetRomConnection` does), one that writes
from inside the callback (`reply`) and one that disposes there (`dispose`).

Abstractions: a payload is `<<circuit, position>>`, so that lost, repeated,
misdelivered and misjoined data are told apart; index and id are one key, in
the order `allocateKey` counts; `Modulus` stands for 256 and the half-space
horizon and the maximum window are derived from it as in the code; time is
absent, a deadline may have passed whenever it is armed. `inc`, `mintedFor`,
`sent`, `got` and `reason` are history that no guard reads, except the bound
on what is written.

### CircuitManager: tables, hosts, applications and the network

One action is one callback run to completion:

| Action | Code |
|---|---|
| `OpenCircuit` | `openCircuit` and the `connect` that follows it |
| `AppSend`, `AppDisconnect`, `AppDrain` | `send`, `disconnect`, `onDeliveryDrained` by an application |
| `AcceptIncoming`, `RefuseIncoming` | the host's late answer to an inbound circuit |
| `Receive` | `onPacket`: demultiplexing, minting, the circuit's handler, the reflected Disconnect Acknowledge |
| `TickCircuit` | `tick` on a circuit whose timer has expired |
| `Lose` | the network drops a packet |

`Update` is what the `closed` callback does to the maps. The network is a queue
per direction that loses (`MaxLosses`), and delivers any of the `ReorderDepth`
oldest packets next. `NetCap` drops what exceeds it, which a datagram network
may always do. A packet may or may not outlive the whole retry schedule
(`OutlivesRetries`): that it does not is an assumption of the safety runs (the
defaults give up after 20 s), without which a packet of a circuit that has
timed out may reach a later one on its key; `CircuitSettles` does not assume it.

### RoutingTable: one table

The calls on `NetRomRoutingTable` as operators on a record with the routes, the
neighbours and the withdrawn set. The code's per-destination route arrays are
sets here and their sort order is the pair of relations `Outranks` and
`Fresher`; the cap is "fewer than `MaxRoutes` outrank it". Entries of one frame
touch different destinations, so an ingest is one union over them; only which
of several new destinations a nearly full list admits depends on their order,
and there `Admits` allows each set the code could end with. Times are counted in the
wire's 10 ms granule and `Quantise` rounds down and clamps as `quantise10` does.
Aliases and last-heard stamps are left out, and so are per-port overrides of
quality and floor, which no caller in the library passes.

### RoutingNetwork: tables that talk

| Action | Code |
|---|---|
| `HearBroadcast` | `broadcastNodes` at one node, `onFrameTraced` and `ingest` at a node in range |
| `Round` | `inp3Tick`: one drain of the withdrawn set, one RIF for every neighbour with an interlink |
| `ReceiveRif` | `dispatchInp3` with its gate on the selected port, `ingestRif` |
| `SweepTable` | `sweep` at the NODES interval |
| `DialFails` | `ensureInterlink` fails: `markNeighbourDown` for one port |
| `NeighbourSilent` | the INP3 engine's reset: `markNeighbourDown` on all ports |
| `DetachPort` | `detachPort` and `markPortDown` |
| `LinkFails` | the world: a link stops working and takes what is in flight with it |

Links do not come back: a link that returns adds no call to the table that its
first coming did not make. `NodesBroadcast` orders an advertisement and divides
it into frames as `buildNodesBroadcast` does; `HearBroadcast` takes one of them,
so that a node may hear part of a broadcast and miss the rest.

### NetRomConnector: interlinks, INP3 and datagrams

An end `<<n, m, p>>` is node n's session with m on port p, as its listener caches
it. A session carries frames in order while both its ends are connected, which
is what `LinkService` promises and `DataLink` implements, and loses what is under
way when an end goes down. A dial is an `await`: the work that waits (a circuit
to open, a datagram to forward) is kept in `dials` with the state it has looked
at, and `Continue` resumes it after the world has moved on.

| Action | Code |
|---|---|
| `Open` | `connect` of the connector up to its first `await` |
| `Continue` | what follows the `await`: `ensureInterlink`, the send, the next neighbour in turn, or the failure |
| `Established`, `DialFails` | the listener's promise settles |
| `EndDown` | a session ends at one side, `onNeighbourDown` |
| `Deliver` | the tap of an inbound frame: `dispatchInp3` (L3RTT, RIF), `forwardDatagram` |
| `Enter` | a datagram arrives from a node outside |
| `Learn`, `Lose` | the table of a border node gains or loses a destination |
| `detachPort`, `attachPort` | the calls of that name |
| `Tick` | `inp3Tick`: `engineTick`, the teardown of neighbours given up, the drain of the withdrawn set, `schedulerTick` and its RIFs |
| `Pass` | a unit of time |

What a behaviour may do is one of `Modes`. `CalmAssumption` says what a mode in
which no link fails (`~breaks`) is: it spends no failure, cut or detachment, and of
two links between a pair of nodes the tables at the start use one at most
(`Used`, `Plain`), so that no end is left for another.

`Inp3Engine` (probe, reflection, SNTT, giving up), `Inp3UpdateScheduler` (marks,
periodic, negative and positive updates) and `Forwarding` (next hop, flow share)
are pure operators on records, one per method. A RIF on the wire is the sequence
of its octets (`Inp3Rif`): `advertise` writes and refuses it, `dispatchInp3` reads
it back, end markers, would-be TLVs and all. Time is counted in one unit: what is
sent before the last tick of a unit arrives within it, in slow modes within the
next.

### The data link

`SessionContext` holds the session record, the guards of
`session-bindings.ts` and the verbs of `action-dispatcher.ts`. `DataLinkFigures`
are the state pages of figures C4.1 to C4.7 as `ax25sdl` draws them; that package
is not in the repository, so these definitions are marked external and are taken
from how `src` uses them, from the verbs and guards it registers and from its
conformance tests. `SessionDriver` is the event loop and the default quirks,
`ManagementDataLink` the XID exchange, `LinkListener` what the listener does
around a session, and `DataLink` two stations and the path between them.

| Action | Code |
|---|---|
| `Connect`, `ProbeOver` | `connect` up to, and after, the XID exchange it waits for |
| `Disconnect`, `Send`, `FlowOff`, `FlowOn` | the owner's calls; `Send` is `sendData` with the segments of one payload |
| `Deliver` | `dispatchInbound`: the frame is read with the session's modulo, reclassified, handed to the management data link or posted |
| `T1Expiry`, `T3Expiry`, `Tm201Expiry` | `onTimerExpiry` and the TM201 callback |
| `Lose`, `Duplicate` | the path |
| `Overtaken` | the carrier-sense gate: a frame that found the channel clear leaves before one that waits |

A frame on the path is what is on the air: the command bits and the octets of its
control and PID fields, written by `encodeFrame` under the sender's version and
read by `decodeFrame` under the reader's (`FrameCodec`). The widths of the fields
are the real ones, the ring is shorter. An XID frame carries the octets of its
information field (`Xid`). A payload is its number; a segment adds its place in
the series. `got`, `told`, `sub`, `last` and `sdus` are history that no guard reads,
but for the bound on what is sent.

`LinkService` is the abstract specification of one direction: payloads are
submitted, delivered in order and once on one link, and passed over only after
the owner was told that they may be lost. `DataLink!ImplementsService` is the
refinement, with `sub`, `told`, `got` and `last` of the stations as the mapping.

## 3. What TLC checks

All runs are of two or three nodes or stations, but for `RoutingNodes`, which has
four (the connector adds two that only have names). `MC*.tla` gives the constants a
configuration cannot write.

| Run | States | Question and answer |
|---|---|---|
| `CircuitTransfer` | about 950 000 | One direction past the wrap of the sequence space, any number of losses, a reader that stalls and chokes, disconnects at any moment. Type correctness, in-order delivery, no silent loss, window, numbering, V(a), backlog, choke and mutual close hold. |
| `CircuitDuplex` | about 850 000 | Data both ways, answers written in the callback, unequal window proposals (one beyond the maximum), a loss and an overtaking. Delivery, window agreement and numbering hold. |
| `CircuitLifecycle` | about 105 000 | Two nodes opening, accepting, refusing, deferring and closing over a table of one key. The maps agree and every live circuit is found. No data. |
| `CircuitSettles` | about 104 000 | Liveness: connects and disconnects end; written data is acknowledged or the circuit closes, with a loss, a listener that never answers and an application that gives up while connecting. Every end keeps its timer, its window and its data in step with its state. The choke is off. |
| `RoutingNodes` | about 60 500 | NODES round a ring of three with a quality floor, and a fourth node that goes away when a port is detached, while a dial fails on a working link and sweeps are out of step. Types, caps, listed neighbours; the destination that went is taught right round the ring and is forgotten. |
| `RoutingInp3` | about 363 000 | RIFs over a line in any order with a link failing. Routes are sound, times cover hops, every loss of a last time-route is recorded and whoever still relies on it is about to be told. |
| `DataLink` | about 290 000 | Two stations in eleven modes, below. The link implements `LinkService`; no payload is lost without a signal; no series mixes two payloads; every numbered frame is read as it was written; selective reject rests on an answer; the window is kept; every dial, release, recovery and XID exchange ends; what is sent is acknowledged or given up. |
| `NetRomConnector` | about 340 000 | INP3 between two nodes, and a forwarding loop of three, in eight modes, below. A neighbour is given up only when its answer was lost; a probe is never doubled or reflected for ever; a withdrawal is told, octets and all; a datagram ends. |
| `CircuitChokeLost` | violation | `DataSettles` fails: see findings. |
| `CircuitMisrouted` | violation | `CleanCloseIsMutual` fails. |
| `RoutingMixed` | violation | `WithdrawalRecorded` fails. |
| `LinkStaleStore` | violation | `ImplementsService` fails. |

**Modes.** `DataLink` and `NetRomConnector` choose at the start what a behaviour may
do, so that one run covers many small instances instead of their product.
`DataLink`: *call* (both dial, crossing or in turn, and hang up), *talk* (answers
from the data callback, idle polls), *hold* (DL-FLOW-OFF and ON), *rej* (go-back-N
past a full window and round the ring), *peer* (the called station sends), *cut*
(segments on one link and the next), *copy* (a frame twice), *busy* (a frame
overtaken), *srej* (v2.2 with selective reject, more than half the ring asked
for), *xid* (v2.0 dials that negotiate first), *v22* (v2.2 dials, one given up).
`NetRomConnector`: *calm*, *slow* (frames take a unit longer), *cut* (a link fails
under the probes), *dial* (dials fail), *ports* (two links, and the ends may select
different ones), *detach*, *plain* (the peer has no INP3), *ring* (datagrams round a
loop).

**Why the bounds are enough to be interesting.** `Modulus` 6 gives a maximum window of
2 and a horizon of 3: `CircuitTransfer` writes eight fragments in frames of
two, so sequence numbers wrap with a full window while retransmissions of the
previous lap could still be about, and its `ChokeThreshold` of 1 is reached
with a window in flight. `Modulus` 8 in `CircuitDuplex` gives a window of 3, so that
unequal proposals can be told apart. A single key in `CircuitLifecycle` makes
every reuse immediate and exhaustion common. `MaxRetries` 1 makes giving up as
near as retrying. In `RoutingNodes` a path quality of 128 and a floor of 10 give D the
qualities 128 at A, 64, 32, and 16 back at A: a full circle, so A believes in D on the
word of its neighbours alone after it has lost it, and the floor refuses the lap
after that (8). A list of one destination and a cap of one route force a choice at every
frame, of what to admit and of whom to believe. In the INP3 runs a hop limit of 2
and a horizon of three granules are reached on three nodes. Deadlock is not checked in the
circuit runs: once everything a run may open and write is done and
acknowledged nothing is left to do. In the routing runs it is, since sweeps and broadcasts
never end.

`DataLink` has a ring of 3 for v2.0 and of 4 for v2.2: with the largest window
(ring - 1) three or four payloads wrap the sequence numbers while retransmissions
of the previous lap are about. N2 of 2 leaves one retry between the first
expiry and giving up, which is where `clampRc` matters. `ChannelCap` 2 lets a
frame be under way behind another in each direction before a timer or an owner
may act again; what handlers send is not capped. In `NetRomConnector` an interval
of 2 and a reset window of 4 are the interval plus the time there and back in a
slow mode: exactly the smallest window that keeps a live neighbour (with 3
`AliveIsKept` fails). A time to live of 3 sends a datagram once round the loop.
Deadlock is not checked in these two: an owner's calls are bounded, and a link
that is at rest may stay so.

**What the runs do not show.** `HonoursChoke` (a step that leaves an end
choked has transmitted nothing new) holds with data in one direction; with data
both ways an Information message that carries a choke first acknowledges, and
the acknowledgement transmits (`circuit.ts:510`), so it is checked in
`CircuitTransfer` only. `BacklogBounded` fails there for the same reason: with data both
ways and the acknowledgement that first carried the choke lost, TLC finds a
backlog of the threshold and a whole further window. An Information Acknowledge
applies the choke before it acknowledges; only Information does it in the other order. `AckStateIsOldest` needs a network that does not
reorder: an acknowledgement that was overtaken moves V(a) back, which nothing
in the code acts on. In the INP3 run a pair of nodes has one link, so
`ReceiveRif`'s gate never drops. It says nothing of a neighbour whose link is down
when the withdrawn set is drained; `WithdrawalReaches` says nothing once links fail.

`GhostsFade` is checked with a floor above the fixpoint of `combineQuality`, and needs
one. The rounding has a fixpoint above zero for a path quality of 128 or more: 1 at 128, 2
at the default of 192. With the default floor of 0 a ghost that goes round a ring stops
degrading there and stays for as long as the nodes keep hearing each other before
they sweep; the mutant of the run, a table that applies no floor, shows such a
behaviour. No comment or test claims the contrary of the default, so it is a known
limit and not a finding. In `RoutingNodes` no pair of nodes has two links, a frame carries
all a node advertises, and a fresh route has a count of 1, so a sweep drops whatever was not heard since the last:
with a count of 2 the ring has more than a million states. In the passing runs no
count goes down without its route going; the theorems on types, listed neighbours and caps
hold for any count, list and links.

`AliveIsKept` and `ProbeIsAwaited` hold also when the ends of two links select different
ports: a neighbour that is given up for it has lost its answer, which the first allows. In
the mode *ring* a datagram's time to live is spent when it comes back to its origin, so
that the origin does not send it on is not put to the test there; the theorem
`DatagramsAlwaysEnd` has no such bound.

### Fairness

* `TimerFairSpec`: weak fairness of `TickCircuit` (hosts drive `tick` from an
  interval timer; with finitely many losses and writes only finitely many NAKs
  push a deadline back) and of `AppDrain` (a stalled reader resumes). Nothing
  is assumed of the network: it may keep a packet for ever. `CircuitSettles`
  uses this one.
* `FairSpec` of the circuits adds that what is in flight arrives unless it is
  lost. `CircuitChokeLost` uses it, so that its counterexample, which never
  delivers anything more, is not the network's fault.
* `FairSpec` of the data link: T1 and TM201 expire again and again while they are
  armed, `connect` stops waiting for its XID exchange, and a path that carries
  frames for ever delivers some. These are weak fairness of the four actions,
  with their enabling conditions written out (`[]<>~armed \/ []<><<A>>_vars`): TLC
  would have to evaluate ENABLED of handlers with nested folds in every state. The
  condition written is weaker than the guard (`Room`, `ChannelCap`), so the
  fairness is that of the system clock and not of the bound. Nothing is assumed
  of T3, of the owners or of losses. `WaitingEnds` and `DataSettles` are written
  `[]<>~P`, which is `P ~> ~P`: no station waits, or holds data, for ever.
* `FairSpec` of the routing: weak fairness of every node's `SweepTable`, because
  the host runs `sweep` at its NODES interval. Nothing is assumed of
  broadcasts, RIFs or failures.

## 4. Findings

1. **A lost choke release stops a transfer for good** (`CircuitChokeLost`,
   `circuit.ts:786`). The release is one Information Acknowledge nobody
   repeats. If it is lost while the sender has nothing in flight, no timer runs
   and its queue waits for ever, although the release is there to "Tell the
   peer it may resume" (`circuit.ts:785`).
2. **A Disconnect Acknowledge for key 0 closes a bystander**
   (`CircuitMisrouted`, `circuit.ts:490`). A circuit that has not yet seen its
   Connect Acknowledge answers a Disconnect Request to its peer's index/id,
   which are still 0/0. If the peer has a circuit under 0/0 that is itself
   disconnecting, it closes as Normal, "either end requested it and it was
   acknowledged" (`circuit-state.ts:33`), while its own peer stays connected.
3. **The route cap loses a time-route without a withdrawal** (`RoutingMixed`,
   `routing-table.ts:1314`). With NODES and INP3 together, a better quality
   evicts the only route with a time, and the withdrawn set, documented as the
   "destinations that have lost their LAST Inp3-bearing route"
   (`routing-table.ts:420`), does not name it.

4. **Frames kept out of sequence survive a reset** (`LinkStaleStore`,
   `action-dispatcher.ts:405`). Under selective reject a frame ahead of V(r) is
   kept under its N(S). Neither Clear Exception Conditions nor
   Establish_Data_Link empties the store, and `resetState`, "Used by SABM/SABME
   paths" (`session-context.ts:270`), has no caller. After the peer dials again, the
   old frame is delivered as soon as V(r) reaches its number, against "Reliable,
   in-order, gap-free, duplicate-free delivery"
   (`tests/conformance/invariant-checker.ts:79`).

## 5. What TLAPS proves

For every set of nodes, key space, even sequence space, window option, listener
behaviour and network bound; for every set of nodes, ports, links, quality,
limits and horizon; and, of the connector, for every set of modes, whatever the
tables at the start, the number of circuits, datagrams, failures and changes; and, of
the data link, for every window, retry limit, ring, number of payloads, loss, copy and
overtaking:

| Theorem | Statement |
|---|---|
| `CircuitManagerProofs!Invariance` | `Spec => []Inv`, the inductive invariant below |
| `TypeCorrect` | `Spec => []TypeOK` |
| `EndsStaySound` | a control deadline is armed exactly while a control exchange is pending, an end that is not connected holds no data, the in-flight list is within the window, a reason means closed |
| `TablesStayInAgreement` | the two maps agree with the circuits they name and with each other |
| `LiveStaysRegistered` | every circuit that is not disconnected is found under its key |
| `CircuitStreamProofs!StreamInvariance` | with one circuit, `Spec => [](Inv /\ StreamInv)`: its two ends and the packets between them fit together |
| `FramesInOrder` | with one circuit, `Spec => []InOrderDelivery` |
| `NothingLost` | with one circuit, `Spec => []AckedWereAccepted` |
| `FlightContiguous`, `AckStateOldest` | with one circuit, `Spec => []InFlightIsContiguous` and `Spec => []AckStateIsOldest` |
| `WindowsAgreed`, `NeverOverrun` | with one circuit and window options of at least 1, `Spec => []WindowAgreed` and `Spec => []NoOverrun` |
| `CleanCloseMutual` | with one circuit and applications that hang up only on open circuits, `Spec => []CleanCloseIsMutual` |
| `CircuitChokeProofs!ChokeHonoured` | with one circuit and data one way, `Spec => HonoursChoke`: a step that leaves an end choked has numbered nothing |
| `BacklogKept` | with one circuit, data one way and window options of at least 1, `Spec => []BacklogBounded`: a stalled reader has less than the choke threshold and a window pending |
| `RoutingNetworkProofs!Invariance` | `Spec => []Inv` |
| `TypeCorrect` | `Spec => []TypeOK` |
| `RoutesAlwaysSound` | a kept route is usable, not to or through its own node, within the hop limit and unique |
| `NeighboursAlwaysListed` | a route with a quality goes through a listed neighbour |
| `TimesAlwaysCoverHops` | a time covers an increment per hop, in tables and in flight |
| `CapsAlwaysHold` | `Spec => []WithinCaps` |
| `LossesRecorded` | of all the steps there are, only a NODES broadcast can lose the last time-route to a destination without recording it |
| `WithdrawalsAlwaysRecorded` | without NODES, `Spec => WithdrawalRecorded` |
| `WithdrawalsAlwaysTold` | without NODES and with one link per pair, `Spec => []StaleIsToldOf`: who relies on a time-route that its neighbour lost is about to be told |
| `NetRomConnectorProofs!DatagramsAlwaysEnd` | `Spec => []DatagramsEnd`, for any tables, links and modes |
| `ProbesAlwaysAwaited` | `Spec => []ProbeIsAwaited` |
| `AliveAlwaysKept` | `Spec => AliveIsKept`: an INP3 neighbour is given up only when its answer was lost, and never where no link fails |
| `DataLinkProofs!DataLinkTypes` | on v2.0 links without XID, `Spec => []TypeOK`: the sequence variables on the ring, the retry count within N2, nothing left half done by a handler |
| `WindowIsKept` | on v2.0 links without XID, `Spec => []WindowKept` |
| `RetransmissionPossible` | on v2.0 links without XID, every number outstanding has its frame stored |
| `FrameReadBack` | a frame of either version read with the modulus it was written with is the frame that was sent |

**Assumptions** are the `ASSUME`s of the modules. On circuits: the key space is
not empty, the sequence space is even and larger than 3, options are natural
numbers. "With one circuit" is the hypothesis `OneStream` of the stream's theorems:
the hosts open one circuit (its peer's manager may still mint several ends for it,
one after the other), links do not reorder, and an end gives up retrying only
when nothing of its own or its peer's is still under way. `CircuitTransfer` is such
an instance. `HangsUpOpen` is the second hypothesis of `CleanCloseMutual`: a circuit that
is abandoned while it connects reports Normal without having told anybody
(section 6), so applications that do that are left out. Each part is needed: with a second circuit on a reused key
`InOrderDelivery` is violated (`CircuitMisrouted`); where a Connect Request may
outlive the retries of the end it made, it makes another, to which the opener goes
on sending in the middle of its stream (TLC finds `InOrderDelivery` violated then
as well, with data both ways); an acknowledgement that was overtaken moves V(a)
back. `OneWay` is the second hypothesis of `ChokeHonoured` and `BacklogKept`: one node's applications write, and
none answers from its data callback (section 3 says what data both ways does). On routing: nodes and ports are finitely many, they have an order without ties (which is
what makes "the best route" one route), qualities are octets, the horizon is at least
two whole granules (the code's is 6000), limits are positive. The last two theorems
assume a reset window of at least the interval and two units of time (a probe takes
one there and one back, where the mode is slow) and `probeUnknownCapability`, which
is the default and which the model sets for all nodes alike; both are hypotheses of
the theorems and not of the module. Without the first, TLC finds a live neighbour
that is given up. No fairness and nothing about losses is used. On the data link:
the absent value is no payload (`NoneIsNoPayload`) and a mode is a record of counts,
flags and sets of stations (`ModesAssumption`). `PlainModes` is the hypothesis of its
theorems: dials ask for v2.0 and for no XID exchange, as in eight of the modes of the
run, and `n2` is at least 1. The last is needed: `AX25Listener` takes any
`options.n2`, the retry count is compared with it for equality, and a dial starts it
at 1, so an N2 of 0 is never met and the retries do not end. Whether selective reject
and the segmenter are configured is left open.

**Argument, circuits.** `TypeOK` alone is not inductive: what the handlers do
with a circuit depends on its being sound, and what `deregister` does to the maps
depends on whose key it is. `Inv` is `TableTypes` (types), `NetTypes` (packets in
flight are packets), `EndsAreSound`, `Identified` (a circuit's history number is
its index), `TablesAgree` and `LiveIsRegistered`. `NetRomCircuitProofs` shows for
every method that a sound circuit stays sound and keeps its keys
(`PumpType`, `AbsorbAckType`, `DeliverType`, `TickType` and the others, composed in
`OnPacketType`). `CircuitManagerProofs` then has three lemmas on the tables, one for
each thing that happens to them: a circuit changes or closes (`UpdateInv`),
one is registered under a free key (`RegisterInv`), one is refused on the spot
(`AppendClosedInv`); and one lemma per action that cites one of them.

The heart is `LiveIsRegistered` under reuse: a `closed` callback removes by
key, and it removes its own entry only because an entry of `byLocalKey` always
names a circuit that has not closed, which `TablesAgree` supplies, and because
`AllocateKey` never hands out a key in use.

**Argument, stream.** What an application reads depends on both ends and on all
that is under way, and on the wire a position in the stream is a remainder.
`NetRomStreamProofs` states one direction of it (`Direction`): the writer's in-flight
list and queue are the unacknowledged rest of what was written, numbered by position
(`Numbered`); what was received is a prefix cut into whole frames (`Assembled`); an
Information message under way carries what its position says and is less than a
window from what the receiver expects, and from those sent before it (`Carried`); an
acknowledgement under way covers only what is in flight and was accepted, a later
one no less (`Returned`); who sends which control packets, with which window
(`Shaken`). A window is at most half the sequence space, so the number of a message
names one position (`ModUnique`, `ExpectedIsNext`), and so does that of an
acknowledgement. Each handler on either end keeps both directions (`SendWithin`,
`OnInformationWithin`, `TickWithin` and the others, in `OnPacketWithin`), and so
do a loss and a receipt (`LeftOf`).

`CircuitStreamProofs` adds what ties the two ends together (`Joined`): the opener has
no data until it is answered, and while its peer has not answered, or has closed
where a Connect Request may still make another, there is none anywhere (`Apart`,
`Clean`), so a new peer starts where the opener does; and the window (`Agreed`).
`StreamInv` says of the tables that the circuits are the opener and the ends made
for it in turn, all but the newest closed without data, and that only
the two links between them carry anything. Every action is then a handler on the
opener or on the newest peer, an answer to a packet for no circuit, a loss, or the
making of a peer.

How the two ends part is `Parted`, kept beside `Joined` (`Together`). Only an end that
leaves sends the packets of a close, and it reports Normal only once the other leaves
too (`Parting`). What makes it inductive is who is addressed: the opener knows the
key of the end it talks to, so a Disconnect Request finds that end and none
before it (`Addressed`), and before a peer has answered, or where another
may still be made, nobody has left (`Calm`). The older ends of a stream closed without data
and not with Normal (`Gone`). A handler that keeps all this is one whose departure its
packets tell (`Departs`), shown for each in `OpenerParts` and `PeerParts`.

**Argument, flow control.** `onInformation` lets an acknowledgement transmit before
it looks at the choke flag of the same message, so no handler keeps the choke by
itself. With data one way an Information message only ever finds an end that has
written nothing (`OneWayInv`, `OneIsMute`): by `Direction` such an end has nothing queued
(`Unwritten`) and nothing under way from it is Information (`UnwrittenIsQuiet`), and
its pump does nothing (`IdlePump`). Every handler then leaves an end that it leaves choked where
it was (`Restrained`, in `OnPacketRestrained` and `CallComplies`).

`BacklogBounded` follows from how far the writer may have come. `Floor` is the position
the reader had accepted when its backlog reached one below the threshold, or what it has
accepted if it has not come to that. The invariant `Paced` says that the writer has
transmitted no more than a window past `Floor`, and neither is any Information message under
way; that the writer is acknowledged past `Floor` only if it is choked; and, which makes it
inductive, that no acknowledgement under way reaches past `Floor` unless it carries the choke.
So it does not matter which of the acknowledgements is lost: the window opens no further
until one of them arrives, and the choke comes with it. What a handler of the writer may do
is `Writes` (acknowledged by nothing, or by the packet it was given, whose flag it then has),
kept by `WriterKeepsPace`; what a handler of the reader may do is `Reads` (the floor only
rises, and what is emitted past it is choked), kept by `ReaderKeepsPace`. `WriterRuns` and
`ReaderRuns` show them of every handler, `PaceKept` puts the two together, and `NextMoves`
shows that every step of the managers is such a handler on one of the two ends
(`OpenerMoves`, `PeerMoves`) or comes before any data (`Restarts`).

**Argument, routing.** `Inv` is `TablesGood` (every table's routes are typed, sound
and unique, a route with a quality is through a listed neighbour, a time covers
its hops), `LinksTyped` and `RifsGood` (a RIF in flight names a destination once
and its times cover its hops). Each call on the table has a lemma that it keeps
a table good (`IngestGood`, `IngestRifGood`, `WithoutGood`, `SweepGood`,
`MarkDownGood`), and `BuildRifGood` that a good table yields a good RIF, for which
`QuantiseCovers` shows that rounding down and clamping below the horizon lose
at most what an increment per hop left. Uniqueness of entries in flight is needed because
an ingest treats the entries of a frame one destination at a time.

The lemmas on the calls also say that each either adds no via to the routes of a
destination or applies the cap to a good set of routes (`CapsApplied`).
`CapBounds` shows that the cap keeps at most `MaxRoutes`: of the routes kept,
the one that most routes outrank is outranked by all the others kept, and by
fewer than `MaxRoutes`. `CapTakesOne` shows that of one route too many it takes only
one, so a RIF that teaches a route with a time can push out another with a
time only by staying itself (`UpsertKeepsTime`). This places finding 3 exactly:
the same cap is harmless under `ingestRif` and not under `ingest`.

**Argument, withdrawals.** `StaleIsToldOf` relates two tables to the RIFs between
them, and is not inductive: a RIF that is still to arrive may teach again what its
sender has lost since. `AllToldOf` says of each interlink what the receiver will
believe once everything in flight has arrived: of a destination that the sender has
lost and is not about to withdraw, the last word in flight is a withdrawal, and
there is one if the receiver routes that way. `LinksOnly` confines routes and RIFs
to links there are. One link per pair is a hypothesis: with two, the sender may
change over while a RIF is in flight, and the receiver reads only the port it has
selected; `LossesRecorded` supplies what a table notes when it
loses a time.

**Argument, connector.** Datagrams: what the path of one may be on the link it
takes depends on the node it came from, and it must be followed through the dials it
waits for, whose work is done in a state that has moved on (`OnItsWay`, kept in
`wire` by `Wired` and in `dials` by `Dialled`); `ForwardOnItsWay` is where the two
refusals of `decideForward` are used. Probes: that one at most is out follows from a
node's sending none while it awaits one, and that it awaits the one that is out from
the reset window being longer than a probe takes. `Aged` bounds how long a neighbour
has not answered by how long ago it was probed, `Awaited` the time a probe has been
out by where it is and whether it is late.

That a neighbour which is given up has nothing under way to it follows from the same
invariant (`ForgottenUnheard`). That none is given up where no link fails does not:
a frame is sent in vain when the other end is not connected, is reflected over the link
that `interlinkForCallsign` picks and not the one it came by, and is swept away when
an end is dialled over a session that is up. `Orderly` therefore says that every
neighbour an engine knows is at the other end of the only link to it, listed by both
and up (`Meeting`), that what is under way is on such links (`Carrying`), that no
listed end is down, so that none is dialled again (`Listed`, `Called`), and that
every route is over these links (`Along`); `Hearing`, that the probe a node
awaits the answer of is under way. `Hearing` is not kept inside a handler: between
taking a probe off the link and reflecting it, or answering for it, it holds but for
that probe (`Expecting`).

**Argument, data link.** That the window is kept and that what is outstanding can be
sent again need each other: a number enters the window only with its frame
(`EmitGood`), and leaves it when V(A) passes it (`AdvanceVaGood`), which an N(R)
may do only if it lies between V(A) and V(S) on the ring. `Good` is both, with the
types of the session, of what it has queued, stored and put together, and of the frames it
has handed down. Nothing in a handler relates more than one session to the rest, so
every verb, subroutine and page of the figures has a lemma that leads from a good
session to a good session; `DispatchGood` composes them with the quirks of the driver
and `PostGood` with its loop. `LinkInv` is that both sessions are good, settled,
and that all that is under way was written by a session that was good. What is read
of it is what was sent (`FrameReadBack`, `RoundTrip`). Three handlers fold: over the numbers
to be sent again (`RetransmitGood`), over the I queue while the window has room
(`DrainGood`), and over the stored frames that follow one in sequence
(`DrainStoredGood`), and so does a payload that is cut (`SendDataGood`). A fold is a
recursive function over sets, of which nothing follows until it is shown to exist; `FoldExists` does
that by induction over the size, in the form the prover can use: of a set of
naturals, that the least one missing cannot be (`NatMinimum`, `NatClosed`).

**Only model-checked.** Liveness (the prover has no fairness reasoning). The
delivery properties, the numbering and the window of circuits where links reorder
(`CircuitDuplex`: the bounds in `Carried` and `Returned` compare a packet with
those sent after it, and would have to count how far one can be overtaken), and the
window where an option is 0.
`StaleIsToldOf` with two links between a pair.
`WithdrawalReaches`: a RIF on these links is octets, and what the parser makes of them, item by item, is shown for no sequence but those that occur.
Of the data link, delivery (`NoSilentLoss`, `SduIntact`, the refinement of `LinkService`),
which on a path that repeats and reorders rests on how long a frame can last;
`ReadAsSent` and `SrejAgreed`, which say something only where versions and selective
reject are negotiated; and `TypeOK` and `WindowKept` there, since an exchange changes
the modulus and the window of a link with frames outstanding.

## 6. Not modelled, known limits, and the plan

### Left out

* Octets of callsigns, addresses, digipeater chains, KISS, FCS and the NET/ROM
  headers: no state depends on them, and the repository's own tests cover them.
  Of frames and XID the parts that a session's state depends on are modelled.
* Transports (socket and serial I/O), `session.ts` (a thin wrapper around the
  driver), UI, TEST and FRMR frames, alias display, logging and `Date` stamps.
* The listener's LRU cache and eviction (more peers than `maxCachedPeers`),
  `acceptIncoming` off, strict parse options, and the promises of `connect` and
  `disconnect`, which only listen.
* The timing of T1, N1, T1 and duplex in XID, and the quirks that are off
  by default.
* A disconnect from inside a data callback of the data link: the state the nested
  event reaches is overwritten (`session-driver.ts:397`), which is an outcome and
  not a promise.
* `ipAccept`, steps of the wall clock and `removeNeighbour` of the INP3 engine;
  `dispose` of the connector and its hand-over of circuits to the host, which
  `CircuitManager` models.
* Restarts. Nothing is persisted; a restarted node allocates from 0/0 again, and
  nothing in a Connect Request tells it from its predecessor.

### Known limits of what was checked

Behaviours met while modelling for which the source states no promise a run could
refute, or which lie outside the modes.

*Circuits.* NAK-driven retransmissions are not limited by `maxRetries`.
`disconnect` while Connecting reports Normal without sending anything. A Connect
Request that is repeated after a refusal, or that is overtaken by the whole life of
its circuit, mints a second one, which breaks in-order delivery and the window;
under reordering a Disconnect Request can overtake data, so `CleanCloseIsMutual` is
checked on ordered paths only.

*Data link.* The modes but *stale* let an owner dial only when neither end is up, and
v2.2 is used with the dialler sending and nobody hanging up. Outside them: a DM
that refuses a v2.2 dial, or one that is late, can leave the ends on different
versions while a SABME is under way; a reset in Timer Recovery with V(s) = V(a)
keeps V(r); a late UA confirms a later dial. A lost XID response leaves the
responder with selective reject and the dialler without
(`management-data-link.ts:286` assumes otherwise). A window that XID lowers
can be smaller than what the called station has outstanding. In the
carrier-sense gate a frame that is overtaken with a window of modulus - 1
outstanding (k = 7 on a v2.0 link is allowed), or across a hang-up and a new dial,
is an old acknowledgement that passes for a new one: data is lost without a
signal, which the protocol cannot tell apart, so *busy* stays below half the ring
and on one link.

*Connector and INP3.* Two dials to one neighbour leave the session of the first in
no map (`connector.ts:598`). A dial over a link the peer opened and has sent
nothing on resets it (`connector.ts:679`). `detachPort` can be undone by the tap of
a frame that is still to come. The ends of two parallel links may select different
ports for INP3 and drop each other's frames; no property says that they agree. `validateInp3Options` asks only that
the reset window exceeds the interval; a window below the interval plus the time
there and back gives up live neighbours. A reflection whose probe was given up is
taken for the peer's and reflected (`inp3-engine.ts:328`); no run makes it go round,
since the reset window outlasts it. When both ends have given each other up, an
idle link stays silent. A neighbour that is not probed, because
`probeUnknownCapability` is off and it has not been heard to speak INP3, ages all the
same: if it is first heard of so long after it was entered, it can be given up while
its first probe is out (`inp3-engine.ts:228`); the runs and the theorems on probes
leave the option on. The connector never marks a positive change. A RIF of 24
RIPs or more exceeds N1 and is refused after the withdrawn set was drained
(`connector.ts:842`), and in one of about 13 or more, sooner if callsigns start with a
digit, the first end marker can be read as an alias TLV (`inp3-rif.ts:468`); the
runs have five destinations.

*Comments the code contradicts*, of which no run speaks. `flowHash` is said to make
"every datagram of a circuit" hash alike (`forwarding.ts:230-232`); it reads the index
and id of the transport header, which in the Connect Request are the caller's and in
what the caller sends later the peer's. A RIF is said to leave the obsolescence of a route
untouched (`routing-table.ts:598-601` and `1323-1325`); the code resets it
(`routing-table.ts:1358-1362`), and so does `UpsertInp3Route`.

### The plan

Proofs next, in this order:

1. The data link with v2.2 and XID: `Good` for a ring that changes, under what
   the exchange may do to a link in use.
2. Its delivery on a path that keeps order: what is under way against V(R), as
   `CircuitStreamProofs` does for circuits.
3. `Inp3Rif` and `Xid`, what is written is read back: recursive functions over octets,
   with the induction of `FoldExists`.

Models that could follow: the listener's cache with eviction against live
sessions, and circuits over the datagram service of `NetRomConnector` in place of
their own network.
