---------------------------- MODULE NetRomConnector ----------------------------
(***************************************************************************)
(* The interlinks of NET/ROM nodes and what runs over them (connector.ts): *)
(* dials that other work waits for, datagrams forwarded, INP3 probes timed *)
(* (Inp3Engine) and updates sent (Inp3UpdateScheduler, Inp3Rif) on a table *)
(* (RoutingTable).                                                         *)
(*                                                                         *)
(* An end <<n, m, p>> is node n's session with m on port p; the listener   *)
(* keeps one per peer.  A session carries frames in order while both its   *)
(* ends are connected (LinkService), and loses what is under way when one  *)
(* of them goes down or is dialled again.  A frame is under way for one    *)
(* unit of time at most, and for less where the mode is not a slow one.    *)
(***************************************************************************)
EXTENDS Forwarding, Inp3Engine, Inp3UpdateScheduler, Inp3Rif

LOCAL INSTANCE SequencesExt

CONSTANTS
    InRange,  \* the links there are, in any mode: a set of <<{m, n}, port>>
    Flows,    \* the flow hashes of datagrams
    Modes     \* what a behaviour may do, one of them chosen at the start

ASSUME ConnectorAssumption ==
    /\ InRange \subseteq (SUBSET Node) \X Port
    /\ \A l \in InRange : Cardinality(l[1]) = 2
    /\ Flows \subseteq Nat /\ MaxDestinations >= Cardinality(Node)
    /\ DOMAIN Shifted = Node

\* The tables at the start, who speaks INP3, opens circuits and for where, who
\* has neighbours outside the model and on which port, whether links may fail and
\* frames stay under way, and how often each thing may happen.
Mode == [tables : [Node -> Table], inp3 : SUBSET Node,
         openers : SUBSET Node, dests : SUBSET Node,
         border : SUBSET Node, outside : SUBSET Node, port : Port,
         breaks : BOOLEAN, slow : BOOLEAN, opens : Nat, enters : Nat,
         changes : Nat, fails : Nat, cuts : Nat, detaches : Nat]

ASSUME ModeAssumption == Modes \subseteq Mode

End == {e \in Node \X Node \X Port : e[1] # e[2] /\ <<{e[1], e[2]}, e[3]>> \in InRange}

Other(e) == <<e[2], e[1], e[3]>>

EndOf(n, via) == <<n, via[2], via[1]>>

Vias(t) == t.neighbours \cup {r.via : r \in t.routes}

\* The ends that the tables lead over at the start of a mode in which no link
\* fails, and a way of n's that is over one of these if it is over a link at all.
Used == {e \in End :
            \E mode \in Modes, g \in {e, Other(e)} :
                ~mode.breaks /\ \E v \in Vias(mode.tables[g[1]]) : EndOf(g[1], v) = g}

Plain(n, v) ==
    /\ EndOf(n, v) \in End => EndOf(n, v) \in Used
    /\ \A e \in Used : e[1] = n /\ e[2] = v[2] => e[3] = v[1]

\* Where no link fails, none of two links between a pair is left for the other.
ASSUME CalmAssumption ==
    \A mode \in Modes : ~mode.breaks =>
        /\ mode.fails = 0 /\ mode.cuts = 0 /\ mode.detaches = 0
        /\ \A n \in Node : \A v \in Vias(mode.tables[n]) : Plain(n, v)
        /\ \A n \in mode.border, x \in mode.outside : Plain(n, <<mode.port, x>>)

VARIABLES
    table,   \* [n]: its routing table
    eng,     \* [n]: the neighbours its INP3 engine knows
    sched,   \* [n]: its update scheduler
    links,   \* the ends that are listed as interlinks
    attached, \* the <<node, port>> pairs whose listener the connector has
    sess,    \* [e]: "Disconnected", "Dialling" or "Connected"
    dials,   \* [n]: the work that waits for a dial of n's
    wire,    \* [e]: the frames under way from e
    ticked,  \* the nodes that have ticked in this unit of time
    left     \* what may still happen (bounds), and the mode

vars == <<table, eng, sched, links, attached, sess, dials, wire, ticked, left>>

\* What a handler reads and changes.
State == [table |-> table, eng |-> eng, links |-> links, sess |-> sess,
          dials |-> dials, wire |-> wire]

Becomes(S) ==
    /\ table' = S.table /\ eng' = S.eng /\ links' = S.links
    /\ sess' = S.sess /\ dials' = S.dials /\ wire' = S.wire

The(one) == CHOOSE x \in one : TRUE

-----------------------------------------------------------------------------
(* Sending *)

BothUp(S, e) == S.sess[e] = "Connected" /\ S.sess[Other(e)] = "Connected"

\* sendData to a session that is not connected at both ends is in vain.
Send(S, e, f) ==
    IF BothUp(S, e)
    THEN [S EXCEPT !.wire[e] = Append(@, [frame |-> f, late |-> FALSE])]
    ELSE S

\* interlinkForCallsign: the link on the port routing selects, else the first
\* on any port; none or one.
interlinkForCallsign(S, n, m) ==
    LET live   == {e \in S.links : e[1] = n /\ e[2] = m}
        chosen == {e \in live : \E r \in BestRoute(S.table[n], m) : EndOf(n, r.via) = e}
    IN  IF chosen # {} THEN chosen
        ELSE {e \in live : \A g \in live : PortRank[e[3]] <= PortRank[g[3]]}

\* sendInp3Bytes of a frame to each of some neighbours.
sendInp3(S, n, frames) ==
    LET link(m) == interlinkForCallsign(S, n, m)
        out == {The(link(m)) : m \in {x \in DOMAIN frames : link(x) # {}}}
    IN  [S EXCEPT !.wire = [e \in End |->
            IF e \in out /\ BothUp(S, e)
            THEN Append(@[e], [frame |-> frames[e[2]], late |-> FALSE]) ELSE @[e]]]

\* A datagram: the path it has taken is kept for the properties.
Datagram(origin, dest, ttl, flow, opens) ==
    [kind |-> "DATA", origin |-> origin, dest |-> dest, ttl |-> ttl, flow |-> flow,
     opens |-> opens, path |-> <<>>]

SentBy(p, n) == [p EXCEPT !.path = Append(@, n)]

\* sendNetRomPacket: over a link to the destination itself, else to the next hop
\* of its route, else on the port it was heard on as a neighbour.
sendNetRomPacket(S, n, p) ==
    LET direct == interlinkForCallsign(S, n, p.dest)
        active == selectActiveRoute(S.table[n], p.dest)
        heard  == {v \in S.table[n].neighbours : v[2] = p.dest}
        first  == {v \in heard : \A w \in heard : PortRank[v[1]] <= PortRank[w[1]]}
        vias   == IF active # {} THEN {r.via : r \in active} ELSE first
        link   == IF direct # {} THEN direct
                  ELSE {EndOf(n, v) : v \in vias} \cap S.links
    IN  IF link = {} THEN S ELSE Send(S, The(link), SentBy(p, n))

-----------------------------------------------------------------------------
(* Dialling: ensureInterlink and what waits for it *)

Waits(S, e, work, outcome) ==
    [S EXCEPT !.dials[e[1]] = Append(@, [end |-> e, work |-> work, outcome |-> outcome])]

\* The listener of the port dials, over a session that may be up or dialling
\* already, and the work waits; without a listener the dial has failed.  Where
\* it leads out of the model the work is done there.
Dial(S, e, work) ==
    IF e \notin End THEN S
    ELSE IF <<e[1], e[3]>> \notin attached THEN Waits(S, e, work, "failed")
    ELSE Waits([S EXCEPT !.sess[e] = "Dialling",
                         !.wire[e] = <<>>, !.wire[Other(e)] = <<>>], e, work, "pending")

\* originateCircuit
originateCircuit(S, n, d) ==
    sendNetRomPacket(S, n, Datagram(n, d, MaxTimeToLive, The(Flows), TRUE))

MaxAttempts == 1 + 3

\* connectCircuit: the route is looked up afresh at each attempt.
connectCircuit(S, n, d, attempt) ==
    LET best == selectActiveRoute(S.table[n], d)
        e    == EndOf(n, The(best).via)
    IN  IF best = {} \/ attempt > MaxAttempts THEN S
        ELSE IF e \in S.links /\ S.sess[e] # "Disconnected" THEN originateCircuit(S, n, d)
        ELSE Dial(S, e, [kind |-> "circuit", dest |-> d, attempt |-> attempt])

\* forwardDatagram: a listed link is used as it is, whatever its state.
forwardDatagram(S, n, from, p) ==
    LET onward == decideForward(p, from, n, S.table[n])
        e      == EndOf(n, The(onward).via)
        q      == SentBy(Forwarded(p), n)
    IN  IF onward = {} THEN S
        ELSE IF e \in S.links THEN Send(S, e, q)
        ELSE Dial(S, e, [kind |-> "datagram", packet |-> q])

\* The work of a dial that came up, and of one that failed.
Resolved(S, n, d) ==
    LET T == [S EXCEPT !.links = @ \cup {d.end}]
    IN  IF d.work.kind = "circuit" THEN originateCircuit(T, n, d.work.dest)
        ELSE Send(T, d.end, d.work.packet)

Rejected(S, n, d) ==
    LET T == [S EXCEPT !.table[n] = MarkNeighbourDown(@, <<d.end[3], d.end[2]>>)]
    IN  IF d.work.kind = "circuit"
        THEN connectCircuit(T, n, d.work.dest, d.work.attempt + 1)
        ELSE T

-----------------------------------------------------------------------------
(* Receiving *)

\* circuits.onPacket answers a Connect Request; anything else ends here.
deliverPacket(S, n, p) ==
    IF p.opens
    THEN sendNetRomPacket(S, n, Datagram(n, p.origin, MaxTimeToLive, p.flow, FALSE))
    ELSE S

onPacket(S, n, from, p) ==
    IF p.dest = n THEN deliverPacket(S, n, p) ELSE forwardDatagram(S, n, from, p)

ingestInp3Rif(S, n, from, port, rips) ==
    LET sntt == IF S.eng[n][from].sntt = SnttUnset THEN Unset ELSE S.eng[n][from].sntt
        t    == S.table[n]
    IN  [S EXCEPT !.table[n] = IngestRif(t, n, <<port, from>>, rips, sntt,
                                         NewFromRif(t, n, rips, sntt))]

onL3Rtt(S, n, from, f) ==
    LET T == [S EXCEPT !.eng[n] = handleL3Rtt(@, n, from, f)]
    IN  IF Answers(S.eng[n], n, from, f) THEN T
        ELSE sendInp3(T, n, [m \in {from} |-> f])

\* dispatchInp3 where there is an engine: what arrives on another port than the
\* one selected for its sender is neither timed nor ingested.  No table has the
\* destination of an L3RTT frame, so as a datagram it goes nowhere.
dispatchInp3(S, n, from, port, f) ==
    LET T == [S EXCEPT !.eng[n] = observeNeighbour(@, from)]
    IN  IF n \in left.inp3 /\ ChosenPort(S.table[n], from) \subseteq {port}
        THEN CASE f.kind = "RIF"   -> ingestInp3Rif(T, n, from, port, ToSet(parseInp3Rif(f.octets)))
               [] f.kind = "L3RTT" -> onL3Rtt(T, n, from, f)
               [] f.kind = "DATA"  -> onPacket(T, n, from, f)
        ELSE IF f.kind = "DATA" THEN onPacket(S, n, from, f) ELSE S

\* What has settled runs before anything but more from the same chunk of input.
Settled(n) == {i \in DOMAIN dials[n] : dials[n][i].outcome # "pending"}

Deliver(c) ==
    LET n == c[2]
        S == [State EXCEPT !.links = @ \cup {Other(c)}, !.wire[c] = Tail(@)]
    IN  /\ wire[c] # <<>>
        /\ \A i \in Settled(n) : dials[n][i].end[3] = c[3]
        /\ Becomes(dispatchInp3(S, n, c[1], c[3], Head(wire[c]).frame))
        /\ UNCHANGED <<sched, attached, ticked, left>>

-----------------------------------------------------------------------------
(* The data links *)

\* The end e becomes what the link service makes it, and the dials of its node
\* that wait for it learn the outcome.
Settle(S, e, outcome) ==
    [S EXCEPT !.dials[e[1]] =
        [i \in DOMAIN @ |-> IF @[i].end = e /\ @[i].outcome = "pending"
                            THEN [@[i] EXCEPT !.outcome = outcome] ELSE @[i]]]

\* A dial is answered: both ends are connected, whoever else was dialling.
Established(e) ==
    LET S == [State EXCEPT !.sess[e] = "Connected", !.sess[Other(e)] = "Connected"]
    IN  /\ sess[e] = "Dialling"
        /\ Becomes(Settle(Settle(S, e, "up"), Other(e), "up"))
        /\ UNCHANGED <<sched, attached, ticked, left>>

\* The tap of tapInterlinkSession: an end that goes down is no interlink.
Down(S, e) == [S EXCEPT !.sess[e] = "Disconnected", !.links = @ \ {e},
                        !.wire[e] = <<>>, !.wire[Other(e)] = <<>>]

DialFails(e) ==
    /\ sess[e] = "Dialling" /\ left.fails > 0
    /\ Becomes(Settle(Down(State, e), e, "failed"))
    /\ left' = [left EXCEPT !.fails = @ - 1]
    /\ UNCHANGED <<sched, attached, ticked>>

\* A connected end gives up on its peer, or learns that the peer is down.
EndDown(e) ==
    /\ sess[e] = "Connected"
    /\ \/ sess[Other(e)] = "Disconnected" /\ UNCHANGED left
       \/ /\ sess[Other(e)] # "Disconnected" /\ left.cuts > 0
          /\ left' = [left EXCEPT !.cuts = @ - 1]
    /\ \A i \in Settled(e[1]) : dials[e[1]][i].end[3] = e[3]
    /\ Becomes(Down(State, e))
    /\ UNCHANGED <<sched, attached, ticked>>

\* The continuation of an awaited dial.
Continue(n) ==
    \E i \in Settled(n) :
        LET S == [State EXCEPT !.dials[n] = RemoveAt(@, i)]
        IN  /\ \A j \in Settled(n) : i <= j
            /\ Becomes(IF dials[n][i].outcome = "up" THEN Resolved(S, n, dials[n][i])
                       ELSE Rejected(S, n, dials[n][i]))
            /\ UNCHANGED <<sched, attached, ticked, left>>

-----------------------------------------------------------------------------
(* The host and the outside *)

\* connect: the host opens a circuit to d.
Open(n, d) ==
    /\ n \in left.openers /\ d \in left.dests /\ n # d /\ left.opens > 0
    /\ Settled(n) = {}
    /\ Becomes(connectCircuit(State, n, d, 1))
    /\ left' = [left EXCEPT !.opens = @ - 1]
    /\ UNCHANGED <<sched, attached, ticked>>

\* A datagram arrives at n from a neighbour outside the model.
Enter(n, x) ==
    \E ttl \in 1 .. MaxTimeToLive + 2, flow \in Flows, d \in left.dests :
        LET p == SentBy(Datagram(x, d, ttl, flow, FALSE), x)
        IN  /\ n \in left.border /\ x \in left.outside /\ left.enters > 0
            /\ Settled(n) = {}
            /\ Becomes(onPacket(State, n, x, p))
            /\ left' = [left EXCEPT !.enters = @ - 1]
            /\ UNCHANGED <<sched, attached, ticked>>

\* n learns the way to a neighbour x outside the model, by time, and loses it.
Outside(x) == <<left.port, x>>

Learn(n, x) ==
    LET rips == {[dest |-> x, time |-> 0, hops |-> 0]}
        t    == table[n]
    IN  /\ n \in left.border /\ x \in left.outside /\ left.changes > 0
        /\ Settled(n) = {}
        /\ Becomes([State EXCEPT !.table[n] =
               IngestRif(t, n, Outside(x), rips, 0, NewFromRif(t, n, rips, 0))])
        /\ left' = [left EXCEPT !.changes = @ - 1]
        /\ UNCHANGED <<sched, attached, ticked>>

Lose(n, x) ==
    /\ n \in left.border /\ x \in left.outside /\ left.changes > 0
    /\ Settled(n) = {}
    /\ Becomes([State EXCEPT !.table[n] = MarkNeighbourDown(@, Outside(x))])
    /\ left' = [left EXCEPT !.changes = @ - 1]
    /\ UNCHANGED <<sched, attached, ticked>>

\* detachPort: the interlinks on the port are forgotten, not their sessions.
detachPort(n, p) ==
    /\ <<n, p>> \in attached /\ n \in left.openers /\ left.detaches > 0
    /\ Settled(n) = {}
    /\ attached' = attached \ {<<n, p>>}
    /\ Becomes([State EXCEPT !.links = {e \in @ : e[1] # n \/ e[3] # p}])
    /\ left' = [left EXCEPT !.detaches = @ - 1]
    /\ UNCHANGED <<sched, ticked>>

\* attachPort: a session the listener made meanwhile is tapped already.
attachPort(n, p) ==
    /\ <<n, p>> \notin attached /\ Settled(n) = {}
    /\ attached' = attached \cup {<<n, p>>}
    /\ UNCHANGED <<table, eng, sched, links, sess, dials, wire, ticked, left>>

-----------------------------------------------------------------------------
(* Time *)

\* buildRif in the order of the wire: this node, the picked destinations by the
\* time they take, those withdrawn.
OrderedRif(t, n, m, picked) ==
    LET local(d) == IF d = n THEN -1
                    ELSE Min({Horizon} \cup {r.time : r \in {q \in picked : q.dest = d}})
        Before(x, y) == \/ local(x.dest) < local(y.dest)
                        \/ /\ local(x.dest) = local(y.dest)
                           /\ CallRank[x.dest] < CallRank[y.dest]
    IN  SetToSortSeq(BuildRif(t, n, m, picked, t.withdrawn), Before)

\* sendData refuses a RIF too long for one frame, and every RIF of a round is as
\* long as the others.
advertise(S, n, rifs) ==
    sendInp3(S, n, [m \in {x \in DOMAIN rifs : Fits(inp3RifToBytes(rifs[x]))} |->
                       [kind |-> "RIF", octets |-> inp3RifToBytes(rifs[m])]])

\* The scheduler told whom to send to and what the table withdrew.
Briefed(s, capable, withdrawn) ==
    FoldSet(LAMBDA d, u : markWithdrawn(u, d), setTargetNeighbours(s, capable), withdrawn)

\* inp3Tick: probe and give up neighbours, tear down the routes of those given
\* up on every port, then drain what the table withdrew and send the updates
\* that are due.
Tick(n) ==
    LET E       == engineTick(eng[n])
        silent  == Silent(eng[n])
        t       == Without(table[n], {r \in table[n].routes : r.via[2] \in silent},
                           Port \X silent)
        capable == CapableNeighbours(IF silent = {} THEN eng[n] ELSE E)
        s       == Briefed(sched[n], capable, t.withdrawn)
        probing == sendInp3(State, n, [m \in Probed(eng[n]) |-> build(n)])
        drained == [probing EXCEPT !.eng[n] = E, !.table[n] = [t EXCEPT !.withdrawn = {}]]
    IN  \E picked \in Picks(t, n) :
        /\ n \in left.inp3 \ ticked /\ Settled(n) = {}
        /\ Becomes(advertise(drained, n,
                             [m \in Advertised(s) |-> OrderedRif(t, n, m, picked)]))
        /\ sched' = [sched EXCEPT ![n] = schedulerTick(s)]
        /\ ticked' = ticked \cup {n}
        /\ UNCHANGED <<attached, left>>

\* A unit of time: every node has ticked, and what was sent before the last one
\* has arrived.
Pass ==
    /\ left.inp3 # {} /\ ticked = left.inp3
    /\ \A n \in Node : Settled(n) = {}
    /\ \A e \in End : \A i \in DOMAIN wire[e] : left.slow /\ ~wire[e][i].late
    /\ ticked' = {}
    /\ eng' = [n \in Node |-> Elapse(eng[n])]
    /\ sched' = [n \in Node |-> IF n \in left.inp3 THEN SchedulerElapse(sched[n])
                                ELSE sched[n]]
    /\ wire' = [e \in End |-> [i \in DOMAIN wire[e] |-> [wire[e][i] EXCEPT !.late = TRUE]]]
    /\ UNCHANGED <<table, links, attached, sess, dials, left>>

-----------------------------------------------------------------------------

Init ==
    \E mode \in Modes :
        /\ left = mode
        /\ table = mode.tables
        /\ eng = [n \in Node |-> <<>>]
        /\ sched = [n \in Node |-> NewScheduler]
        /\ links = {}
        /\ attached = Node \X Port
        /\ sess = [e \in End |-> "Disconnected"]
        /\ dials = [n \in Node |-> <<>>]
        /\ wire = [e \in End |-> <<>>]
        /\ ticked = {}

Next == \/ \E e \in End : Deliver(e) \/ Established(e) \/ DialFails(e) \/ EndDown(e)
        \/ \E n \in Node : Continue(n) \/ Tick(n)
        \/ \E n, x \in Node : Open(n, x) \/ Enter(n, x) \/ Learn(n, x) \/ Lose(n, x)
        \/ \E n \in Node, p \in Port : detachPort(n, p) \/ attachPort(n, p)
        \/ Pass

Spec == Init /\ [][Next]_vars

-----------------------------------------------------------------------------
(* Properties *)

\* The probes of n's, on their way to m or reflected back: where they are.
ProbesOut(n, m) ==
    UNION {{<<e, i>> : i \in {j \in DOMAIN wire[e] :
                                 /\ wire[e][j].frame.kind = "L3RTT"
                                 /\ wire[e][j].frame.origin = n}} :
               e \in {x \in End : {x[1], x[2]} = {n, m}}}

\* A neighbour that speaks INP3 is given up only when its answer to a probe was
\* lost: never while the probe or the answer is on its way, and never where no
\* link fails (tick, handleL3Rtt; the reset window exceeds the interval by the
\* time there and back).
AliveIsKept ==
    [][\A n, m \in Node :
          m \in CapableNeighbours(eng[n]) /\ m \notin DOMAIN eng'[n]
              => eng[n][m].awaiting /\ ProbesOut(n, m) = {} /\ left.breaks]_vars

\* No frame is reflected for ever: of the probes a node sends to a neighbour one
\* at most is on its way, and the node awaits it, so that the frame ends when it
\* comes back (tick, handleL3Rtt).
ProbeIsAwaited ==
    \A n, m \in Node : ProbesOut(n, m) # {} =>
        /\ Cardinality(ProbesOut(n, m)) = 1
        /\ m \in DOMAIN eng[n] /\ eng[n][m].awaiting

\* Where no link fails, a node that routes by time through one that has lost the
\* destination is about to be told (inp3Tick, drainRecentlyWithdrawn, the
\* scheduler's tick, buildRif).
WithdrawalReaches ==
    ~left.breaks =>
        \A e \in End : \A d \in Node \ {e[1]} :
            LET n == e[1]  m == e[2]
            IN  /\ \E r \in RoutesTo(table[m], d) : Timed(r) /\ r.via = <<e[3], n>>
                /\ ~HasTime(RoutesTo(table[n], d))
                => \/ d \in table[n].withdrawn
                   \/ \E i \in DOMAIN wire[e] :
                         /\ wire[e][i].frame.kind = "RIF"
                         /\ \E rip \in ToSet(parseInp3Rif(wire[e][i].frame.octets)) :
                                rip.dest = d /\ rip.time = Horizon

\* Round whatever loop the tables make, a datagram takes no more hops than it
\* came with or the node grants, is never sent back to where it came from, and
\* is not sent on by its origin (decideForward, forwardDatagram).
DatagramsEnd ==
    \A e \in End : \A i \in DOMAIN wire[e] :
        LET p == wire[e][i].frame
        IN  p.kind = "DATA" =>
                LET path == Append(p.path, e[2])
                IN  /\ Len(p.path) + p.ttl <= MaxTimeToLive + 2
                    /\ p.ttl > 0
                    /\ \A j \in 3 .. Len(path) : path[j] # path[j - 2]
                    /\ \A j \in 2 .. Len(p.path) : p.path[j] # p.origin

=============================================================================
