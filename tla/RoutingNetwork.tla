---------------------------- MODULE RoutingNetwork ----------------------------
(***************************************************************************)
(* The routing tables of a set of nodes that hear each other's NODES       *)
(* broadcasts and exchange INP3 RIFs (src/src/netrom/service.ts,           *)
(* originator.ts, connector.ts around routing-table.ts).                   *)
(*                                                                         *)
(* Two nodes may be in range of each other on several ports.  A broadcast  *)
(* is heard by any of the nodes in range; RIFs travel in order over the    *)
(* interlinks, and are dropped when no interlink is up.  A link that fails *)
(* takes what is in flight on it.                                          *)
(***************************************************************************)
EXTENDS NodesBroadcast, Sequences

CONSTANTS
    InRange,      \* the links: a set of <<{m, n}, port>>
    UsesNodes,    \* do the nodes broadcast NODES?
    UsesInp3,     \* do they exchange RIFs?
    SnttChoices,  \* transport times a link may be measured at, or Unset
    Fickle,       \* the links on which a dial may fail although they work
    MaxFailures,  \* bound: links that fail
    Detachable,   \* the ports that hosts may detach
    RifCap        \* bound: RIFs in flight on a channel; beyond it none is sent

ASSUME NetworkAssumption ==
    /\ InRange \subseteq (SUBSET Node) \X Port
    /\ \A l \in InRange : Cardinality(l[1]) = 2
    /\ UsesNodes \in BOOLEAN /\ UsesInp3 \in BOOLEAN
    /\ SnttChoices \subseteq Nat \cup {Unset}
    /\ MaxFailures \in Nat /\ RifCap \in Nat \ {0}
    /\ Fickle \subseteq InRange /\ Detachable \subseteq Port

VARIABLES
    table,     \* [n]: the routing table of node n
    up,        \* the links that work
    detached,  \* <<node, port>> pairs a host has detached
    rifs       \* [<<from, to, port>>]: the RIFs in flight on an interlink

vars == <<table, up, detached, rifs>>

Channel == {c \in Node \X Node \X Port : c[1] # c[2]}

\* The ports on which n hears m.
PortsBetween(m, n) ==
    {p \in Port : /\ <<{m, n}, p>> \in up
                  /\ <<m, p>> \notin detached /\ <<n, p>> \notin detached}

-----------------------------------------------------------------------------
(* NODES *)

\* broadcastNodes at n, and onFrameTraced at m, which hears one of the frames on
\* p.  A broadcast of several frames, or that several nodes hear, is one such
\* step for each; those that are not heard are lost.
HearBroadcast(n, m, p) ==
    \E frame \in buildNodesBroadcast(BuildAdvertisement(table[n])) :
    \E entries \in {parseNodesBroadcast(frame)} :
    \E new \in {NewFromNodes(table[m], m, <<p, n>>, entries)} :
    \E admitted \in SUBSET new :
    \E after \in {Ingest(table[m], m, <<p, n>>, entries, admitted)} :
        /\ UsesNodes
        /\ p \in PortsBetween(n, m)
        /\ Admits(table[m], new, admitted, after)
        /\ table' = [table EXCEPT ![m] = after]
        /\ UNCHANGED <<up, detached, rifs>>

-----------------------------------------------------------------------------
(* INP3 *)

\* sendInp3Bytes: the link on the port routing selects, else the first that is
\* up.
SendPorts(n, m) ==
    LET live   == PortsBetween(n, m)
        chosen == {r.via[1] : r \in {x \in BestRoute(table[n], m) : x.via[2] = m}}
    IN  IF chosen \cap live # {} THEN chosen \cap live
        ELSE {p \in live : \A q \in live : PortRank[p] <= PortRank[q]}

Outgoing(n) == {c \in Channel : c[1] = n /\ c[3] \in SendPorts(n, c[2])}

\* inp3Tick when an update is due: the withdrawn set is drained once and a RIF
\* goes to every neighbour an interlink leads to.
Round(n) ==
    \E picked \in Picks(table[n], n) :
        /\ UsesInp3
        /\ \A c \in Outgoing(n) : Len(rifs[c]) < RifCap
        /\ rifs' = [c \in Channel |->
                       IF c \notin Outgoing(n) THEN rifs[c]
                       ELSE Append(rifs[c], BuildRif(table[n], n, c[2], picked,
                                                     table[n].withdrawn))]
        /\ table' = [table EXCEPT ![n].withdrawn = {}]
        /\ UNCHANGED <<up, detached>>

\* dispatchInp3: a RIF from n is read only when it arrives on the port that m
\* selects for n.
ReceiveRif(n, m, p) ==
    \E sntt \in SnttChoices, admitted \in SUBSET Node :
        LET rips  == Head(rifs[<<n, m, p>>])
            new   == NewFromRif(table[m], m, rips, sntt)
            after == IngestRif(table[m], m, <<p, n>>, rips, sntt, admitted)
        IN  /\ rifs[<<n, m, p>>] # <<>>
            /\ rifs' = [rifs EXCEPT ![<<n, m, p>>] = Tail(@)]
            /\ IF ChosenPort(table[m], n) \subseteq {p}
               THEN /\ admitted \subseteq new
                    /\ Admits(table[m], new, admitted, after)
                    /\ table' = [table EXCEPT ![m] = after]
               ELSE admitted = {} /\ UNCHANGED table
            /\ UNCHANGED <<up, detached>>

-----------------------------------------------------------------------------
(* Loss *)

LinkFails(l) ==
    /\ l \in up
    /\ Cardinality(InRange \ up) < MaxFailures
    /\ up' = up \ {l}
    /\ rifs' = [c \in Channel |-> IF <<{c[1], c[2]}, c[3]>> = l THEN <<>> ELSE rifs[c]]
    /\ UNCHANGED <<table, detached>>

\* sweep, at the node's NODES interval.
SweepTable(n) ==
    /\ table' = [table EXCEPT ![n] = Sweep(@)]
    /\ UNCHANGED <<up, detached, rifs>>

\* ensureInterlink: a dial to m, the next hop of a route on p, fails.  It may
\* fail on a link that works.
DialFails(n, m, p) ==
    /\ \E r \in table[n].routes : r.via = <<p, m>>
    /\ p \in PortsBetween(n, m) => <<{n, m}, p>> \in Fickle
    /\ table' = [table EXCEPT ![n] = MarkNeighbourDown(@, <<p, m>>)]
    /\ UNCHANGED <<up, detached, rifs>>

\* The INP3 engine has had no reflection from m for the reset window.
NeighbourSilent(n, m) ==
    /\ UsesInp3
    /\ PortsBetween(n, m) = {}
    /\ table' = [table EXCEPT ![n] = MarkNeighbourDownAllPorts(@, m)]
    /\ UNCHANGED <<up, detached, rifs>>

\* detachPort: the host takes a port out of service.
DetachPort(n, p) ==
    /\ p \in Detachable
    /\ <<n, p>> \notin detached
    /\ detached' = detached \cup {<<n, p>>}
    /\ table' = [table EXCEPT ![n] = MarkPortDown(@, p)]
    /\ rifs' = [c \in Channel |-> IF n \in {c[1], c[2]} /\ c[3] = p
                                  THEN <<>> ELSE rifs[c]]
    /\ UNCHANGED up

-----------------------------------------------------------------------------

Init == /\ table = [n \in Node |-> EmptyTable]
        /\ up = InRange
        /\ detached = {}
        /\ rifs = [c \in Channel |-> <<>>]

Next == \/ \E n \in Node : Round(n) \/ SweepTable(n)
        \/ \E c \in Channel : \/ HearBroadcast(c[1], c[2], c[3])
                            \/ ReceiveRif(c[1], c[2], c[3])
                            \/ DialFails(c[1], c[2], c[3])
                            \/ NeighbourSilent(c[1], c[2])
        \/ \E n \in Node, p \in Port : DetachPort(n, p)
        \/ \E l \in InRange : LinkFails(l)

Spec == Init /\ [][Next]_vars

\* Every node goes on sweeping its table: the host runs sweep at its NODES
\* interval.  Nothing is assumed of what a node hears or is sent.
FairSpec == Spec /\ \A n \in Node : WF_vars(SweepTable(n))

-----------------------------------------------------------------------------
(* Properties *)

\* Type correctness of the tables and of what is in flight.
TypeOK ==
    /\ table \in [Node -> Table]
    /\ up \subseteq InRange /\ detached \subseteq Node \X Port
    /\ rifs \in [Channel -> Seq(SUBSET Rip)]

\* Every route a table keeps is usable: it has a quality or a time, is not to
\* or through this node itself, is within the hop limit, and is the only one to
\* its destination through its neighbour and port (upsertRoute,
\* upsertInp3Route, withdrawInp3).
RouteIsSound(n, r) ==
    /\ r.dest # n /\ r.via[2] # n
    /\ r.quality > 0 \/ Timed(r)
    /\ r.hops \in IF Timed(r) THEN 1 .. HopLimit ELSE {0}

RoutesAreSound ==
    \A n \in Node : \A r \in table[n].routes :
        /\ RouteIsSound(n, r)
        /\ \A s \in RoutesTo(table[n], r.dest) : s.via = r.via => s = r

\* The cap of heuristic 7 holds with whatever quality, time and port the routes
\* were learnt, and in whatever order (enforceRouteCap).
WithinCaps ==
    \A n, d \in Node : Cardinality(RoutesTo(table[n], d)) <= MaxRoutes

\* A route with a quality goes through a neighbour that is still listed: no
\* loss or prune takes a neighbour away under its routes (pruneOrphanNeighbours,
\* markNeighbourDown, markPortDown).
NeighboursListed ==
    \A n \in Node : \A r \in table[n].routes :
        r.quality > 0 => r.via \in table[n].neighbours

\* Every hop costs at least an increment: a time, in a table or in flight,
\* covers one for each hop it counts, however often it was rounded down on the
\* way (ingestRif, buildRif, quantise10).
TimeCoversHops ==
    /\ \A n \in Node : \A r \in table[n].routes : r.time >= r.hops * Granule
    /\ \A c \in Channel : \A i \in DOMAIN rifs[c] : \A rip \in rifs[c][i] :
          rip.time >= rip.hops * Granule

\* Invariant (W): a destination that loses its last time-route in a step is in
\* the withdrawn set after it (sweep, markNeighbourDown, markPortDown,
\* withdrawInp3).
WithdrawalRecorded ==
    [][\A n, d \in Node :
          HasTime(RoutesTo(table[n], d)) /\ ~HasTime(RoutesTo(table'[n], d))
              => d \in table'[n].withdrawn]_vars

\* m routes to d by time through n on p, and n has no time-route to d.
Stale(n, m, d, p) ==
    /\ \E r \in RoutesTo(table[m], d) : Timed(r) /\ r.via = <<p, n>>
    /\ d # n /\ ~HasTime(RoutesTo(table[n], d))

\* No withdrawal is forgotten: whoever still routes through a node that has lost
\* the destination is about to be told, unless their link is gone ("the
\* one-shot horizon RIP reaches each neighbour exactly once").
StaleIsToldOf ==
    \A n, m, d \in Node : \A p \in PortsBetween(n, m) :
        m # n /\ Stale(n, m, d, p) =>
            \/ d \in table[n].withdrawn
            \/ \E q \in Port : \E i \in DOMAIN rifs[<<n, m, q>>] :
                  \E rip \in rifs[<<n, m, q>>][i] : rip.dest = d /\ rip.time = Horizon

\* n and the nodes it can still reach in up to k links.
Cluster[k \in Nat, n \in Node] ==
    IF k = 0 THEN {n}
    ELSE UNION {{m} \cup {o \in Node : o # m /\ PortsBetween(m, o) # {}} :
                    m \in Cluster[k - 1, n]}

Unreachable(n, d) == d \notin Cluster[Cardinality(Node), n]

\* A destination nobody can reach any more is forgotten for good, although the
\* nodes that still believe in it teach it to each other round a ring, each
\* making the others' routes fresh again: a lap costs quality until the floor
\* refuses it, and the counts run out after that (ingest, upsertRoute, sweep).
\* The floor has to be above the quality that combineQuality no longer lowers:
\* with the default floor of 0 and a path quality of 128 or more the property
\* is false on a ring.
GhostsFade ==
    <>[](\A n, d \in Node : Unreachable(n, d) => d \notin Destinations(table[n]))

=============================================================================
