----------------------------- MODULE RoutingTable -----------------------------
(***************************************************************************)
(* The NET/ROM routing table of one node                                   *)
(* (src/src/netrom/routing-table.ts, quality.ts): what each call does to a  *)
(* table, as operators that take a table and return the one the call       *)
(* leaves.                                                                 *)
(*                                                                         *)
(* A destination has up to MaxRoutes routes, one per neighbour and port.   *)
(* A route has a quality, learnt from NODES broadcasts (more is better),   *)
(* and a target time, learnt from INP3 RIFs (less is better); either may   *)
(* be missing: quality 0, or a time at the horizon.                        *)
(*                                                                         *)
(* Times are counted in the wire's granule of 10 ms and one granule may    *)
(* stand for several; aliases and last-heard stamps are left out.          *)
(***************************************************************************)
EXTENDS Integers, FiniteSets

CONSTANTS
    Node,             \* callsigns
    Port,             \* port identifiers
    CallRank,         \* [Node -> Nat], the ordinal order of callsigns
    PortRank,         \* [Port -> Nat], the canonical order of ports
    PathQuality,      \* defaultNeighbourQuality
    MinQuality,
    ObsoleteInitial,  \* the obsolescence count of a fresh route
    ObsoleteMinimum,  \* routes below it are not advertised
    MaxRoutes,        \* maxRoutesPerDestination
    MaxDestinations,
    HopLimit,
    Horizon,          \* INP3_HORIZON_MS, in units of time
    Granule           \* PER_HOP_INCREMENT_MS and the wire's granule

ASSUME RankAssumption ==
    /\ CallRank \in [Node -> Nat] /\ PortRank \in [Port -> Nat]
    /\ \A m, n \in Node : CallRank[m] = CallRank[n] => m = n
    /\ \A p, q \in Port : PortRank[p] = PortRank[q] => p = q

ASSUME FiniteAssumption == IsFiniteSet(Node) /\ IsFiniteSet(Port)

ASSUME QualityAssumption ==
    PathQuality \in 0 .. 255 /\ MinQuality \in 0 .. 255

ASSUME LimitAssumption ==
    /\ ObsoleteInitial \in Nat \ {0} /\ ObsoleteMinimum \in Nat
    /\ MaxRoutes \in Nat \ {0} /\ MaxDestinations \in Nat \ {0}
    /\ HopLimit \in Nat \ {0}
    /\ Granule \in Nat \ {0}
    /\ Horizon \in Nat /\ \E k \in 2 .. Horizon : Horizon = k * Granule

Via == Port \X Node

\* RouteState, with the destination it is filed under.
Route == [dest : Node, via : Via, quality : 0 .. 255, obsolescence : 1 .. ObsoleteInitial,
          time : 0 .. Horizon, hops : Nat]

\* NodesRoutingEntry and Inp3Rip.
Entry == [dest : Node, best : Node, quality : 0 .. 255]
Rip   == [dest : Node, time : 0 .. Horizon, hops : Nat]

\* destinations, neighbours and recentlyWithdrawnSet.
Table == [routes : SUBSET Route, neighbours : SUBSET Via, withdrawn : SUBSET Node]

EmptyTable == [routes |-> {}, neighbours |-> {}, withdrawn |-> {}]

Timed(r)        == r.time < Horizon
RoutesTo(t, d)  == {r \in t.routes : r.dest = d}
Destinations(t) == {r.dest : r \in t.routes}
HasTime(R)      == \E r \in R : Timed(r)

-----------------------------------------------------------------------------
(* Quality, order and caps *)

\* combineQuality: the product in units of 1/256, rounded.
CombineQuality(a, b) == (a * b + 128) \div 256

\* quantise10: down to the wire's granule, one below the horizon at most.
Quantise(time) ==
    LET q == (time \div Granule) * Granule
    IN  IF q > Horizon - Granule THEN Horizon - Granule ELSE q

ViaBefore(v, w) == \/ PortRank[v[1]] < PortRank[w[1]]
                   \/ v[1] = w[1] /\ CallRank[v[2]] < CallRank[w[2]]

\* routeOrder: by quality, port, callsign.
Outranks(r, s) == \/ r.quality > s.quality
                  \/ r.quality = s.quality /\ ViaBefore(r.via, s.via)

\* Mutant of EnforceRouteCap: one route more is kept.
EnforceRouteCapLate(R) ==
    {r \in R : Cardinality({s \in R : Outranks(s, r)}) <= MaxRoutes}

\* The MaxRoutes best of the routes to one destination.
EnforceRouteCap(R) ==
    {r \in R : Cardinality({s \in R : Outranks(s, r)}) < MaxRoutes}

\* advertPrecedence: by quality, obsolescence, port, callsign.
Fresher(r, s) ==
    \/ r.quality > s.quality
    \/ r.quality = s.quality /\ r.obsolescence > s.obsolescence
    \/ /\ r.quality = s.quality /\ r.obsolescence = s.obsolescence
       /\ ViaBefore(r.via, s.via)

\* Which of the new destinations a full list admits depends on the order of
\* the entries in the frame: any of them, as long as those refused were
\* refused by a full list.
Admits(t, new, admitted, after) ==
    /\ Cardinality(Destinations(after)) <= MaxDestinations
    /\ \/ admitted = new
       \/ Cardinality(Destinations(t) \cup admitted) >= MaxDestinations

-----------------------------------------------------------------------------
(* NODES broadcasts: ingest *)

\* Mutant of Acceptable: the floor is not applied.
AcceptableAny(quality) == quality > 0

Acceptable(quality) == quality > 0 /\ quality >= MinQuality

\* upsertRoute on the routes R of destination d.  A quality that is too low
\* removes the route, a time-metric with it; a good one keeps the metric.
UpsertRoute(R, d, via, quality) ==
    LET old  == {r \in R : r.via = via}
        new(time, hops) ==
            [dest |-> d, via |-> via, quality |-> quality,
             obsolescence |-> ObsoleteInitial, time |-> time, hops |-> hops]
    IN  IF ~Acceptable(quality) THEN R \ old
        ELSE EnforceRouteCap((R \ old) \cup
                (IF old = {} THEN {new(Horizon, 0)}
                 ELSE {new(r.time, r.hops) : r \in old}))

\* What an entry is worth here: nothing if its sender routes through us.
Offer(me, e) ==
    IF e.best = me THEN 0 ELSE CombineQuality(e.quality, PathQuality)

\* The sender itself at the default quality, then each of its destinations.
Offers(me, via, entries) ==
    {[dest |-> via[2], quality |-> PathQuality]}
    \cup {[dest |-> e.dest, quality |-> Offer(me, e)] :
              e \in {x \in entries : x.dest # me}}

\* Destinations an ingest would add.
NewFromNodes(t, me, via, entries) ==
    {o.dest : o \in {x \in Offers(me, via, entries) :
                        Acceptable(x.quality)}} \ Destinations(t)

\* ingest: entries are those of a NODES broadcast heard from via[2] on via[1].
Ingest(t, me, via, entries, admitted) ==
    LET heard == {o \in Offers(me, via, entries) :
                     o.dest \in Destinations(t) \cup admitted}
        rest  == {r \in t.routes : \A o \in heard : o.dest # r.dest}
    IN  [t EXCEPT
            !.neighbours = @ \cup {via},
            !.routes = rest \cup UNION {UpsertRoute(RoutesTo(t, o.dest), o.dest,
                                                    via, o.quality) : o \in heard}]

\* buildAdvertisement: the best route to each destination, unless it has no
\* quality or is too old.
BuildAdvertisement(t) ==
    {[dest |-> r.dest, best |-> r.via[2], quality |-> r.quality] :
        r \in {x \in t.routes :
                  /\ x.quality > 0 /\ x.obsolescence >= ObsoleteMinimum
                  /\ \A y \in RoutesTo(t, x.dest) : ~Fresher(y, x)}}

-----------------------------------------------------------------------------
(* INP3: ingestRif, buildRif *)

Unset == -1   \* SNTT_UNSET, no measurement of the link

\* Mutant of LocalTime: no increment for the hop.
LocalTimeFree(rip, sntt) == rip.time + sntt

LocalTime(rip, sntt) == rip.time + sntt + Granule

\* A RIP at the horizon, or one this link takes there, withdraws.
Withdraws(rip, sntt) == \/ rip.time >= Horizon
                        \/ sntt # Unset /\ LocalTime(rip, sntt) >= Horizon

Learns(me, rip, sntt) ==
    /\ ~Withdraws(rip, sntt)
    /\ sntt # Unset
    /\ rip.hops + 1 <= HopLimit
    /\ rip.dest # me

\* Mutant of WithdrawInp3: the route stays, whatever its quality.
WithdrawInp3Keeps(R, via) ==
    {IF r.via = via THEN [r EXCEPT !.time = Horizon, !.hops = 0] ELSE r : r \in R}

\* withdrawInp3 on the routes R of one destination: the metric goes, and the
\* route with it unless its quality is worth keeping.
WithdrawInp3(R, via) ==
    LET old == {r \in R : r.via = via /\ Timed(r)}
    IN  (R \ old) \cup {[r EXCEPT !.time = Horizon, !.hops = 0] :
                            r \in {x \in old : Acceptable(x.quality)}}

\* upsertInp3Route on the routes R of destination d: the metric is set and the
\* route made fresh, its quality kept.
UpsertInp3Route(R, d, via, time, hops) ==
    LET old == {r \in R : r.via = via}
        new(quality) ==
            [dest |-> d, via |-> via, quality |-> quality,
             obsolescence |-> ObsoleteInitial, time |-> time, hops |-> hops]
    IN  EnforceRouteCap((R \ old) \cup
            (IF old = {} THEN {new(0)} ELSE {new(r.quality) : r \in old}))

NewFromRif(t, me, rips, sntt) ==
    {rip.dest : rip \in {x \in rips : Learns(me, x, sntt)}} \ Destinations(t)

\* What one RIP leaves of the routes to its destination.
IngestRip(R, me, via, rip, sntt) ==
    IF Withdraws(rip, sntt) THEN WithdrawInp3(R, via)
    ELSE IF Learns(me, rip, sntt)
    THEN UpsertInp3Route(R, rip.dest, via, LocalTime(rip, sntt), rip.hops + 1)
    ELSE R

\* Mutant of Forgotten: a withdrawal that a neighbour relays is not passed on.
ForgottenSilently(t, me, via, rips, sntt) == {}

\* Destinations whose last time-route the rips withdraw.
Forgotten(t, me, via, rips, sntt) ==
    {rip.dest : rip \in {x \in rips :
        /\ Withdraws(x, sntt)
        /\ \E r \in RoutesTo(t, x.dest) : r.via = via /\ Timed(r)
        /\ ~HasTime(WithdrawInp3(RoutesTo(t, x.dest), via))}}

\* ingestRif: rips are those of a RIF from via[2] on via[1], over a link whose
\* transport time is sntt.
IngestRif(t, me, via, rips, sntt, admitted) ==
    LET heard == {rip \in rips : rip.dest \in Destinations(t) \cup admitted}
        rest  == {r \in t.routes : \A rip \in heard : rip.dest # r.dest}
    IN  [t EXCEPT
            !.routes = rest \cup UNION {IngestRip(RoutesTo(t, rip.dest), me, via, rip, sntt) :
                                           rip \in heard},
            !.withdrawn = @ \cup Forgotten(t, me, via, rips, sntt)]

\* The route a RIF advertises of each destination: the first of the quickest.
QuickestRoutes(t, me) ==
    {r \in t.routes : /\ Timed(r) /\ r.dest # me
                      /\ \A s \in RoutesTo(t, r.dest) : r.time <= s.time}

Picks(t, me) ==
    LET quickest == QuickestRoutes(t, me)
    IN  {P \in SUBSET quickest :
            /\ \A r \in quickest : \E s \in P : s.dest = r.dest
            /\ \A r, s \in P : r.dest = s.dest => r = s}

\* Poison reverse: the neighbour is a next hop of any kept route.
Poisoned(t, r, to) == \E s \in RoutesTo(t, r.dest) : s.via[2] = to

\* buildRif toward a neighbour: this node, the picked routes, and what was
\* withdrawn and is not among them.
BuildRif(t, me, to, picked, withdrawn) ==
    {[dest |-> me, time |-> 0, hops |-> 0]}
    \cup {[dest |-> r.dest, hops |-> r.hops,
           time |-> IF Poisoned(t, r, to) THEN Horizon ELSE Quantise(r.time)] :
              r \in picked}
    \cup {[dest |-> d, time |-> Horizon, hops |-> 0] :
              d \in withdrawn \ ({me} \cup {r.dest : r \in picked})}

-----------------------------------------------------------------------------
(* Loss: sweep, markNeighbourDown, markPortDown *)

\* Mutant of Lost: the question is asked before the routes go.
LostEarly(t, gone) == {d \in Node : /\ HasTime({r \in gone : r.dest = d})
                                    /\ ~HasTime(RoutesTo(t, d))}

\* Destinations whose last time-route goes with the routes gone.
Lost(t, gone) == {d \in Node : /\ HasTime({r \in gone : r.dest = d})
                               /\ ~HasTime(RoutesTo(t, d) \ gone)}

\* The table without the routes gone and the neighbours left, nor any neighbour
\* that is then on no route (pruneOrphanNeighbours).
Without(t, gone, left) ==
    LET routes == t.routes \ gone
    IN  [routes     |-> routes,
         neighbours |-> (t.neighbours \ left) \cap {r.via : r \in routes},
         withdrawn  |-> t.withdrawn \cup Lost(t, gone)]

\* Mutant of Sweep: a route goes only once its count is below zero.
SweepLate(t) ==
    LET u == Without(t, {r \in t.routes : r.obsolescence < 1}, {})
    IN  [u EXCEPT !.routes = {[r EXCEPT !.obsolescence = @ - 1] : r \in u.routes}]

\* sweep: every count goes down; routes at zero go.
Sweep(t) ==
    LET u == Without(t, {r \in t.routes : r.obsolescence <= 1}, {})
    IN  [u EXCEPT !.routes = {[r EXCEPT !.obsolescence = @ - 1] : r \in u.routes}]

MarkNeighbourDown(t, via) ==
    Without(t, {r \in t.routes : r.via = via}, {via})

MarkNeighbourDownAllPorts(t, n) ==
    Without(t, {r \in t.routes : r.via[2] = n}, Port \X {n})

\* Mutant of MarkPortDown: only the routes to the neighbours themselves go.
MarkPortDownDirect(t, p) ==
    Without(t, {r \in t.routes : r.via[1] = p /\ r.dest = r.via[2]}, {p} \X Node)

MarkPortDown(t, p) ==
    Without(t, {r \in t.routes : r.via[1] = p}, {p} \X Node)

-----------------------------------------------------------------------------
(* Choosing a route: snapshot, connector.ts *)

\* The first of a destination's routes in the snapshot.
BestRoute(t, d) == {r \in RoutesTo(t, d) :
                       \A s \in RoutesTo(t, d) : s = r \/ Outranks(r, s)}

\* chosenInterlinkPort: the port of the best route to n if it is direct, else
\* the first port n was heard on; no port if there is none.
ChosenPort(t, n) ==
    LET direct == {r.via[1] : r \in {x \in BestRoute(t, n) : x.via[2] = n}}
        heard  == {v[1] : v \in {w \in t.neighbours : w[2] = n}}
    IN  IF direct # {} THEN direct
        ELSE {p \in heard : \A q \in heard : PortRank[p] <= PortRank[q]}

=============================================================================
