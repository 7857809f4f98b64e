------------------------------ MODULE Forwarding ------------------------------
(***************************************************************************)
(* The choice of a next hop (forwarding.ts, inp3-route-selector.ts), pure  *)
(* functions of a routing table.  A datagram carries its origin, its       *)
(* destination, the hops it may still take, and its flow: the hash of the  *)
(* origin and the circuit index and id, of which only the value matters.   *)
(***************************************************************************)
EXTENDS RoutingTable

LOCAL INSTANCE FiniteSetsExt

CONSTANTS
    MaxTimeToLive,  \* the circuits' timeToLive
    ForwardMode,    \* "best-route" or "per-flow"
    PreferInp3      \* preferInp3Routes

ASSUME ForwardingAssumption ==
    /\ MaxTimeToLive \in Nat \ {0}
    /\ ForwardMode \in {"best-route", "per-flow"} /\ PreferInp3 \in BOOLEAN

\* The route of R that comes before the others, none or one.
FirstOf(R, Before(_, _)) == {r \in R : \A s \in R : s = r \/ Before(r, s)}

\* By time, then hops, then callsign; two ports of one callsign are left in the
\* order of the list when a circuit is opened (isBetterInp3) and go by port when
\* a datagram is forwarded (selectInp3NextHop).
Quicker(r, s) ==
    \/ r.time < s.time
    \/ r.time = s.time /\ r.hops < s.hops
    \/ r.time = s.time /\ r.hops = s.hops /\ CallRank[r.via[2]] < CallRank[s.via[2]]

AsQuick(r, s) == r.time = s.time /\ r.hops = s.hops /\ r.via[2] = s.via[2]

BetterInp3(r, s) == Quicker(r, s) \/ (AsQuick(r, s) /\ Outranks(r, s))

\* selectActiveRoute: the route of a connect, none or one.
selectActiveRoute(t, d) ==
    LET R == RoutesTo(t, d)
    IN  IF PreferInp3 /\ HasTime(R) THEN FirstOf({r \in R : Timed(r)}, BetterInp3)
        ELSE FirstOf(R, Outranks)

selectInp3NextHop(R) ==
    FirstOf({r \in R : Timed(r)},
            LAMBDA r, s : Quicker(r, s) \/ (AsQuick(r, s) /\ ViaBefore(r.via, s.via)))

\* selectWeighted: each route in order takes a share of the hash as large as
\* its quality.
selectWeighted(R, hash) ==
    LET good      == {r \in R : r.quality > 0}
        share(S)  == MapThenSumSet(LAMBDA r : r.quality, S)
        before(r) == share({s \in good : Outranks(s, r)})
        target    == hash % share(good)
    IN  IF good = {} THEN {}
        ELSE {r \in good : before(r) <= target /\ target < before(r) + r.quality}

selectNextHop(R, hash) ==
    IF ForwardMode = "per-flow" THEN selectWeighted(R, hash) ELSE FirstOf(R, Outranks)

\* Mutant of OnwardRoutes: the way it came is as good as any.
OnwardOrBack(t, d, from) == RoutesTo(t, d)

\* Never the neighbour it came from, on any port.
OnwardRoutes(t, d, from) == {r \in RoutesTo(t, d) : r.via[2] # from}

\* decideForward: the route a datagram p that came from a neighbour goes on by,
\* none if its hops are used up, if it is our own or if there is none.
decideForward(p, from, me, t) ==
    LET R == OnwardRoutes(t, p.dest, from)
    IN  IF p.ttl <= 1 \/ p.origin = me THEN {}
        ELSE IF PreferInp3 /\ HasTime(R) THEN selectInp3NextHop(R)
        ELSE selectNextHop(R, p.flow)

\* The datagram as it goes on.
Forwarded(p) ==
    [p EXCEPT !.ttl = IF @ - 1 < MaxTimeToLive THEN @ - 1 ELSE MaxTimeToLive]

=============================================================================
