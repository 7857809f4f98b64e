------------------------- MODULE RoutingNetworkProofs -------------------------
(***************************************************************************)
(* Proofs about RoutingNetwork, for any set of nodes, ports and links and   *)
(* any caps and limits: tables and what is in flight stay well formed      *)
(* (TypeOK), the routes kept are sound (RoutesAreSound), go through listed *)
(* neighbours (NeighboursListed), and carry times that cover their hops    *)
(* (TimeCoversHops).                                                       *)
(*                                                                         *)
(* The inductive invariant says of each table that its routes are Good and *)
(* Listed, and of each RIF in flight that it has one RIP per destination   *)
(* and times that cover hops.  The lemmas say that each operation on a     *)
(* table keeps it so.                                                      *)
(*                                                                         *)
(* The second part shows, for any finite set of nodes and ports, that what *)
(* a node loses is withdrawn (WithinCaps, WithdrawalRecorded,              *)
(* StaleIsToldOf).                                                         *)
(***************************************************************************)
EXTENDS RoutingNetwork, FiniteSetTheorems, NaturalsInduction, TLAPS

Covers(x) == x.time >= x.hops * Granule

\* Routes as a table of n may keep them.
Good(R, n) ==
    /\ R \in SUBSET Route
    /\ \A r \in R : RouteIsSound(n, r) /\ Covers(r)
    /\ \A r, s \in R : r.dest = s.dest /\ r.via = s.via => r = s

\* Good routes, all to d.
GoodTo(R, n, d) == Good(R, n) /\ \A r \in R : r.dest = d

\* S is what a call left of R, routes of n to d: it adds no via, or the cap was
\* applied.
CapApplied(R, S, n, d) ==
    \/ \A s \in S : \E r \in R : r.via = s.via
    \/ \E Q : GoodTo(Q, n, d) /\ S = EnforceRouteCap(Q)

Listed(R, N) == \A r \in R : r.quality > 0 => r.via \in N

GoodTable(t, n) == /\ t \in Table
                   /\ Good(t.routes, n)
                   /\ Listed(t.routes, t.neighbours)

\* A call that turned table t of n into u kept to the cap.
CapsApplied(t, u, n) ==
    \A d \in Node : CapApplied(RoutesTo(t, d), RoutesTo(u, d), n, d)

\* A RIF in flight: one RIP per destination, each covering its hops.
GoodRif(rips) == /\ rips \in SUBSET Rip
                 /\ \A x \in rips : Covers(x)
                 /\ \A x, y \in rips : x.dest = y.dest => x = y

TablesGood == /\ table \in [Node -> Table]
              /\ \A n \in Node : GoodTable(table[n], n)

LinksTyped == up \subseteq InRange /\ detached \subseteq Node \X Port

RifsGood == /\ rifs \in [Channel -> Seq(SUBSET Rip)]
            /\ \A c \in Channel : \A i \in DOMAIN rifs[c] : GoodRif(rifs[c][i])

Inv == TablesGood /\ LinksTyped /\ RifsGood

-----------------------------------------------------------------------------
(* Arithmetic *)

\* Combining two qualities gives a quality.
LEMMA CombineType ==
    \A a, b \in 0 .. 255 : CombineQuality(a, b) \in 0 .. 255
<1> SUFFICES ASSUME NEW a \in 0 .. 255, NEW b \in 0 .. 255
             PROVE  CombineQuality(a, b) \in 0 .. 255
    OBVIOUS
<1>1. a * b \in Nat /\ a * b <= 255 * 255
    BY Z3
<1>2. \A x \in Nat : x <= 255 * 255 => (x + 128) \div 256 \in 0 .. 255
    BY Z3
<1> QED BY <1>1, <1>2, SMTT(30) DEF CombineQuality

\* A time below the horizon that covers its hops still does once quantised,
\* and stays below the horizon.
LEMMA QuantiseCovers ==
    \A time \in 0 .. Horizon, hops \in Nat :
        time < Horizon /\ time >= hops * Granule =>
            /\ Quantise(time) \in 0 .. Horizon
            /\ Quantise(time) < Horizon
            /\ Quantise(time) >= hops * Granule
<1> SUFFICES ASSUME NEW time \in 0 .. Horizon, NEW hops \in Nat,
                    time < Horizon, time >= hops * Granule
             PROVE  /\ Quantise(time) \in 0 .. Horizon
                    /\ Quantise(time) < Horizon
                    /\ Quantise(time) >= hops * Granule
    OBVIOUS
<1> DEFINE w == time \div Granule
<1>1. Granule \in Nat /\ Granule > 0 /\ Horizon \in Nat
    BY LimitAssumption
<1>2. w \in Nat /\ w * Granule <= time /\ time < (w + 1) * Granule
    BY <1>1, Z3
<1>3. PICK k \in 2 .. Horizon : Horizon = k * Granule
    BY LimitAssumption
<1>4. hops <= w
    <2> SUFFICES ASSUME w + 1 <= hops PROVE FALSE
        BY <1>2
    <2>1. (w + 1) * Granule <= hops * Granule
        BY <1>1, <1>2, Z3
    <2> QED BY <2>1, <1>2, <1>1
<1>5. w + 1 <= k
    <2> SUFFICES ASSUME k <= w PROVE FALSE
        BY <1>2, <1>3
    <2>1. k * Granule <= w * Granule
        BY <1>1, <1>2, <1>3, Z3
    <2> QED BY <2>1, <1>2, <1>3, <1>1
<1>6. hops * Granule <= w * Granule
    BY <1>1, <1>2, <1>4, Z3
<1>7. w * Granule <= Horizon - Granule
    <2>1. (w + 1) * Granule <= k * Granule
        BY <1>1, <1>2, <1>3, <1>5, Z3
    <2>2. (w + 1) * Granule = w * Granule + Granule
        BY <1>1, <1>2, Z3
    <2> QED BY <2>1, <2>2, <1>1, <1>2, <1>3
<1>8. Quantise(time) = w * Granule
    BY <1>7, <1>1, <1>2 DEF Quantise
<1> QED BY <1>1, <1>2, <1>6, <1>7, <1>8

-----------------------------------------------------------------------------
(* Routes to one destination *)

\* The cap only takes routes away.
LEMMA CapShrinks == \A R : EnforceRouteCap(R) \subseteq R
BY DEF EnforceRouteCap

\* Any of a set of good routes are good.
LEMMA GoodShrinks ==
    ASSUME NEW R, NEW S \in SUBSET R, NEW n, Good(R, n)
    PROVE  Good(S, n)
BY DEF Good

\* A NODES entry leaves good routes to its destination.
LEMMA UpsertRouteGood ==
    ASSUME NEW n \in Node, NEW d \in Node \ {n}, NEW via \in Via, via[2] # n,
           NEW quality \in 0 .. 255, NEW R, GoodTo(R, n, d),
           NEW N, via \in N, Listed(R, N)
    PROVE  /\ GoodTo(UpsertRoute(R, d, via, quality), n, d)
           /\ Listed(UpsertRoute(R, d, via, quality), N)
           /\ CapApplied(R, UpsertRoute(R, d, via, quality), n, d)
<1> DEFINE old  == {r \in R : r.via = via}
           make(time, hops) ==
               [dest |-> d, via |-> via, quality |-> quality,
                obsolescence |-> ObsoleteInitial, time |-> time, hops |-> hops]
           new  == make(Horizon, 0)
           kept == {make(r.time, r.hops) : r \in old}
           all  == (R \ old) \cup (IF old = {} THEN {new} ELSE kept)
<1>a. ObsoleteInitial \in 1 .. ObsoleteInitial /\ Horizon \in 0 .. Horizon
      /\ 0 \in Nat /\ Horizon >= 0 * Granule
    BY LimitAssumption, Z3
<1>1. GoodTo(R \ old, n, d) /\ Listed(R \ old, N)
    BY DEF GoodTo, Good, Listed
<1>2. CASE ~Acceptable(quality)
    <2>1. UpsertRoute(R, d, via, quality) = R \ old
        BY <1>2 DEF UpsertRoute
    <2> QED BY <2>1, <1>1 DEF CapApplied
<1>3. CASE Acceptable(quality)
    <2>0. quality > 0
        BY <1>3 DEF Acceptable
    <2>1. UpsertRoute(R, d, via, quality) = EnforceRouteCap(all)
        BY <1>3 DEF UpsertRoute
    <2>2. \A r \in old : /\ r \in Route /\ r.dest = d /\ RouteIsSound(n, r) /\ Covers(r)
                       /\ \A s \in old : r = s
        BY DEF GoodTo, Good
    <2>3. \A k \in kept : \E r \in old :
             k = [dest |-> d, via |-> via, quality |-> quality,
                  obsolescence |-> ObsoleteInitial, time |-> r.time, hops |-> r.hops]
        OBVIOUS
    <2>4. new \in Route /\ new.dest = d /\ RouteIsSound(n, new) /\ Covers(new)
        BY <1>a, <2>0 DEF Route, RouteIsSound, Covers, Timed
    <2>5. \A k \in kept : /\ k \in Route /\ k.dest = d /\ k.via = via
                          /\ RouteIsSound(n, k) /\ Covers(k)
        <3> SUFFICES ASSUME NEW k \in kept
                     PROVE  /\ k \in Route /\ k.dest = d /\ k.via = via
                            /\ RouteIsSound(n, k) /\ Covers(k)
            OBVIOUS
        <3>1. PICK r \in old :
                 k = [dest |-> d, via |-> via, quality |-> quality,
                      obsolescence |-> ObsoleteInitial, time |-> r.time, hops |-> r.hops]
            BY <2>3
        <3>2. r \in Route /\ RouteIsSound(n, r) /\ Covers(r)
            BY <2>2
        <3> QED BY <1>a, <2>0, <3>1, <3>2 DEF Route, RouteIsSound, Covers, Timed
    <2>6. \A k, l \in kept : k = l
        BY <2>2, <2>3
    <2>7. \A r \in all : r \in R \ old \/ r = new \/ r \in kept
        OBVIOUS
    <2>8. \A r \in all : r.via = via => r \notin R \ old
        OBVIOUS
    <2>9. GoodTo(all, n, d)
        <3>0. new.via = via
            OBVIOUS
        <3> HIDE DEF new, kept
        <3>1. CASE old = {}
            BY <3>0, <3>1, <1>1, <2>4, <2>8 DEF GoodTo, Good
        <3>2. CASE old # {}
            BY <3>2, <1>1, <2>5, <2>6, <2>8 DEF GoodTo, Good
        <3> QED BY <3>1, <3>2
    <2>10. Listed(all, N)
        <3>1. new.via = via
            OBVIOUS
        <3> HIDE DEF new, kept
        <3> QED BY <1>1, <2>5, <3>1 DEF Listed
    <2> HIDE DEF all
    <2>11. CapApplied(R, UpsertRoute(R, d, via, quality), n, d)
        BY <2>1, <2>9 DEF CapApplied
    <2> QED BY <2>1, <2>9, <2>10, <2>11, CapShrinks DEF GoodTo, Good, Listed
<1> QED BY <1>2, <1>3

\* What upsertInp3Route puts under the cap.
Uncapped(R, d, via, time, hops) ==
    LET old == {r \in R : r.via = via}
        new(quality) ==
            [dest |-> d, via |-> via, quality |-> quality,
             obsolescence |-> ObsoleteInitial, time |-> time, hops |-> hops]
    IN  (R \ old) \cup (IF old = {} THEN {new(0)} ELSE {new(r.quality) : r \in old})

\* A RIP that is learnt leaves good routes to its destination.
LEMMA UpsertInp3RouteGood ==
    ASSUME NEW n \in Node, NEW d \in Node \ {n}, NEW via \in Via, via[2] # n,
           NEW time \in 0 .. Horizon, time < Horizon,
           NEW hops \in 1 .. HopLimit, time >= hops * Granule,
           NEW R, GoodTo(R, n, d), NEW N, Listed(R, N)
    PROVE  /\ GoodTo(UpsertInp3Route(R, d, via, time, hops), n, d)
           /\ Listed(UpsertInp3Route(R, d, via, time, hops), N)
           /\ CapApplied(R, UpsertInp3Route(R, d, via, time, hops), n, d)
           /\ GoodTo(Uncapped(R, d, via, time, hops), n, d)
<1> DEFINE old  == {r \in R : r.via = via}
           make(quality) ==
               [dest |-> d, via |-> via, quality |-> quality,
                obsolescence |-> ObsoleteInitial, time |-> time, hops |-> hops]
           new  == make(0)
           kept == {make(r.quality) : r \in old}
           all  == (R \ old) \cup (IF old = {} THEN {new} ELSE kept)
<1>a. /\ ObsoleteInitial \in 1 .. ObsoleteInitial /\ hops \in Nat /\ 0 \in 0 .. 255
      /\ ~(0 > 0)
    BY LimitAssumption
<1>1. GoodTo(R \ old, n, d) /\ Listed(R \ old, N)
    BY DEF GoodTo, Good, Listed
<1>2. \A r \in old : /\ r \in Route /\ r.dest = d /\ \A s \in old : r = s
                   /\ r.quality > 0 => via \in N
    BY DEF GoodTo, Good, Listed
<1>3. \A k \in kept : \E r \in old :
         k = [dest |-> d, via |-> via, quality |-> r.quality,
              obsolescence |-> ObsoleteInitial, time |-> time, hops |-> hops]
    OBVIOUS
<1>4. /\ new \in Route /\ new.dest = d /\ RouteIsSound(n, new) /\ Covers(new)
      /\ ~(new.quality > 0)
    BY <1>a DEF Route, RouteIsSound, Covers, Timed
<1>5. \A k \in kept : /\ k \in Route /\ k.dest = d /\ k.via = via
                      /\ RouteIsSound(n, k) /\ Covers(k)
                      /\ k.quality > 0 => via \in N
    <2> SUFFICES ASSUME NEW k \in kept
                 PROVE  /\ k \in Route /\ k.dest = d /\ k.via = via
                        /\ RouteIsSound(n, k) /\ Covers(k)
                        /\ k.quality > 0 => via \in N
        OBVIOUS
    <2>1. PICK r \in old :
             k = [dest |-> d, via |-> via, quality |-> r.quality,
                  obsolescence |-> ObsoleteInitial, time |-> time, hops |-> hops]
        BY <1>3
    <2>2. r \in Route /\ (r.quality > 0 => via \in N)
        BY DEF GoodTo, Good, Listed
    <2> QED BY <1>a, <2>1, <2>2 DEF Route, RouteIsSound, Covers, Timed
<1>6. \A k, l \in kept : k = l
    <2> SUFFICES ASSUME NEW k \in kept, NEW l \in kept PROVE k = l
        OBVIOUS
    <2>1. PICK r \in old : k = make(r.quality)
        OBVIOUS
    <2>2. PICK q \in old : l = make(q.quality)
        OBVIOUS
    <2>3. r = q
        BY DEF GoodTo, Good
    <2> QED BY <2>1, <2>2, <2>3
<1>7. \A r \in all : r.via = via => r \notin R \ old
    OBVIOUS
<1>8. GoodTo(all, n, d) /\ Listed(all, N)
    <2>0. new.via = via
        OBVIOUS
    <2> HIDE DEF new, kept
    <2>1. CASE old = {}
        BY <2>0, <2>1, <1>1, <1>4, <1>7 DEF GoodTo, Good, Listed
    <2>2. CASE old # {}
        BY <2>2, <1>1, <1>5, <1>6, <1>7 DEF GoodTo, Good, Listed
    <2> QED BY <2>1, <2>2
<1>9. UpsertInp3Route(R, d, via, time, hops) = EnforceRouteCap(all)
    BY DEF UpsertInp3Route
<1>10. Uncapped(R, d, via, time, hops) = all
    BY DEF Uncapped
<1> HIDE DEF all
<1>11. CapApplied(R, UpsertInp3Route(R, d, via, time, hops), n, d)
    BY <1>8, <1>9 DEF CapApplied
<1> QED BY <1>8, <1>9, <1>10, <1>11, CapShrinks DEF GoodTo, Good, Listed

\* A withdrawal leaves good routes.
LEMMA WithdrawInp3Good ==
    ASSUME NEW n \in Node, NEW d \in Node, NEW via,
           NEW R, GoodTo(R, n, d), NEW N, Listed(R, N)
    PROVE  /\ GoodTo(WithdrawInp3(R, via), n, d) /\ Listed(WithdrawInp3(R, via), N)
           /\ CapApplied(R, WithdrawInp3(R, via), n, d)
<1> DEFINE old == {r \in R : r.via = via /\ Timed(r)}
           cut == {[r EXCEPT !.time = Horizon, !.hops = 0] :
                       r \in {x \in old : Acceptable(x.quality)}}
<1>a. /\ Horizon \in 0 .. Horizon /\ 0 \in Nat /\ Horizon >= 0 * Granule
      /\ ~(Horizon < Horizon)
    BY LimitAssumption, Z3
<1>1. \A k \in cut : \E r \in old :
         /\ r.quality > 0
         /\ k = [r EXCEPT !.time = Horizon, !.hops = 0]
    BY DEF Acceptable
<1>2. \A k \in cut : \E r \in old :
         /\ k \in Route /\ k.dest = r.dest /\ k.via = r.via /\ k.quality = r.quality
         /\ RouteIsSound(n, k) /\ Covers(k)
         /\ k = [r EXCEPT !.time = Horizon, !.hops = 0]
    <2> SUFFICES ASSUME NEW k \in cut
                 PROVE  \E r \in old :
                           /\ k \in Route /\ k.dest = r.dest /\ k.via = r.via
                           /\ k.quality = r.quality
                           /\ RouteIsSound(n, k) /\ Covers(k)
                           /\ k = [r EXCEPT !.time = Horizon, !.hops = 0]
        OBVIOUS
    <2>1. PICK r \in old : /\ r.quality > 0
                           /\ k = [r EXCEPT !.time = Horizon, !.hops = 0]
        BY <1>1
    <2>2. r \in Route /\ RouteIsSound(n, r)
        BY DEF GoodTo, Good
    <2> HIDE DEF old
    <2>3. k \in Route /\ k.dest = r.dest /\ k.via = r.via /\ k.quality = r.quality
          /\ k.time = Horizon /\ k.hops = 0
        BY <2>1, <2>2, <1>a DEF Route
    <2>4. RouteIsSound(n, k)
        <3>1. r.dest # n /\ r.via[2] # n
            BY <2>2 DEF RouteIsSound
        <3>2. ~Timed(k)
            BY <2>3, <1>a DEF Timed
        <3>3. k.dest # n /\ k.via[2] # n /\ k.quality > 0
            BY <2>1, <2>3, <3>1
        <3> QED BY <2>3, <3>2, <3>3 DEF RouteIsSound
    <2>5. Covers(k)
        BY <2>3, <1>a DEF Covers
    <2> QED BY <2>1, <2>3, <2>4, <2>5
<1> HIDE DEF cut
<1>3. \A k \in cut : \E r \in R : r \in old /\ k.via = r.via /\ k.dest = r.dest
    BY <1>2
<1>4. \A k \in cut, r \in R \ old : ~(k.via = r.via)
    BY <1>3 DEF GoodTo, Good
<1>5. \A k, l \in cut : k.via = l.via => k = l
    <2> SUFFICES ASSUME NEW k \in cut, NEW l \in cut, k.via = l.via PROVE k = l
        OBVIOUS
    <2>1. PICK r \in old : r.via = k.via /\ k = [r EXCEPT !.time = Horizon, !.hops = 0]
        BY <1>2
    <2>2. PICK q \in old : q.via = l.via /\ l = [q EXCEPT !.time = Horizon, !.hops = 0]
        BY <1>2
    <2>3. r = q
        BY <2>1, <2>2 DEF GoodTo, Good
    <2> QED BY <2>1, <2>2, <2>3
<1>6. GoodTo((R \ old) \cup cut, n, d)
    BY <1>2, <1>4, <1>5 DEF GoodTo, Good
<1>7. Listed((R \ old) \cup cut, N)
    BY <1>2 DEF Listed
<1>8. WithdrawInp3(R, via) = (R \ old) \cup cut
    BY DEF WithdrawInp3, cut
<1>9. CapApplied(R, (R \ old) \cup cut, n, d)
    BY <1>3 DEF CapApplied
<1> QED BY <1>6, <1>7, <1>8, <1>9

-----------------------------------------------------------------------------
(* Operations on a table *)

\* The routes R, with F[x] for those to the destination of x, for each x in X.
Merge(R, X, F) == {r \in R : \A x \in X : x.dest # r.dest} \cup UNION {F[x] : x \in X}

\* Merged routes are good if each F[x] is.
LEMMA MergeGood ==
    ASSUME NEW n \in Node, NEW R, Good(R, n), NEW N, Listed(R, N),
           NEW X, \A x, y \in X : x.dest = y.dest => x = y,
           NEW F, \A x \in X : /\ GoodTo(F[x], n, x.dest) /\ Listed(F[x], N)
                               /\ CapApplied({r \in R : r.dest = x.dest}, F[x], n, x.dest)
    PROVE  /\ Good(Merge(R, X, F), n) /\ Listed(Merge(R, X, F), N)
           /\ \A d : CapApplied({r \in R : r.dest = d},
                               {r \in Merge(R, X, F) : r.dest = d}, n, d)
<1> DEFINE rest == {r \in R : \A x \in X : x.dest # r.dest}
           all  == rest \cup UNION {F[x] : x \in X}
<1>1. \A r \in all : r \in rest \/ \E x \in X : r \in F[x]
    OBVIOUS
<1>2. \A x \in X : \A r \in F[x] :
         r \in Route /\ RouteIsSound(n, r) /\ Covers(r) /\ r.dest = x.dest
    BY DEF GoodTo, Good
<1>3. all \in SUBSET Route /\ \A r \in all : RouteIsSound(n, r) /\ Covers(r)
    BY <1>1, <1>2 DEF Good
<1>4. ASSUME NEW r \in all, NEW s \in all, r.dest = s.dest, r.via = s.via
      PROVE  r = s
    <2>1. CASE r \in rest /\ s \in rest
        BY <2>1, <1>4 DEF Good
    <2>2. CASE \E x \in X : r \in F[x]
        <3>1. PICK x \in X : r \in F[x]
            BY <2>2
        <3>2. s \notin rest
            BY <1>2, <1>4, <3>1
        <3>3. PICK y \in X : s \in F[y]
            BY <1>1, <3>2
        <3>4. x = y
            BY <1>2, <1>4, <3>1, <3>3
        <3> QED BY <1>4, <3>1, <3>3, <3>4 DEF GoodTo, Good
    <2>3. CASE r \in rest /\ \E x \in X : s \in F[x]
        BY <1>2, <1>4, <2>3
    <2> QED BY <1>1, <2>1, <2>2, <2>3
<1>5. Listed(all, N)
    BY <1>1 DEF Listed
<1>6. ASSUME NEW d
      PROVE  CapApplied({r \in R : r.dest = d}, {r \in all : r.dest = d}, n, d)
    <2>1. CASE \E x \in X : x.dest = d
        <3>1. PICK x \in X : x.dest = d
            BY <2>1
        <3>2. {r \in all : r.dest = d} = F[x]
            BY <1>1, <1>2, <3>1
        <3> QED BY <3>1, <3>2
    <2>2. CASE ~\E x \in X : x.dest = d
        <3>1. {r \in all : r.dest = d} = {r \in R : r.dest = d}
            BY <1>2, <2>2
        <3> QED BY <3>1 DEF CapApplied
    <2> QED BY <2>1, <2>2
<1> HIDE DEF all
<1>7. Good(all, n)
    BY <1>3, <1>4 DEF Good
<1> QED BY <1>5, <1>6, <1>7 DEF all, Merge

GoodEntries(entries, n) ==
    /\ entries \in SUBSET Entry
    /\ \A e \in entries : e.dest # n
    /\ \A e, f \in entries : e.dest = f.dest => e = f

\* Of two routes neither of which is fresher, both are the same.
LEMMA FresherTotal ==
    \A r, s \in Route : ~Fresher(r, s) /\ ~Fresher(s, r) => r.via = s.via
<1> SUFFICES ASSUME NEW r \in Route, NEW s \in Route, ~Fresher(r, s), ~Fresher(s, r)
             PROVE  r.via = s.via
    OBVIOUS
<1>1. /\ r.quality \in Int /\ s.quality \in Int
      /\ r.obsolescence \in Int /\ s.obsolescence \in Int
      /\ r.via \in Port \X Node /\ s.via \in Port \X Node
    BY LimitAssumption DEF Route, Via
<1>2. ~ViaBefore(r.via, s.via) /\ ~ViaBefore(s.via, r.via)
    BY <1>1 DEF Fresher
<1>3. PortRank[r.via[1]] = PortRank[s.via[1]]
    BY <1>1, <1>2, RankAssumption DEF ViaBefore
<1>4. r.via[1] = s.via[1]
    BY <1>1, <1>3, RankAssumption
<1>5. CallRank[r.via[2]] = CallRank[s.via[2]]
    BY <1>1, <1>2, <1>4, RankAssumption DEF ViaBefore
<1>6. r.via[2] = s.via[2]
    BY <1>1, <1>5, RankAssumption
<1> QED BY <1>1, <1>4, <1>6

\* A table advertises one entry per destination, and never this node.
LEMMA AdvertisementGood ==
    ASSUME NEW n \in Node, NEW t, GoodTable(t, n)
    PROVE  GoodEntries(BuildAdvertisement(t), n)
<1> DEFINE best == {x \in t.routes :
                       /\ x.quality > 0 /\ x.obsolescence >= ObsoleteMinimum
                       /\ \A y \in RoutesTo(t, x.dest) : ~Fresher(y, x)}
           entry(r) == [dest |-> r.dest, best |-> r.via[2], quality |-> r.quality]
<1>1. \A r \in best : r \in Route /\ r.dest # n
    BY DEF GoodTable, Good, RouteIsSound
<1>2. \A r \in best : entry(r) \in Entry /\ entry(r).dest # n
    BY <1>1 DEF Route, Via, Entry
<1>3. \A r, s \in best : r.dest = s.dest => r = s
    <2> SUFFICES ASSUME NEW r \in best, NEW s \in best, r.dest = s.dest PROVE r = s
        OBVIOUS
    <2>1. ~Fresher(r, s) /\ ~Fresher(s, r)
        BY DEF RoutesTo
    <2>2. r.via = s.via
        BY <1>1, <2>1, FresherTotal
    <2> QED BY <2>2 DEF GoodTable, Good
<1>4. BuildAdvertisement(t) = {entry(r) : r \in best}
    BY DEF BuildAdvertisement
<1> HIDE DEF best
<1> QED BY <1>2, <1>3, <1>4 DEF GoodEntries

\* What is heard of a frame is part of what was advertised.
LEMMA HeardAdvertised ==
    ASSUME NEW entries, NEW frame \in buildNodesBroadcast(entries)
    PROVE  parseNodesBroadcast(frame) \subseteq entries
BY DEF buildNodesBroadcast, parseNodesBroadcast

\* Part of a good advertisement is good.
LEMMA HeardGood ==
    ASSUME NEW n \in Node, NEW t, GoodTable(t, n),
           NEW frame \in buildNodesBroadcast(BuildAdvertisement(t))
    PROVE  GoodEntries(parseNodesBroadcast(frame), n)
<1>1. parseNodesBroadcast(frame) \subseteq BuildAdvertisement(t)
    BY HeardAdvertised
<1>2. GoodEntries(BuildAdvertisement(t), n)
    BY AdvertisementGood
<1> QED BY <1>1, <1>2 DEF GoodEntries

\* A broadcast leaves the table good.
LEMMA IngestGood ==
    ASSUME NEW n \in Node, NEW t, GoodTable(t, n),
           NEW via \in Via, via[2] # n,
           NEW entries, GoodEntries(entries, via[2]), NEW admitted
    PROVE  /\ GoodTable(Ingest(t, n, via, entries, admitted), n)
           /\ CapsApplied(t, Ingest(t, n, via, entries, admitted), n)
<1> DEFINE heard == {o \in Offers(n, via, entries) :
                        o.dest \in Destinations(t) \cup admitted}
           rest  == {r \in t.routes : \A o \in heard : o.dest # r.dest}
           N     == t.neighbours \cup {via}
           F     == [o \in heard |-> UpsertRoute(RoutesTo(t, o.dest), o.dest, via, o.quality)]
           all   == rest \cup UNION {F[o] : o \in heard}
<1>1. \A o \in Offers(n, via, entries) :
         /\ o.dest \in Node \ {n} /\ o.quality \in 0 .. 255
         /\ \/ o = [dest |-> via[2], quality |-> PathQuality]
            \/ \E e \in entries : o = [dest |-> e.dest, quality |-> Offer(n, e)]
    <2> SUFFICES ASSUME NEW o \in Offers(n, via, entries)
                 PROVE  /\ o.dest \in Node \ {n} /\ o.quality \in 0 .. 255
                        /\ \/ o = [dest |-> via[2], quality |-> PathQuality]
                           \/ \E e \in entries : o = [dest |-> e.dest, quality |-> Offer(n, e)]
        OBVIOUS
    <2>1. CASE o = [dest |-> via[2], quality |-> PathQuality]
        BY <2>1, QualityAssumption DEF Via
    <2>2. CASE \E e \in {x \in entries : x.dest # n} :
                   o = [dest |-> e.dest, quality |-> Offer(n, e)]
        <3>1. PICK e \in entries : /\ e.dest # n
                                   /\ o = [dest |-> e.dest, quality |-> Offer(n, e)]
            BY <2>2
        <3>2. e.dest \in Node /\ e.quality \in 0 .. 255
            BY SMTT(30) DEF GoodEntries, Entry
        <3>3. CombineQuality(e.quality, PathQuality) \in 0 .. 255
            BY <3>2, QualityAssumption, CombineType
        <3>4. Offer(n, e) \in 0 .. 255
            BY <3>3 DEF Offer
        <3> QED BY <3>1, <3>2, <3>4
    <2> QED BY <2>1, <2>2 DEF Offers
<1>2. \A o, u \in heard : o.dest = u.dest => o = u
    BY <1>1 DEF GoodEntries
<1>3. Good(t.routes, n) /\ Listed(t.routes, N)
    BY DEF GoodTable, Listed
<1>4. \A o \in heard : /\ GoodTo(F[o], n, o.dest) /\ Listed(F[o], N)
                       /\ CapApplied(RoutesTo(t, o.dest), F[o], n, o.dest)
    <2> SUFFICES ASSUME NEW o \in heard
                 PROVE  /\ GoodTo(F[o], n, o.dest) /\ Listed(F[o], N)
                        /\ CapApplied(RoutesTo(t, o.dest), F[o], n, o.dest)
        OBVIOUS
    <2>1. GoodTo(RoutesTo(t, o.dest), n, o.dest) /\ Listed(RoutesTo(t, o.dest), N)
        BY <1>3 DEF RoutesTo, GoodTo, Good, Listed
    <2>2. o.dest \in Node \ {n} /\ o.quality \in 0 .. 255 /\ via \in N
        BY <1>1
    <2>3. F[o] = UpsertRoute(RoutesTo(t, o.dest), o.dest, via, o.quality)
        OBVIOUS
    <2> HIDE DEF heard, N, F
    <2> QED BY <2>1, <2>2, <2>3, UpsertRouteGood, ZenonT(60)
<1>5. /\ Good(all, n) /\ Listed(all, N)
      /\ \A d : CapApplied(RoutesTo(t, d), {r \in all : r.dest = d}, n, d)
    <2>1. all = Merge(t.routes, heard, F)
        BY DEF Merge
    <2>2. \A d : RoutesTo(t, d) = {r \in t.routes : r.dest = d}
        BY DEF RoutesTo
    <2> HIDE DEF heard, N, F, all
    <2>3. \A o \in heard : /\ GoodTo(F[o], n, o.dest) /\ Listed(F[o], N)
                           /\ CapApplied({r \in t.routes : r.dest = o.dest}, F[o], n, o.dest)
        BY <1>2, <1>3, <1>4, <2>2
    <2>4. /\ Good(Merge(t.routes, heard, F), n) /\ Listed(Merge(t.routes, heard, F), N)
          /\ \A d : CapApplied({r \in t.routes : r.dest = d},
                              {r \in Merge(t.routes, heard, F) : r.dest = d}, n, d)
        BY <1>2, <1>3, <1>4, <2>3, MergeGood
    <2> QED BY <2>1, <2>2, <2>4
<1>6. Ingest(t, n, via, entries, admitted) = [t EXCEPT !.neighbours = N, !.routes = all]
    BY DEF Ingest
<1>7. N \in SUBSET Via /\ all \in SUBSET Route /\ t \in Table
    BY <1>5 DEF GoodTable, Table, Good
<1> HIDE DEF all, N
<1>8. CapsApplied(t, [t EXCEPT !.neighbours = N, !.routes = all], n)
    BY <1>5, <1>7 DEF CapsApplied, RoutesTo, Table
<1> QED BY <1>5, <1>6, <1>7, <1>8 DEF GoodTable, Table

\* A RIP leaves good routes to its destination.
LEMMA IngestRipGood ==
    ASSUME NEW n \in Node, NEW via \in Via, via[2] # n,
           NEW rip \in Rip, Covers(rip), NEW sntt \in SnttChoices,
           NEW R, GoodTo(R, n, rip.dest), NEW N, Listed(R, N)
    PROVE  /\ GoodTo(IngestRip(R, n, via, rip, sntt), n, rip.dest)
           /\ Listed(IngestRip(R, n, via, rip, sntt), N)
           /\ CapApplied(R, IngestRip(R, n, via, rip, sntt), n, rip.dest)
<1>1. CASE Withdraws(rip, sntt)
    <2>1. rip.dest \in Node
        BY DEF Rip
    <2> QED BY <1>1, <2>1, WithdrawInp3Good DEF IngestRip
<1>2. CASE ~Withdraws(rip, sntt) /\ Learns(n, rip, sntt)
    <2> DEFINE time == rip.time + sntt + Granule
               hops == rip.hops + 1
    <2>1. /\ sntt \in Nat /\ rip.time \in Nat /\ rip.hops \in Nat
          /\ Granule \in Nat /\ Horizon \in Nat /\ HopLimit \in Nat
          /\ rip.dest \in Node \ {n}
        BY <1>2, NetworkAssumption, LimitAssumption DEF Learns, Rip
    <2>2. time < Horizon /\ hops <= HopLimit
        BY <1>2, <2>1 DEF Learns, Withdraws, LocalTime
    <2>3. time \in 0 .. Horizon /\ hops \in 1 .. HopLimit
        BY <2>1, <2>2
    <2>4. time >= hops * Granule
        <3>1. hops * Granule = rip.hops * Granule + Granule
            BY <2>1, Z3
        <3>2. rip.hops * Granule \in Nat
            BY <2>1, Z3
        <3> QED BY <2>1, <3>1, <3>2 DEF Covers
    <2>5. IngestRip(R, n, via, rip, sntt) = UpsertInp3Route(R, rip.dest, via, time, hops)
        BY <1>2 DEF IngestRip, LocalTime
    <2> HIDE DEF time, hops
    <2> QED BY <2>1, <2>2, <2>3, <2>4, <2>5, UpsertInp3RouteGood
<1>3. CASE ~Withdraws(rip, sntt) /\ ~Learns(n, rip, sntt)
    BY <1>3 DEF IngestRip, CapApplied
<1> QED BY <1>1, <1>2, <1>3

\* A RIF leaves the table good.
LEMMA IngestRifGood ==
    ASSUME NEW n \in Node, NEW t, GoodTable(t, n),
           NEW via \in Via, via[2] # n,
           NEW rips, GoodRif(rips), NEW sntt \in SnttChoices, NEW admitted
    PROVE  /\ GoodTable(IngestRif(t, n, via, rips, sntt, admitted), n)
           /\ CapsApplied(t, IngestRif(t, n, via, rips, sntt, admitted), n)
<1> DEFINE heard == {rip \in rips : rip.dest \in Destinations(t) \cup admitted}
           rest  == {r \in t.routes : \A rip \in heard : rip.dest # r.dest}
           F     == [rip \in heard |-> IngestRip(RoutesTo(t, rip.dest), n, via, rip, sntt)]
           all   == rest \cup UNION {F[rip] : rip \in heard}
           told  == Forgotten(t, n, via, rips, sntt)
<1>1. \A x, y \in heard : x.dest = y.dest => x = y
    BY DEF GoodRif
<1>2. Good(t.routes, n) /\ Listed(t.routes, t.neighbours)
    BY DEF GoodTable
<1>3. \A x \in heard : /\ GoodTo(F[x], n, x.dest) /\ Listed(F[x], t.neighbours)
                       /\ CapApplied(RoutesTo(t, x.dest), F[x], n, x.dest)
    <2> SUFFICES ASSUME NEW x \in heard
                 PROVE  /\ GoodTo(F[x], n, x.dest) /\ Listed(F[x], t.neighbours)
                        /\ CapApplied(RoutesTo(t, x.dest), F[x], n, x.dest)
        OBVIOUS
    <2>1. /\ GoodTo(RoutesTo(t, x.dest), n, x.dest)
          /\ Listed(RoutesTo(t, x.dest), t.neighbours)
        BY <1>2 DEF RoutesTo, GoodTo, Good, Listed
    <2>2. x \in Rip /\ Covers(x)
        BY DEF GoodRif
    <2>3. F[x] = IngestRip(RoutesTo(t, x.dest), n, via, x, sntt)
        OBVIOUS
    <2> HIDE DEF heard, F
    <2> QED BY <2>1, <2>2, <2>3, IngestRipGood
<1>4. /\ Good(all, n) /\ Listed(all, t.neighbours)
      /\ \A d : CapApplied(RoutesTo(t, d), {r \in all : r.dest = d}, n, d)
    <2>1. all = Merge(t.routes, heard, F)
        BY DEF Merge
    <2>2. \A d : RoutesTo(t, d) = {r \in t.routes : r.dest = d}
        BY DEF RoutesTo
    <2> HIDE DEF heard, F, all
    <2>3. \A x \in heard : /\ GoodTo(F[x], n, x.dest) /\ Listed(F[x], t.neighbours)
                           /\ CapApplied({r \in t.routes : r.dest = x.dest}, F[x], n, x.dest)
        BY <1>1, <1>2, <1>3, <2>2
    <2>4. /\ Good(Merge(t.routes, heard, F), n) /\ Listed(Merge(t.routes, heard, F), t.neighbours)
          /\ \A d : CapApplied({r \in t.routes : r.dest = d},
                              {r \in Merge(t.routes, heard, F) : r.dest = d}, n, d)
        BY <1>1, <1>2, <1>3, <2>3, MergeGood
    <2> QED BY <2>1, <2>2, <2>4
<1>5. IngestRif(t, n, via, rips, sntt, admitted) =
          [t EXCEPT !.routes = all, !.withdrawn = @ \cup told]
    BY DEF IngestRif
<1>6. told \in SUBSET Node
    BY DEF Forgotten, GoodRif, Rip
<1>7. all \in SUBSET Route /\ t \in Table
    BY <1>4 DEF GoodTable, Good
<1> HIDE DEF all, told
<1>8. CapsApplied(t, [t EXCEPT !.routes = all, !.withdrawn = @ \cup told], n)
    BY <1>4, <1>7 DEF CapsApplied, RoutesTo, Table
<1> QED BY <1>4, <1>5, <1>6, <1>7, <1>8 DEF GoodTable, Table

\* A RIF is built good.
LEMMA BuildRifGood ==
    ASSUME NEW n \in Node, NEW t, GoodTable(t, n), NEW m \in Node,
           NEW picked \in Picks(t, n)
    PROVE  GoodRif(BuildRif(t, n, m, picked, t.withdrawn))
<1> DEFINE own     == [dest |-> n, time |-> 0, hops |-> 0]
           told(r) == [dest |-> r.dest, hops |-> r.hops,
                       time |-> IF Poisoned(t, r, m) THEN Horizon ELSE Quantise(r.time)]
           gone(d) == [dest |-> d, time |-> Horizon, hops |-> 0]
           known   == {told(r) : r \in picked}
           lost    == {gone(d) : d \in t.withdrawn \ ({n} \cup {r.dest : r \in picked})}
<1>a. /\ Horizon \in Nat /\ 0 \in 0 .. Horizon /\ Horizon \in 0 .. Horizon /\ 0 \in Nat
      /\ Horizon >= 0 * Granule /\ 0 >= 0 * Granule
    BY LimitAssumption, Z3
<1>1. \A r \in picked : /\ r \in Route /\ Timed(r) /\ r.dest # n /\ Covers(r)
                       /\ RouteIsSound(n, r)
    BY DEF Picks, QuickestRoutes, GoodTable, Good
<1>2. \A r, s \in picked : r.dest = s.dest => r = s
    BY DEF Picks
<1>3. own \in Rip /\ Covers(own)
    BY <1>a DEF Rip, Covers
<1>4. \A x \in known : /\ x \in Rip /\ Covers(x)
                       /\ \E r \in picked : x = told(r) /\ x.dest = r.dest
    <2> SUFFICES ASSUME NEW r \in picked PROVE told(r) \in Rip /\ Covers(told(r))
        OBVIOUS
    <2>1. /\ r.time \in 0 .. Horizon /\ r.hops \in Nat /\ r.dest \in Node
          /\ r.time < Horizon /\ r.time >= r.hops * Granule
        BY <1>1 DEF Route, Timed, Covers
    <2>2. /\ Quantise(r.time) \in 0 .. Horizon
          /\ Quantise(r.time) >= r.hops * Granule
        BY <2>1, QuantiseCovers
    <2>3. Horizon >= r.hops * Granule
        <3>1. r.hops * Granule \in Nat
            BY <2>1, LimitAssumption, Z3
        <3> QED BY <2>1, <3>1, <1>a
    <2>4. CASE Poisoned(t, r, m)
        BY <1>a, <2>1, <2>3, <2>4 DEF Rip, Covers
    <2>5. CASE ~Poisoned(t, r, m)
        BY <2>1, <2>2, <2>5 DEF Rip, Covers
    <2> QED BY <2>4, <2>5
<1>5. \A x \in lost : /\ x \in Rip /\ Covers(x) /\ x = gone(x.dest) /\ x.dest # n
                      /\ \A r \in picked : r.dest # x.dest
    <2> SUFFICES ASSUME NEW d \in t.withdrawn \ ({n} \cup {r.dest : r \in picked})
                 PROVE  gone(d) \in Rip /\ Covers(gone(d))
        OBVIOUS
    <2>1. d \in Node
        BY DEF GoodTable, Table
    <2> QED BY <1>a, <2>1 DEF Rip, Covers
<1>6. BuildRif(t, n, m, picked, t.withdrawn) = {own} \cup known \cup lost
    BY DEF BuildRif
<1>7. own.dest = n
    OBVIOUS
<1> HIDE DEF own, known, lost
<1>8. ASSUME NEW x \in {own} \cup known \cup lost, NEW y \in {own} \cup known \cup lost,
             x.dest = y.dest
      PROVE  x = y
    <2> HIDE DEF told, gone
    <2>1. CASE x \in known /\ y \in known
        BY <1>2, <1>4, <1>8, <2>1
    <2>2. CASE x \in lost /\ y \in lost
        BY <1>5, <1>8, <2>2
    <2>3. CASE ~(x \in known /\ y \in known) /\ ~(x \in lost /\ y \in lost)
        BY <1>1, <1>4, <1>5, <1>7, <1>8, <2>3
    <2> QED BY <2>1, <2>2, <2>3
<1> QED BY <1>3, <1>4, <1>5, <1>6, <1>8 DEF GoodRif

\* Taking routes away, and only neighbours that none of the rest goes through,
\* leaves the table good.
LEMMA WithoutGood ==
    ASSUME NEW n \in Node, NEW t, GoodTable(t, n), NEW gone, NEW left,
           \A r \in t.routes \ gone : r.via \notin left
    PROVE  /\ GoodTable(Without(t, gone, left), n)
           /\ Without(t, gone, left).routes = t.routes \ gone
           /\ CapsApplied(t, Without(t, gone, left), n)
<1> DEFINE routes     == t.routes \ gone
           neighbours == (t.neighbours \ left) \cap {r.via : r \in routes}
           withdrawn  == t.withdrawn \cup Lost(t, gone)
<1>0. t \in Table /\ Good(t.routes, n) /\ Listed(t.routes, t.neighbours)
    BY DEF GoodTable
<1>1. Without(t, gone, left) = [routes |-> routes, neighbours |-> neighbours,
                                withdrawn |-> withdrawn]
    BY DEF Without
<1>2. Good(routes, n)
    BY <1>0, GoodShrinks
<1>3. Listed(routes, neighbours)
    BY <1>0 DEF Listed
<1>4. routes \in SUBSET Route /\ neighbours \in SUBSET Via /\ withdrawn \in SUBSET Node
    BY <1>0, <1>2 DEF Table, Good, Lost
<1> HIDE DEF routes, neighbours, withdrawn
<1>5. GoodTable([routes |-> routes, neighbours |-> neighbours, withdrawn |-> withdrawn], n)
    BY <1>2, <1>3, <1>4 DEF GoodTable, Table
<1>6. routes \subseteq t.routes
    BY DEF routes
<1>7. CapsApplied(t, Without(t, gone, left), n)
    BY <1>1, <1>6 DEF CapsApplied, CapApplied, RoutesTo
<1> QED BY <1>1, <1>5, <1>7 DEF routes

\* A sweep leaves the table good.
LEMMA SweepGood ==
    ASSUME NEW n \in Node, NEW t, GoodTable(t, n)
    PROVE  GoodTable(Sweep(t), n) /\ CapsApplied(t, Sweep(t), n)
<1> DEFINE gone == {r \in t.routes : r.obsolescence <= 1}
           u    == Without(t, gone, {})
           older(r) == [r EXCEPT !.obsolescence = @ - 1]
           routes == {older(r) : r \in u.routes}
<1>1. GoodTable(u, n) /\ u.routes = t.routes \ gone
    BY WithoutGood
<1>2. \A r \in u.routes : r \in Route /\ ~(r.obsolescence <= 1)
    BY <1>1 DEF GoodTable, Good
<1> HIDE DEF u, gone
<1>3. \A r \in u.routes : /\ older(r) \in Route
                         /\ older(r).dest = r.dest /\ older(r).via = r.via
                         /\ older(r).quality = r.quality /\ older(r).time = r.time
                         /\ older(r).hops = r.hops
    BY <1>2, LimitAssumption DEF Route
<1>4. \A r \in u.routes : RouteIsSound(n, r) /\ Covers(r)
    BY <1>1 DEF GoodTable, Good
<1>5. \A r \in u.routes : RouteIsSound(n, older(r)) /\ Covers(older(r))
    <2> HIDE DEF older
    <2> QED BY <1>3, <1>4 DEF RouteIsSound, Covers, Timed
<1>6. \A x \in routes : \E r \in u.routes : x = older(r)
    OBVIOUS
<1> HIDE DEF older, routes
<1>7. routes \in SUBSET Route /\ \A x \in routes : RouteIsSound(n, x) /\ Covers(x)
    BY <1>3, <1>5, <1>6
<1>8. \A x, y \in routes : x.dest = y.dest /\ x.via = y.via => x = y
    BY <1>1, <1>3, <1>6 DEF GoodTable, Good
<1>9. Listed(routes, u.neighbours)
    BY <1>1, <1>3, <1>6 DEF GoodTable, Listed
<1>10. Sweep(t) = [u EXCEPT !.routes = routes]
    BY DEF Sweep, u, gone, routes, older
<1>11. \A x \in routes : \E r \in t.routes : r.via = x.via /\ r.dest = x.dest
    BY <1>1, <1>3, <1>6
<1>12. CapsApplied(t, [u EXCEPT !.routes = routes], n)
    BY <1>1, <1>11 DEF CapsApplied, CapApplied, RoutesTo, GoodTable, Table
<1> QED BY <1>1, <1>7, <1>8, <1>9, <1>10, <1>12 DEF GoodTable, Good, Table

\* Losing a neighbour, on one port or all, or a port, leaves the table good.
LEMMA MarkDownGood ==
    ASSUME NEW n \in Node, NEW t, GoodTable(t, n)
    PROVE  /\ \A via \in Via : GoodTable(MarkNeighbourDown(t, via), n) /\ CapsApplied(t, MarkNeighbourDown(t, via), n)
           /\ \A m \in Node : GoodTable(MarkNeighbourDownAllPorts(t, m), n) /\ CapsApplied(t, MarkNeighbourDownAllPorts(t, m), n)
           /\ \A p \in Port : GoodTable(MarkPortDown(t, p), n) /\ CapsApplied(t, MarkPortDown(t, p), n)
<1>0. \A r \in t.routes : r.via \in Port \X Node
    BY DEF GoodTable, Good, Route, Via
<1>1. ASSUME NEW via \in Via
      PROVE  GoodTable(MarkNeighbourDown(t, via), n) /\ CapsApplied(t, MarkNeighbourDown(t, via), n)
    BY WithoutGood DEF MarkNeighbourDown
<1>2. ASSUME NEW m \in Node
      PROVE  GoodTable(MarkNeighbourDownAllPorts(t, m), n) /\ CapsApplied(t, MarkNeighbourDownAllPorts(t, m), n)
    BY <1>0, WithoutGood DEF MarkNeighbourDownAllPorts
<1>3. ASSUME NEW p \in Port
      PROVE  GoodTable(MarkPortDown(t, p), n) /\ CapsApplied(t, MarkPortDown(t, p), n)
    BY <1>0, WithoutGood DEF MarkPortDown
<1> QED BY <1>1, <1>2, <1>3

-----------------------------------------------------------------------------
(* The invariant *)

\* A step that gives one node a good table keeps the tables good.
LEMMA TableStep ==
    ASSUME TablesGood, NEW n \in Node, NEW t, GoodTable(t, n),
           table' = [table EXCEPT ![n] = t]
    PROVE  TablesGood'
<1>1. t \in Table
    BY DEF GoodTable
<1> QED BY <1>1 DEF Inv, TablesGood

\* A step that cuts some channels keeps the rest.
LEMMA CutStep ==
    ASSUME RifsGood, NEW cut,
           rifs' = [c \in Channel |-> IF c \in cut THEN <<>> ELSE rifs[c]]
    PROVE  RifsGood'
<1>1. \A c \in Channel : rifs'[c] = <<>> \/ rifs'[c] = rifs[c]
    OBVIOUS
<1>2. <<>> \in Seq(SUBSET Rip) /\ DOMAIN <<>> = {}
    OBVIOUS
<1> QED BY <1>1, <1>2 DEF Inv, RifsGood

\* What a channel is made of.
LEMMA ChannelType ==
    \A c \in Channel : c[1] \in Node /\ c[2] \in Node /\ c[3] \in Port /\ c[1] # c[2]
                     /\ c = <<c[1], c[2], c[3]>>
BY DEF Channel

\* The invariant holds of empty tables.
LEMMA InitInv == Init => Inv
<1> SUFFICES ASSUME Init PROVE Inv
    OBVIOUS
<1>1. \A n \in Node : GoodTable(EmptyTable, n)
    BY DEF GoodTable, Good, Listed, EmptyTable, Table
<1>2. EmptyTable \in Table
    BY DEF EmptyTable, Table
<1>3. <<>> \in Seq(SUBSET Rip) /\ DOMAIN <<>> = {}
    OBVIOUS
<1> QED BY <1>1, <1>2, <1>3 DEF Init, Inv, TablesGood, LinksTyped, RifsGood

\* A broadcast that is heard keeps the invariant.
LEMMA HearBroadcastInv ==
    ASSUME Inv, NEW c \in Channel, HearBroadcast(c[1], c[2], c[3])
    PROVE  Inv'
<1> DEFINE n == c[1]
           m == c[2]
           p == c[3]
<1>0. n \in Node /\ m \in Node /\ p \in Port /\ n # m
    BY ChannelType
<1>f. PICK frame \in buildNodesBroadcast(BuildAdvertisement(table[n])) : \E admitted :
         table' = [table EXCEPT ![m] = Ingest(table[m], m, <<p, n>>,
                                              parseNodesBroadcast(frame), admitted)]
    BY DEF HearBroadcast
<1>1. PICK admitted :
         table' = [table EXCEPT ![m] = Ingest(table[m], m, <<p, n>>,
                                              parseNodesBroadcast(frame), admitted)]
    BY <1>f
<1>2. UNCHANGED <<up, detached, rifs>>
    BY DEF HearBroadcast
<1>3. GoodTable(table[n], n) /\ GoodTable(table[m], m)
    BY <1>0 DEF Inv, TablesGood, LinksTyped, RifsGood
<1>4. <<p, n>> \in Via /\ <<p, n>>[2] = n
    BY <1>0 DEF Via
<1> HIDE DEF n, m, p
<1>5. GoodEntries(parseNodesBroadcast(frame), n)
    BY <1>0, <1>3, HeardGood
<1>6. GoodTable(Ingest(table[m], m, <<p, n>>, parseNodesBroadcast(frame), admitted), m)
    BY <1>0, <1>3, <1>4, <1>5, IngestGood
<1>7. TablesGood'
    BY <1>0, <1>1, <1>6, TableStep DEF Inv
<1> QED BY <1>2, <1>7 DEF Inv, LinksTyped, RifsGood

\* A round of RIFs keeps it.
LEMMA RoundInv ==
    ASSUME Inv, NEW n \in Node, Round(n)
    PROVE  Inv'
<1>1. PICK picked \in Picks(table[n], n) :
         rifs' = [c \in Channel |->
                     IF c \notin Outgoing(n) THEN rifs[c]
                     ELSE Append(rifs[c], BuildRif(table[n], n, c[2], picked,
                                                   table[n].withdrawn))]
    BY DEF Round
<1>2. table' = [table EXCEPT ![n].withdrawn = {}] /\ UNCHANGED <<up, detached>>
    BY DEF Round
<1>3. GoodTable(table[n], n) /\ table[n] \in Table
    BY DEF Inv, TablesGood, LinksTyped, RifsGood
<1>4. GoodTable([table[n] EXCEPT !.withdrawn = {}], n)
    BY <1>3 DEF GoodTable, Table
<1>5. TablesGood'
    <2>1. table' = [table EXCEPT ![n] = [table[n] EXCEPT !.withdrawn = {}]]
        BY <1>2
    <2> QED BY <2>1, <1>4, TableStep DEF Inv
<1>6. ASSUME NEW c \in Channel
      PROVE  /\ rifs'[c] \in Seq(SUBSET Rip)
             /\ \A i \in DOMAIN rifs'[c] : GoodRif(rifs'[c][i])
    <2> DEFINE rif == BuildRif(table[n], n, c[2], picked, table[n].withdrawn)
    <2>1. rifs[c] \in Seq(SUBSET Rip) /\ \A i \in DOMAIN rifs[c] : GoodRif(rifs[c][i])
        BY DEF Inv, TablesGood, LinksTyped, RifsGood
    <2>2. c[2] \in Node
        BY ChannelType
    <2>3. GoodRif(rif)
        BY <1>3, <2>2, BuildRifGood
    <2>4. rif \in SUBSET Rip
        BY <2>3 DEF GoodRif
    <2>5. rifs'[c] = rifs[c] \/ rifs'[c] = Append(rifs[c], rif)
        BY <1>1
    <2> HIDE DEF rif
    <2>6. CASE rifs'[c] = rifs[c]
        BY <2>1, <2>6
    <2>7. CASE rifs'[c] = Append(rifs[c], rif)
        <3>1. Append(rifs[c], rif) \in Seq(SUBSET Rip)
            BY <2>1, <2>4
        <3>2. \A i \in DOMAIN Append(rifs[c], rif) :
                 \/ i \in DOMAIN rifs[c] /\ Append(rifs[c], rif)[i] = rifs[c][i]
                 \/ Append(rifs[c], rif)[i] = rif
            BY <2>1, <2>4
        <3> QED BY <2>1, <2>3, <2>7, <3>1, <3>2
    <2> QED BY <2>5, <2>6, <2>7
<1>7. rifs' = [c \in Channel |-> rifs'[c]]
    BY <1>1
<1>8. RifsGood'
    BY <1>6, <1>7 DEF RifsGood
<1> QED BY <1>2, <1>5, <1>8 DEF Inv, LinksTyped

\* A RIF that arrives keeps it, read or dropped.
LEMMA ReceiveRifInv ==
    ASSUME Inv, NEW c \in Channel, ReceiveRif(c[1], c[2], c[3])
    PROVE  Inv'
<1> DEFINE n == c[1]
           m == c[2]
           p == c[3]
           rips == Head(rifs[c])
<1>0. n \in Node /\ m \in Node /\ p \in Port /\ n # m /\ c = <<n, m, p>>
    BY ChannelType
<1>1. PICK sntt \in SnttChoices, admitted \in SUBSET Node :
         \/ table' = [table EXCEPT ![m] = IngestRif(table[m], m, <<p, n>>, rips, sntt, admitted)]
         \/ UNCHANGED table
    BY <1>0 DEF ReceiveRif
<1>2. /\ rifs[c] # <<>>
      /\ rifs' = [rifs EXCEPT ![c] = Tail(rifs[c])]
      /\ UNCHANGED <<up, detached>>
    BY <1>0 DEF ReceiveRif
<1>3. rifs[c] \in Seq(SUBSET Rip) /\ \A i \in DOMAIN rifs[c] : GoodRif(rifs[c][i])
    BY DEF Inv, TablesGood, LinksTyped, RifsGood
<1>4. /\ Tail(rifs[c]) \in Seq(SUBSET Rip)
      /\ \A i \in DOMAIN Tail(rifs[c]) : /\ i + 1 \in DOMAIN rifs[c]
                                       /\ Tail(rifs[c])[i] = rifs[c][i + 1]
      /\ 1 \in DOMAIN rifs[c] /\ rips = rifs[c][1]
    BY <1>2, <1>3
<1>5. GoodRif(rips)
    BY <1>3, <1>4
<1>6. RifsGood'
    BY <1>2, <1>3, <1>4 DEF RifsGood, Inv, TablesGood, LinksTyped
<1>7. TablesGood'
    <2>1. GoodTable(table[m], m)
        BY <1>0 DEF Inv, TablesGood, LinksTyped, RifsGood
    <2>2. <<p, n>> \in Via /\ <<p, n>>[2] = n
        BY <1>0 DEF Via
    <2> HIDE DEF n, m, p, rips
    <2>3. GoodTable(IngestRif(table[m], m, <<p, n>>, rips, sntt, admitted), m)
        BY <1>0, <1>5, <2>1, <2>2, IngestRifGood
    <2>4. CASE table' = [table EXCEPT ![m] = IngestRif(table[m], m, <<p, n>>, rips, sntt,
                                                       admitted)]
        BY <1>0, <2>3, <2>4, TableStep DEF Inv
    <2>5. CASE UNCHANGED table
        BY <2>5 DEF Inv, TablesGood
    <2> QED BY <1>1, <2>4, <2>5
<1> QED BY <1>2, <1>6, <1>7 DEF Inv, LinksTyped

\* Ageing and every kind of loss keep it.
LEMMA LossInv ==
    ASSUME Inv
    PROVE  /\ \A n \in Node : SweepTable(n) => Inv'
           /\ \A c \in Channel : DialFails(c[1], c[2], c[3]) => Inv'
           /\ \A c \in Channel : NeighbourSilent(c[1], c[2]) => Inv'
           /\ \A n \in Node, p \in Port : DetachPort(n, p) => Inv'
           /\ \A l \in InRange : LinkFails(l) => Inv'
<1>0. \A n \in Node : GoodTable(table[n], n)
    BY DEF Inv, TablesGood, LinksTyped, RifsGood
<1>1. ASSUME NEW n \in Node, SweepTable(n) PROVE Inv'
    <2>1. table' = [table EXCEPT ![n] = Sweep(table[n])] /\ UNCHANGED <<up, detached, rifs>>
        BY <1>1 DEF SweepTable
    <2>2. GoodTable(Sweep(table[n]), n)
        BY <1>0, SweepGood
    <2>3. TablesGood'
        BY <2>1, <2>2, TableStep DEF Inv
    <2> QED BY <2>1, <2>3 DEF Inv, LinksTyped, RifsGood
<1>2. ASSUME NEW c \in Channel, DialFails(c[1], c[2], c[3]) PROVE Inv'
    <2> DEFINE n == c[1]
               via == <<c[3], c[2]>>
    <2>0. n \in Node /\ via \in Via
        BY ChannelType DEF Via
    <2>1. /\ table' = [table EXCEPT ![n] = MarkNeighbourDown(table[n], via)]
          /\ UNCHANGED <<up, detached, rifs>>
        BY <1>2 DEF DialFails
    <2> HIDE DEF n, via
    <2>2. GoodTable(MarkNeighbourDown(table[n], via), n)
        BY <1>0, <2>0, MarkDownGood
    <2>3. TablesGood'
        BY <2>0, <2>1, <2>2, TableStep DEF Inv
    <2> QED BY <2>1, <2>3 DEF Inv, LinksTyped, RifsGood
<1>3. ASSUME NEW c \in Channel, NeighbourSilent(c[1], c[2]) PROVE Inv'
    <2> DEFINE n == c[1]
               m == c[2]
    <2>0. n \in Node /\ m \in Node
        BY ChannelType
    <2>1. /\ table' = [table EXCEPT ![n] = MarkNeighbourDownAllPorts(table[n], m)]
          /\ UNCHANGED <<up, detached, rifs>>
        BY <1>3 DEF NeighbourSilent
    <2> HIDE DEF n, m
    <2>2. GoodTable(MarkNeighbourDownAllPorts(table[n], m), n)
        BY <1>0, <2>0, MarkDownGood
    <2>3. TablesGood'
        BY <2>0, <2>1, <2>2, TableStep DEF Inv
    <2> QED BY <2>1, <2>3 DEF Inv, LinksTyped, RifsGood
<1>4. ASSUME NEW n \in Node, NEW p \in Port, DetachPort(n, p) PROVE Inv'
    <2> DEFINE cut == {c \in Channel : n \in {c[1], c[2]} /\ c[3] = p}
    <2>1. /\ table' = [table EXCEPT ![n] = MarkPortDown(table[n], p)]
          /\ detached' = detached \cup {<<n, p>>} /\ up' = up
          /\ rifs' = [c \in Channel |-> IF c \in cut THEN <<>> ELSE rifs[c]]
        BY <1>4 DEF DetachPort
    <2>2. GoodTable(MarkPortDown(table[n], p), n)
        BY <1>0, MarkDownGood
    <2>3. TablesGood'
        BY <2>1, <2>2, TableStep DEF Inv
    <2> HIDE DEF cut
    <2>4. RifsGood'
        BY <2>1, CutStep DEF Inv
    <2> QED BY <2>1, <2>3, <2>4 DEF Inv, LinksTyped
<1>5. ASSUME NEW l \in InRange, LinkFails(l) PROVE Inv'
    <2> DEFINE cut == {c \in Channel : <<{c[1], c[2]}, c[3]>> = l}
    <2>1. /\ table' = table /\ up' = up \ {l} /\ detached' = detached
          /\ rifs' = [c \in Channel |-> IF c \in cut THEN <<>> ELSE rifs[c]]
        BY <1>5 DEF LinkFails
    <2> HIDE DEF cut
    <2>2. RifsGood'
        BY <2>1, CutStep DEF Inv
    <2> QED BY <2>1, <2>2 DEF Inv, LinksTyped, TablesGood
<1> QED BY <1>1, <1>2, <1>3, <1>4, <1>5

\* Every step keeps it.
LEMMA NextInv == Inv /\ [Next]_vars => Inv'
<1> SUFFICES ASSUME Inv, [Next]_vars PROVE Inv'
    OBVIOUS
<1>1. CASE \E n \in Node : Round(n)
    BY <1>1, RoundInv
<1>2. CASE \E c \in Channel : HearBroadcast(c[1], c[2], c[3])
    BY <1>2, HearBroadcastInv
<1>3. CASE \E c \in Channel : ReceiveRif(c[1], c[2], c[3])
    BY <1>3, ReceiveRifInv
<1>4. CASE \/ \E n \in Node : SweepTable(n)
           \/ \E c \in Channel : DialFails(c[1], c[2], c[3]) \/ NeighbourSilent(c[1], c[2])
           \/ \E n \in Node, p \in Port : DetachPort(n, p)
           \/ \E l \in InRange : LinkFails(l)
    BY <1>4, LossInv
<1>5. CASE UNCHANGED vars
    BY <1>5 DEF Inv, vars, TablesGood, LinksTyped, RifsGood
<1> QED BY <1>1, <1>2, <1>3, <1>4, <1>5 DEF Next

\* The inductive invariant of the network: good tables and good RIFs.
THEOREM Invariance == Spec => []Inv
<1> QED BY InitInv, NextInv, PTL DEF Spec

-----------------------------------------------------------------------------
(* What follows *)

\* Tables, links and RIFs in flight keep their types.
THEOREM TypeCorrect == Spec => []TypeOK
<1>1. Inv => TypeOK
    BY DEF Inv, TypeOK, TablesGood, LinksTyped, RifsGood
<1> QED BY <1>1, Invariance, PTL

\* Whatever is heard or lost, every route a table keeps is sound.
THEOREM RoutesAlwaysSound == Spec => []RoutesAreSound
<1>1. Inv => RoutesAreSound
    BY DEF Inv, GoodTable, Good, RoutesAreSound, RoutesTo, TablesGood, LinksTyped, RifsGood
<1> QED BY <1>1, Invariance, PTL

\* No neighbour is unlisted under a route with a quality.
THEOREM NeighboursAlwaysListed == Spec => []NeighboursListed
<1>1. Inv => NeighboursListed
    BY DEF Inv, GoodTable, Listed, NeighboursListed, TablesGood, LinksTyped, RifsGood
<1> QED BY <1>1, Invariance, PTL

\* Times always cover the hops they count, however often they are rounded.
THEOREM TimesAlwaysCoverHops == Spec => []TimeCoversHops
<1>1. Inv => TimeCoversHops
    BY DEF Inv, GoodTable, Good, GoodRif, Covers, TimeCoversHops, TablesGood, LinksTyped, RifsGood
<1> QED BY <1>1, Invariance, PTL

-----------------------------------------------------------------------------
(***************************************************************************)
(* That what a node loses is withdrawn, for any finite set of nodes and    *)
(* ports.                                                                  *)
(*                                                                         *)
(* First the cap on the routes to a destination: it is never exceeded      *)
(* (WithinCaps), and with INP3 alone it loses no time                      *)
(* (WithdrawalRecorded).  By the first part every call on a table either   *)
(* adds no via to the routes of a destination or applies the cap to a good *)
(* set of routes (CapsApplied).  Here is what the cap keeps of such a set: *)
(* at most MaxRoutes, and all but one if there is one too many.            *)
(*                                                                         *)
(* Then that no withdrawal is forgotten (StaleIsToldOf), for a network of  *)
(* INP3 alone with one link between two nodes at most.  StaleIsToldOf is   *)
(* not inductive: a RIF that is still to arrive may teach again what its   *)
(* sender has lost since.  AllToldOf says of each interlink what the       *)
(* receiver will believe once everything in flight has arrived: of a       *)
(* destination the sender has lost and is not about to withdraw, the last  *)
(* word in flight is a withdrawal, and there is one if the receiver routes *)
(* that way.                                                               *)
(*                                                                         *)
(* The argument is about one link at a time.  With two between a pair the  *)
(* sender may change over to the other while a RIF is in flight, and the   *)
(* receiver reads only those on the port it has selected for the sender;   *)
(* that case is left to the model checker.                                 *)
(***************************************************************************)

Small(R) == IsFiniteSet(R) /\ Cardinality(R) <= MaxRoutes

-----------------------------------------------------------------------------
(* Good routes to one destination are finitely many *)

\* A node can be reached through finitely many neighbours.
LEMMA ViaFinite == IsFiniteSet(Via)
BY FiniteAssumption, FS_Product DEF Via

\* Routes to one destination are told apart by their vias.
LEMMA GoodToFinite ==
    ASSUME NEW R, NEW n, NEW d, GoodTo(R, n, d)
    PROVE  IsFiniteSet(R)
<1> DEFINE f == [r \in R |-> r.via]
<1>1. \A r \in R : r.via \in Via
    BY DEF GoodTo, Good, Route
<1>2. f \in Injection(R, Via)
    BY <1>1 DEF Injection, IsInjective, GoodTo, Good
<1> QED BY <1>2, ViaFinite, FS_Injection

\* Routes to one destination with no via that another set lacks are no more.
LEMMA FewerVias ==
    ASSUME NEW R, NEW S, NEW n, NEW d, GoodTo(S, n, d), Small(R),
           \A s \in S : \E r \in R : r.via = s.via
    PROVE  Small(S)
<1> DEFINE f == [s \in S |-> CHOOSE r \in R : r.via = s.via]
<1>1. \A s \in S : f[s] \in R /\ f[s].via = s.via
    OBVIOUS
<1>2. f \in [S -> R]
    BY <1>1
<1> HIDE DEF f
<1>3. f \in Injection(S, R)
    BY <1>1, <1>2 DEF Injection, IsInjective, GoodTo, Good
<1>4. IsFiniteSet(S) /\ Cardinality(S) <= Cardinality(R)
    BY <1>3, FS_Injection DEF Small
<1> QED BY <1>4, FS_CardinalityType, LimitAssumption DEF Small

-----------------------------------------------------------------------------
(* What the cap keeps *)

\* Two routes to a destination are in order.
LEMMA OutranksTotal ==
    ASSUME NEW r \in Route, NEW s \in Route, r.via # s.via
    PROVE  Outranks(r, s) \/ Outranks(s, r)
<1>1. r.quality \in Int /\ s.quality \in Int /\ r.via \in Port \X Node /\ s.via \in Port \X Node
    BY DEF Route, Via
<1>2. ViaBefore(r.via, s.via) \/ ViaBefore(s.via, r.via)
    <2>1. CASE r.via[1] = s.via[1]
        <3>1. r.via[2] # s.via[2]
            BY <1>1, <2>1
        <3>2. CallRank[r.via[2]] # CallRank[s.via[2]]
            BY <1>1, <3>1, RankAssumption
        <3> QED BY <1>1, <2>1, <3>2, RankAssumption DEF ViaBefore
    <2>2. CASE r.via[1] # s.via[1]
        <3>1. PortRank[r.via[1]] # PortRank[s.via[1]]
            BY <1>1, <2>2, RankAssumption
        <3> QED BY <1>1, <3>1, RankAssumption DEF ViaBefore
    <2> QED BY <2>1, <2>2
<1> QED BY <1>1, <1>2 DEF Outranks

\* Outranking is transitive and no route outranks itself.
LEMMA OutranksOrder ==
    /\ \A r \in Route : ~Outranks(r, r)
    /\ \A q, r, s \in Route : Outranks(q, r) /\ Outranks(r, s) => Outranks(q, s)
<1>1. \A r \in Route : r.quality \in Int /\ r.via \in Port \X Node
    BY DEF Route, Via
<1>2. \A v \in Port \X Node : /\ PortRank[v[1]] \in Int /\ CallRank[v[2]] \in Int
    BY RankAssumption
<1>3. \A v \in Port \X Node : ~ViaBefore(v, v)
    BY <1>2 DEF ViaBefore
<1>4. ASSUME NEW u \in Port \X Node, NEW v \in Port \X Node, NEW w \in Port \X Node,
             ViaBefore(u, v), ViaBefore(v, w)
      PROVE  ViaBefore(u, w)
    BY <1>2, <1>4 DEF ViaBefore
<1>5. \A r \in Route : ~Outranks(r, r)
    BY <1>1, <1>3 DEF Outranks
<1>6. ASSUME NEW q \in Route, NEW r \in Route, NEW s \in Route,
             Outranks(q, r), Outranks(r, s)
      PROVE  Outranks(q, s)
    BY <1>1, <1>4, <1>6 DEF Outranks
<1> QED BY <1>5, <1>6

\* A set of natural numbers that is not empty has a least one.
LEMMA NatLeast ==
    ASSUME NEW S \in SUBSET Nat, S # {}
    PROVE  \E x \in S : \A y \in S : x <= y
<1> DEFINE below == {ss \in Nat \X Nat : ss[1] < ss[2]}
<1>1. IsWellFoundedOn(below, Nat)
    <2>1. OpToRel(<, Nat) = below
        BY DEF OpToRel
    <2> QED BY <2>1, NatLessThanWellFounded
<1>2. \A x, y \in Nat : y < x => <<y, x>> \in below
    OBVIOUS
<1> HIDE DEF below
<1>3. \E x \in S : \A y \in S : ~(<<y, x>> \in below)
    BY <1>1, WFMin, Zenon
<1>4. \A x, y \in Nat : ~(y < x) => x <= y
    OBVIOUS
<1> QED BY <1>2, <1>3, <1>4, Zenon

\* A finite set that is not empty has an element that the function f, with
\* natural values, maps highest.
LEMMA Highest ==
    ASSUME NEW K, IsFiniteSet(K), K # {}, NEW f \in [K -> Nat], NEW b \in Nat,
           \A k \in K : f[k] <= b
    PROVE  \E k \in K : \A l \in K : f[l] <= f[k]
<1> DEFINE gaps == {b - f[k] : k \in K}
<1>1. gaps \subseteq Nat /\ gaps # {}
    OBVIOUS
<1> HIDE DEF gaps
<1>2. PICK g \in gaps : \A h \in gaps : g <= h
    BY <1>1, NatLeast
<1>3. PICK k \in K : g = b - f[k]
    BY DEF gaps
<1>4. \A l \in K : b - f[k] <= b - f[l]
    BY <1>2, <1>3 DEF gaps
<1> QED BY <1>4

\* The cap keeps at most MaxRoutes of good routes to one destination: the last
\* one kept is outranked by all the others, and by fewer than MaxRoutes.
LEMMA CapBounds ==
    ASSUME NEW Q, NEW n, NEW d, GoodTo(Q, n, d)
    PROVE  Small(EnforceRouteCap(Q))
<1> DEFINE K        == EnforceRouteCap(Q)
           above(r) == {s \in Q : Outranks(s, r)}
           f        == [r \in K |-> Cardinality(above(r))]
<1>1. IsFiniteSet(Q) /\ Q \subseteq Route /\ Cardinality(Q) \in Nat
    BY GoodToFinite, FS_CardinalityType DEF GoodTo, Good
<1>2. K \subseteq Q /\ IsFiniteSet(K)
    BY <1>1, CapShrinks, FS_Subset
<1>3. \A r : IsFiniteSet(above(r)) /\ Cardinality(above(r)) \in Nat
    BY <1>1, FS_Subset, FS_CardinalityType
<1>4. \A r \in K : Cardinality(above(r)) < MaxRoutes
    BY DEF EnforceRouteCap
<1>5. CASE K = {}
    BY <1>5, FS_EmptySet, LimitAssumption DEF Small
<1>6. CASE K # {}
    <2> HIDE DEF K, above
    <2>0. \A r \in K : Cardinality(above(r)) \in Nat /\ Cardinality(above(r)) <= MaxRoutes
        BY <1>3, <1>4, LimitAssumption
    <2>1. f \in [K -> Nat] /\ \A r \in K : f[r] <= MaxRoutes
        BY <2>0
    <2>2. PICK k \in K : \A l \in K : f[l] <= f[k]
        <3> HIDE DEF f
        <3> QED BY <1>2, <1>6, <2>1, Highest, LimitAssumption
    <2>3. ASSUME NEW l \in K, l # k PROVE l \in above(k)
        <3>1. l \in Route /\ k \in Route /\ l \in Q /\ k \in Q
            BY <1>1, <1>2
        <3>2. l.via # k.via
            BY <2>3, <3>1 DEF GoodTo, Good
        <3> SUFFICES ASSUME Outranks(k, l) PROVE FALSE
            BY <3>1, <3>2, OutranksTotal DEF above
        <3>3. above(k) \cup {k} \subseteq above(l) /\ k \notin above(k)
            BY <1>1, <3>1, OutranksOrder DEF above
        <3>4. Cardinality(above(k) \cup {k}) = Cardinality(above(k)) + 1
            BY <1>3, <3>3, FS_AddElement
        <3>5. Cardinality(above(k) \cup {k}) <= Cardinality(above(l))
            BY <1>3, <3>3, FS_Subset
        <3> QED BY <1>3, <2>2, <3>4, <3>5
    <2>4. K \ {k} \subseteq above(k)
        BY <2>3
    <2>5. Cardinality(K \ {k}) <= Cardinality(above(k))
        BY <1>3, <2>4, FS_Subset
    <2>6. Cardinality(K \ {k}) = Cardinality(K) - 1 /\ Cardinality(K) \in Nat
        BY <1>2, FS_RemoveElement, FS_CardinalityType
    <2>7. Cardinality(K) <= MaxRoutes
        BY <1>3, <1>4, <2>5, <2>6, LimitAssumption
    <2> QED BY <1>2, <2>7 DEF Small, K
<1> QED BY <1>5, <1>6

-----------------------------------------------------------------------------
(* The theorem *)

\* A call that applies the cap keeps a table within it.
LEMMA CapKept ==
    ASSUME NEW n \in Node, NEW t, GoodTable(t, n), NEW u, GoodTable(u, n), CapsApplied(t, u, n),
           \A d \in Node : Small(RoutesTo(t, d)), NEW d \in Node
    PROVE  Small(RoutesTo(u, d))
<1>1. GoodTo(RoutesTo(u, d), n, d)
    BY DEF GoodTable, Good, GoodTo, RoutesTo
<1>2. CASE \A s \in RoutesTo(u, d) : \E r \in RoutesTo(t, d) : r.via = s.via
    BY <1>1, <1>2, FewerVias
<1>3. CASE \E Q : GoodTo(Q, n, d) /\ RoutesTo(u, d) = EnforceRouteCap(Q)
    BY <1>3, CapBounds
<1> QED BY <1>2, <1>3 DEF CapsApplied, CapApplied

AllSmall == \A n, d \in Node : Small(RoutesTo(table[n], d))

\* A step that changes one table, by a call that applies the cap.
LEMMA CapStep ==
    ASSUME Inv, AllSmall, NEW n \in Node, NEW t, GoodTable(t, n),
           CapsApplied(table[n], t, n), table' = [table EXCEPT ![n] = t]
    PROVE  AllSmall'
<1>1. GoodTable(table[n], n) /\ table \in [Node -> Table]
    BY DEF Inv, TablesGood
<1>2. \A d \in Node : Small(RoutesTo(t, d))
    BY <1>1, CapKept DEF AllSmall
<1>3. ASSUME NEW m \in Node, NEW d \in Node PROVE Small(RoutesTo(table'[m], d))
    BY <1>1, <1>2 DEF AllSmall
<1> QED BY <1>3 DEF AllSmall

\* Tables start empty.
LEMMA InitSmall == Init => AllSmall
<1> SUFFICES ASSUME Init, NEW n \in Node, NEW d \in Node PROVE Small(RoutesTo(table[n], d))
    BY DEF AllSmall
<1>1. RoutesTo(table[n], d) = {}
    BY DEF Init, EmptyTable, RoutesTo
<1> QED BY <1>1, FS_EmptySet, LimitAssumption DEF Small

\* What is heard keeps tables within the cap.
LEMMA HeardSmall ==
    ASSUME Inv, AllSmall, NEW c \in Channel,
           HearBroadcast(c[1], c[2], c[3]) \/ ReceiveRif(c[1], c[2], c[3])
    PROVE  AllSmall'
<1> DEFINE n == c[1]
           m == c[2]
           via == <<c[3], c[1]>>
           rips == Head(rifs[c])
<1>0. /\ n \in Node /\ m \in Node /\ via \in Via /\ via[2] = n /\ n # m
      /\ c = <<c[1], c[2], c[3]>>
    BY ChannelType DEF Via
<1>1. GoodTable(table[n], n) /\ GoodTable(table[m], m)
    BY <1>0 DEF Inv, TablesGood
<1>2. CASE HearBroadcast(c[1], c[2], c[3])
    <2>0. PICK frame \in buildNodesBroadcast(BuildAdvertisement(table[n])) : \E admitted :
             table' = [table EXCEPT ![m] = Ingest(table[m], m, via,
                                                  parseNodesBroadcast(frame), admitted)]
        BY <1>2 DEF HearBroadcast
    <2>1. PICK admitted :
             table' = [table EXCEPT ![m] = Ingest(table[m], m, via,
                                                  parseNodesBroadcast(frame), admitted)]
        BY <2>0
    <2> HIDE DEF n, m, via
    <2>2. GoodEntries(parseNodesBroadcast(frame), n)
        BY <1>0, <1>1, HeardGood
    <2> DEFINE t == Ingest(table[m], m, via, parseNodesBroadcast(frame), admitted)
    <2>3. GoodTable(t, m) /\ CapsApplied(table[m], t, m)
        BY <1>0, <1>1, <2>2, IngestGood
    <2> HIDE DEF t
    <2> QED BY <1>0, <2>1, <2>3, CapStep DEF t
<1>3. CASE ReceiveRif(c[1], c[2], c[3])
    <2>1. PICK sntt \in SnttChoices, admitted \in SUBSET Node :
             \/ table' = [table EXCEPT ![m] = IngestRif(table[m], m, via, rips, sntt, admitted)]
             \/ UNCHANGED table
        BY <1>0, <1>3 DEF ReceiveRif
    <2>2. rifs[c] # <<>> /\ rifs[c] \in Seq(SUBSET Rip)
          /\ \A i \in DOMAIN rifs[c] : GoodRif(rifs[c][i])
        BY <1>0, <1>3 DEF ReceiveRif, Inv, RifsGood
    <2>3. GoodRif(rips)
        BY <2>2
    <2> HIDE DEF n, m, via, rips
    <2> DEFINE t == IngestRif(table[m], m, via, rips, sntt, admitted)
    <2>4. GoodTable(t, m) /\ CapsApplied(table[m], t, m)
        BY <1>0, <1>1, <2>3, IngestRifGood
    <2> HIDE DEF t
    <2>5. CASE UNCHANGED table
        BY <2>5 DEF AllSmall
    <2> QED BY <1>0, <2>1, <2>4, <2>5, CapStep DEF t
<1> QED BY <1>2, <1>3

\* Every step keeps tables within the cap.
LEMMA NextSmall == Inv /\ AllSmall /\ [Next]_vars => AllSmall'
<1> SUFFICES ASSUME Inv, AllSmall, [Next]_vars PROVE AllSmall'
    OBVIOUS
<1>0. \A n \in Node : GoodTable(table[n], n) /\ table[n] \in Table
    BY DEF Inv, TablesGood
<1>1. CASE \E n \in Node : Round(n)
    <2>1. PICK n \in Node : table' = [table EXCEPT ![n].withdrawn = {}]
        BY <1>1 DEF Round
    <2>2. \A m \in Node : table'[m].routes = table[m].routes
        BY <1>0, <2>1 DEF Inv, TablesGood, Table
    <2> QED BY <2>2 DEF AllSmall, RoutesTo
<1>2. CASE \E c \in Channel : \/ HearBroadcast(c[1], c[2], c[3])
                              \/ ReceiveRif(c[1], c[2], c[3])
    BY <1>2, HeardSmall
<1>3. CASE \E n \in Node : SweepTable(n)
    <2>1. PICK n \in Node : table' = [table EXCEPT ![n] = Sweep(table[n])]
        BY <1>3 DEF SweepTable
    <2> QED BY <1>0, <2>1, SweepGood, CapStep
<1>4. CASE \E c \in Channel : DialFails(c[1], c[2], c[3])
    <2>1. PICK c \in Channel :
             table' = [table EXCEPT ![c[1]] = MarkNeighbourDown(table[c[1]], <<c[3], c[2]>>)]
        BY <1>4 DEF DialFails
    <2>2. c[1] \in Node /\ <<c[3], c[2]>> \in Via
        BY ChannelType DEF Via
    <2> QED BY <1>0, <2>1, <2>2, MarkDownGood, CapStep
<1>5. CASE \E c \in Channel : NeighbourSilent(c[1], c[2])
    <2>1. PICK c \in Channel :
             table' = [table EXCEPT ![c[1]] = MarkNeighbourDownAllPorts(table[c[1]], c[2])]
        BY <1>5 DEF NeighbourSilent
    <2>2. c[1] \in Node /\ c[2] \in Node
        BY ChannelType
    <2> QED BY <1>0, <2>1, <2>2, MarkDownGood, CapStep
<1>6. CASE \E n \in Node, p \in Port : DetachPort(n, p)
    <2>1. PICK n \in Node, p \in Port :
             table' = [table EXCEPT ![n] = MarkPortDown(table[n], p)]
        BY <1>6 DEF DetachPort
    <2> QED BY <1>0, <2>1, MarkDownGood, CapStep
<1>7. CASE UNCHANGED table
    BY <1>7 DEF AllSmall
<1>8. ASSUME NEW l \in InRange, LinkFails(l) PROVE UNCHANGED table
    BY <1>8 DEF LinkFails
<1> QED BY <1>1, <1>2, <1>3, <1>4, <1>5, <1>6, <1>7, <1>8 DEF Next, vars

\* No table ever holds more routes to a destination than the cap, in whatever
\* order they were learnt and by whichever protocol.
THEOREM CapsAlwaysHold == Spec => []WithinCaps
<1>1. AllSmall => WithinCaps
    BY DEF AllSmall, Small, WithinCaps
<1> QED BY <1>1, InitSmall, NextSmall, Invariance, PTL DEF Spec

-----------------------------------------------------------------------------
(* Losses of a time *)

\* Of routes that are one too many the cap takes one.
LEMMA CapTakesOne ==
    ASSUME NEW Q, NEW n, NEW d, GoodTo(Q, n, d),
           NEW r \in Q, NEW s \in Q,
           Cardinality(Q) <= MaxRoutes \/ (r # s /\ Cardinality(Q) <= MaxRoutes + 1)
    PROVE  r \in EnforceRouteCap(Q) \/ s \in EnforceRouteCap(Q)
<1> DEFINE above(x) == {y \in Q : Outranks(y, x)}
<1>1. IsFiniteSet(Q) /\ Q \subseteq Route /\ Cardinality(Q) \in Nat
    BY GoodToFinite, FS_CardinalityType DEF GoodTo, Good
<1>2. ASSUME NEW x \in Q, x \notin EnforceRouteCap(Q)
      PROVE  /\ MaxRoutes <= Cardinality(above(x))
             /\ Cardinality(above(x)) \in Nat /\ IsFiniteSet(above(x))
             /\ x \notin above(x) /\ above(x) \cup {x} \subseteq Q
             /\ Cardinality(above(x) \cup {x}) = Cardinality(above(x)) + 1
             /\ Cardinality(above(x) \cup {x}) <= Cardinality(Q)
             /\ Cardinality(above(x) \cup {x}) = Cardinality(Q) => above(x) \cup {x} = Q
    <2>1. IsFiniteSet(above(x)) /\ Cardinality(above(x)) \in Nat
        BY <1>1, FS_Subset, FS_CardinalityType
    <2>2. ~(Cardinality(above(x)) < MaxRoutes)
        BY <1>2 DEF EnforceRouteCap
    <2>3. x \notin above(x) /\ above(x) \cup {x} \subseteq Q
        BY <1>1, OutranksOrder
    <2> HIDE DEF above
    <2>4. Cardinality(above(x) \cup {x}) = Cardinality(above(x)) + 1
        BY <2>1, <2>3, FS_AddElement
    <2>5. /\ Cardinality(above(x) \cup {x}) <= Cardinality(Q)
          /\ Cardinality(above(x) \cup {x}) = Cardinality(Q) => above(x) \cup {x} = Q
        BY <1>1, <2>3, FS_Subset
    <2> QED BY <2>1, <2>2, <2>3, <2>4, <2>5, LimitAssumption
<1> SUFFICES ASSUME r \notin EnforceRouteCap(Q), s \notin EnforceRouteCap(Q) PROVE FALSE
    OBVIOUS
<1> HIDE DEF above
<1> DEFINE others(x) == above(x) \cup {x}
<1>a. ASSUME NEW x \in Q, x \notin EnforceRouteCap(Q)
      PROVE  /\ MaxRoutes + 1 <= Cardinality(Q)
             /\ Cardinality(Q) = MaxRoutes + 1 => others(x) = Q
    <2>1. /\ MaxRoutes <= Cardinality(above(x)) /\ Cardinality(above(x)) \in Nat
          /\ Cardinality(others(x)) = Cardinality(above(x)) + 1
          /\ Cardinality(others(x)) <= Cardinality(Q)
          /\ Cardinality(others(x)) = Cardinality(Q) => others(x) = Q
        BY <1>2, <1>a
    <2> HIDE DEF others
    <2> QED BY <1>1, <2>1, LimitAssumption
<1> HIDE DEF others
<1>3. /\ MaxRoutes + 1 <= Cardinality(Q)
      /\ Cardinality(Q) = MaxRoutes + 1 => others(r) = Q /\ others(s) = Q
    BY <1>a
<1>4. r # s /\ Cardinality(Q) = MaxRoutes + 1
    BY <1>1, <1>3, LimitAssumption
<1>5. above(r) \cup {r} = Q /\ above(s) \cup {s} = Q
    BY <1>3, <1>4 DEF others
<1>6. Outranks(r, s) /\ Outranks(s, r)
    BY <1>4, <1>5 DEF above
<1> QED BY <1>1, <1>6, OutranksOrder

\* A RIP that is learnt leaves a destination that had a time one: the new
\* route has a time, and the cap cannot take both it and another.
LEMMA UpsertKeepsTime ==
    ASSUME NEW n \in Node, NEW d \in Node \ {n}, NEW via \in Via, via[2] # n,
           NEW time \in 0 .. Horizon, time < Horizon,
           NEW hops \in 1 .. HopLimit, time >= hops * Granule,
           NEW R, GoodTo(R, n, d), Small(R), HasTime(R)
    PROVE  HasTime(UpsertInp3Route(R, d, via, time, hops))
<1> DEFINE old == {r \in R : r.via = via}
           new(quality) ==
               [dest |-> d, via |-> via, quality |-> quality,
                obsolescence |-> ObsoleteInitial, time |-> time, hops |-> hops]
           all == Uncapped(R, d, via, time, hops)
<1>1. GoodTo(all, n, d)
    <2>1. Listed(R, {r.via : r \in R})
        BY DEF Listed
    <2> QED BY <2>1, UpsertInp3RouteGood
<1>2. UpsertInp3Route(R, d, via, time, hops) = EnforceRouteCap(all)
    BY DEF UpsertInp3Route, Uncapped
<1>3. PICK k \in all : k.via = via /\ Timed(k) /\ all = (R \ old) \cup {k}
    <2>1. CASE old = {}
        <3>1. all = (R \ old) \cup {new(0)}
            BY <2>1 DEF Uncapped
        <3>2. new(0).via = via /\ Timed(new(0))
            BY DEF Timed
        <3> HIDE DEF all, old, new
        <3> QED BY <3>1, <3>2
    <2>2. CASE old # {}
        <3>1. PICK o \in old : TRUE
            BY <2>2
        <3>2. old = {o}
            BY DEF GoodTo, Good
        <3>3. all = (R \ old) \cup {new(o.quality)}
            BY <2>2, <3>2 DEF Uncapped
        <3>4. new(o.quality).via = via /\ Timed(new(o.quality))
            BY DEF Timed
        <3> HIDE DEF all, old, new
        <3> QED BY <3>3, <3>4
    <2> QED BY <2>1, <2>2
<1>4. /\ IsFiniteSet(R) /\ IsFiniteSet(R \ old)
      /\ Cardinality(R) \in Nat /\ Cardinality(R \ old) \in Nat
      /\ Cardinality(R) <= MaxRoutes /\ Cardinality(R \ old) <= Cardinality(R)
      /\ R \ old = R \/ Cardinality(R \ old) < Cardinality(R)
    BY FS_Subset, FS_CardinalityType DEF Small
<1>5. Cardinality(all) \in Nat /\ Cardinality(all) <= Cardinality(R \ old) + 1
    <2>1. Cardinality((R \ old) \cup {k}) =
              IF k \in R \ old THEN Cardinality(R \ old) ELSE Cardinality(R \ old) + 1
        BY <1>4, FS_AddElement
    <2> HIDE DEF all, old
    <2> QED BY <1>3, <1>4, <2>1
<1>6. PICK r \in R : Timed(r)
    BY DEF HasTime
<1> HIDE DEF all
<1>7. CASE r \in old
    <2>1. Cardinality(all) <= MaxRoutes
        BY <1>4, <1>5, <1>7, LimitAssumption
    <2>2. k \in EnforceRouteCap(all)
        BY <1>1, <2>1, CapTakesOne
    <2> QED BY <1>2, <1>3, <2>2 DEF HasTime
<1>8. CASE r \notin old
    <2>1. r \in all /\ r # k
        BY <1>3, <1>8
    <2>2. Cardinality(all) <= MaxRoutes + 1
        BY <1>4, <1>5, LimitAssumption
    <2>3. r \in EnforceRouteCap(all) \/ k \in EnforceRouteCap(all)
        BY <1>1, <2>1, <2>2, CapTakesOne
    <2> QED BY <1>2, <1>3, <1>6, <2>3 DEF HasTime
<1> QED BY <1>7, <1>8

\* The destinations whose last time-route goes as t becomes u are recorded in u.
Recorded(t, u) ==
    \A d \in Node : HasTime(RoutesTo(t, d)) /\ ~HasTime(RoutesTo(u, d)) => d \in u.withdrawn

\* A RIF loses a time only by a withdrawal, which is recorded.
LEMMA IngestRifRecords ==
    ASSUME NEW n \in Node, NEW t, GoodTable(t, n), \A d \in Node : Small(RoutesTo(t, d)),
           NEW via \in Via, via[2] # n,
           NEW rips, GoodRif(rips), NEW sntt \in SnttChoices, NEW admitted
    PROVE  Recorded(t, IngestRif(t, n, via, rips, sntt, admitted))
<1> DEFINE heard == {rip \in rips : rip.dest \in Destinations(t) \cup admitted}
           left(x) == IngestRip(RoutesTo(t, x.dest), n, via, x, sntt)
           rest  == {r \in t.routes : \A rip \in heard : rip.dest # r.dest}
           all   == rest \cup UNION {left(x) : x \in heard}
           u     == IngestRif(t, n, via, rips, sntt, admitted)
<1>1. /\ u.routes = all
      /\ u.withdrawn = t.withdrawn \cup Forgotten(t, n, via, rips, sntt)
    BY DEF IngestRif, GoodTable, Table
<1> SUFFICES ASSUME NEW d \in Node, HasTime(RoutesTo(t, d)), ~HasTime(RoutesTo(u, d))
             PROVE  d \in Forgotten(t, n, via, rips, sntt)
    BY <1>1 DEF Recorded
<1> HIDE DEF u, left
<1>2. PICK r \in t.routes : r.dest = d /\ Timed(r)
    BY DEF HasTime, RoutesTo
<1>3. PICK x \in heard : x.dest = d
    <2> SUFFICES ASSUME r \in rest PROVE FALSE
        BY <1>2
    <2> QED BY <1>1, <1>2 DEF HasTime, RoutesTo
<1>4. GoodTo(RoutesTo(t, d), n, d) /\ Small(RoutesTo(t, d))
    BY DEF GoodTable, Good, GoodTo, RoutesTo
<1>5. x \in Rip /\ Covers(x) /\ x \in rips
    BY DEF GoodRif
<1>6. \A s \in left(x) : s.dest = d
    <2>1. Listed(RoutesTo(t, d), {s.via : s \in RoutesTo(t, d)})
        BY DEF Listed
    <2>2. GoodTo(IngestRip(RoutesTo(t, d), n, via, x, sntt), n, d)
        BY <1>3, <1>4, <1>5, <2>1, IngestRipGood
    <2> QED BY <1>3, <2>2 DEF left, GoodTo
<1>7. ~HasTime(left(x))
    BY <1>1, <1>6 DEF HasTime, RoutesTo
<1>8. CASE Withdraws(x, sntt)
    <2>1. left(x) = WithdrawInp3(RoutesTo(t, d), via)
        BY <1>3, <1>8 DEF left, IngestRip
    <2>2. ~HasTime(WithdrawInp3(RoutesTo(t, d), via))
        BY <1>7, <2>1
    <2>3. \E s \in RoutesTo(t, d) : s.via = via /\ Timed(s)
        <3>1. r \in RoutesTo(t, d)
            BY <1>2 DEF RoutesTo
        <3>2. r \notin WithdrawInp3(RoutesTo(t, d), via)
            BY <1>2, <2>2 DEF HasTime
        <3> QED BY <1>2, <3>1, <3>2 DEF WithdrawInp3
    <2> QED BY <1>3, <1>5, <1>8, <2>2, <2>3 DEF Forgotten
<1>9. CASE ~Withdraws(x, sntt) /\ Learns(n, x, sntt)
    <2> DEFINE time == x.time + sntt + Granule
               hops == x.hops + 1
    <2>1. /\ sntt \in Nat /\ x.time \in Nat /\ x.hops \in Nat
          /\ Granule \in Nat /\ Horizon \in Nat /\ HopLimit \in Nat
          /\ d \in Node \ {n}
        BY <1>3, <1>5, <1>9, NetworkAssumption, LimitAssumption DEF Learns, Rip
    <2>2. time < Horizon /\ hops <= HopLimit
        BY <1>9, <2>1 DEF Learns, Withdraws, LocalTime
    <2>3. time \in 0 .. Horizon /\ hops \in 1 .. HopLimit
        BY <2>1, <2>2
    <2>4. time >= hops * Granule
        <3>1. hops * Granule = x.hops * Granule + Granule
            BY <2>1, Z3
        <3>2. x.hops * Granule \in Nat
            BY <2>1, Z3
        <3> QED BY <1>5, <2>1, <3>1, <3>2 DEF Covers
    <2>5. left(x) = UpsertInp3Route(RoutesTo(t, d), d, via, time, hops)
        BY <1>3, <1>9 DEF left, IngestRip, LocalTime
    <2> HIDE DEF time, hops
    <2>6. HasTime(UpsertInp3Route(RoutesTo(t, d), d, via, time, hops))
        BY <1>4, <2>1, <2>2, <2>3, <2>4, UpsertKeepsTime
    <2> QED BY <1>7, <2>5, <2>6
<1>10. CASE ~Withdraws(x, sntt) /\ ~Learns(n, x, sntt)
    BY <1>3, <1>7, <1>10 DEF left, IngestRip
<1> QED BY <1>8, <1>9, <1>10

\* Taking routes away records what was lost.
LEMMA WithoutRecords ==
    ASSUME NEW t, NEW gone \in SUBSET t.routes, NEW left
    PROVE  Recorded(t, Without(t, gone, left))
<1> DEFINE u == Without(t, gone, left)
<1>1. u.routes = t.routes \ gone /\ u.withdrawn = t.withdrawn \cup Lost(t, gone)
    BY DEF Without
<1> HIDE DEF u
<1>2. ASSUME NEW d \in Node, HasTime(RoutesTo(t, d)), ~HasTime(RoutesTo(u, d))
      PROVE  d \in Lost(t, gone)
    <2>1. PICK r \in t.routes : r.dest = d /\ Timed(r)
        BY <1>2 DEF HasTime, RoutesTo
    <2>2. r \in gone
        BY <1>1, <1>2, <2>1 DEF HasTime, RoutesTo
    <2>3. ~HasTime(RoutesTo(t, d) \ gone)
        BY <1>1, <1>2 DEF HasTime, RoutesTo
    <2> QED BY <2>1, <2>2, <2>3 DEF Lost, HasTime
<1> QED BY <1>1, <1>2 DEF Recorded, u

\* So does a sweep, which leaves the times of the others.
LEMMA SweepRecords ==
    ASSUME NEW n \in Node, NEW t, GoodTable(t, n)
    PROVE  Recorded(t, Sweep(t))
<1> DEFINE gone     == {r \in t.routes : r.obsolescence <= 1}
           u        == Without(t, gone, {})
           older(r) == [r EXCEPT !.obsolescence = @ - 1]
<1>1. Recorded(t, u) /\ GoodTable(u, n)
    BY WithoutRecords, WithoutGood
<1> HIDE DEF u, gone
<1>2. Sweep(t) = [u EXCEPT !.routes = {older(r) : r \in u.routes}]
    BY DEF Sweep, u, gone
<1>3. \A r \in u.routes : older(r).dest = r.dest /\ older(r).time = r.time
    BY <1>1 DEF GoodTable, Good, Route
<1>4. /\ Sweep(t).routes = {older(r) : r \in u.routes}
      /\ Sweep(t).withdrawn = u.withdrawn
    BY <1>1, <1>2 DEF GoodTable, Table
<1> HIDE DEF older
<1>5. \A d \in Node : HasTime(RoutesTo(u, d)) => HasTime(RoutesTo(Sweep(t), d))
    BY <1>3, <1>4 DEF HasTime, RoutesTo, Timed
<1> QED BY <1>1, <1>4, <1>5 DEF Recorded

\* A step that changes one table by a call that records what it loses.
LEMMA RecordStep ==
    ASSUME Inv, NEW n \in Node, NEW t, Recorded(table[n], t), table' = [table EXCEPT ![n] = t]
    PROVE  \A m \in Node : Recorded(table[m], table'[m])
<1>1. table \in [Node -> Table]
    BY DEF Inv, TablesGood
<1>2. \A m \in Node : Recorded(table[m], table[m])
    BY DEF Recorded
<1> QED BY <1>1, <1>2

\* Every step but a broadcast records the losses of a time.
LEMMA NextRecords ==
    ASSUME Inv, AllSmall, [Next]_vars, \A c \in Channel : ~HearBroadcast(c[1], c[2], c[3])
    PROVE  \A n \in Node : Recorded(table[n], table'[n])
<1>0. \A n \in Node : GoodTable(table[n], n) /\ table[n] \in Table
    BY DEF Inv, TablesGood
<1>1. CASE \E n \in Node : Round(n)
    <2>1. PICK n \in Node : table' = [table EXCEPT ![n].withdrawn = {}]
        BY <1>1 DEF Round
    <2>2. \A m \in Node : table'[m].routes = table[m].routes
        BY <1>0, <2>1 DEF Inv, TablesGood, Table
    <2> QED BY <2>2 DEF Recorded, RoutesTo
<1>2. CASE \E c \in Channel : ReceiveRif(c[1], c[2], c[3])
    <2>0. PICK c \in Channel : ReceiveRif(c[1], c[2], c[3])
        BY <1>2
    <2> DEFINE n == c[1]
               m == c[2]
               via == <<c[3], c[1]>>
               rips == Head(rifs[c])
    <2>1. /\ n \in Node /\ m \in Node /\ via \in Via /\ via[2] = n /\ n # m
          /\ c = <<c[1], c[2], c[3]>>
        BY ChannelType DEF Via
    <2>2. PICK sntt \in SnttChoices, admitted \in SUBSET Node :
             \/ table' = [table EXCEPT ![m] = IngestRif(table[m], m, via, rips, sntt, admitted)]
             \/ UNCHANGED table
        BY <2>0, <2>1 DEF ReceiveRif
    <2>3. rifs[c] # <<>> /\ rifs[c] \in Seq(SUBSET Rip)
          /\ \A i \in DOMAIN rifs[c] : GoodRif(rifs[c][i])
        BY <2>0, <2>1 DEF ReceiveRif, Inv, RifsGood
    <2>4. GoodRif(rips)
        BY <2>3
    <2> HIDE DEF n, m, via, rips
    <2>5. Recorded(table[m], IngestRif(table[m], m, via, rips, sntt, admitted))
        BY <1>0, <2>1, <2>4, IngestRifRecords DEF AllSmall
    <2>6. CASE UNCHANGED table
        BY <2>6 DEF Recorded
    <2> QED BY <2>1, <2>2, <2>5, <2>6, RecordStep
<1>3. CASE \E n \in Node : SweepTable(n)
    <2>1. PICK n \in Node : table' = [table EXCEPT ![n] = Sweep(table[n])]
        BY <1>3 DEF SweepTable
    <2> QED BY <1>0, <2>1, SweepRecords, RecordStep
<1>4. CASE \E c \in Channel : DialFails(c[1], c[2], c[3])
    <2>1. PICK c \in Channel :
             table' = [table EXCEPT ![c[1]] = MarkNeighbourDown(table[c[1]], <<c[3], c[2]>>)]
        BY <1>4 DEF DialFails
    <2>2. c[1] \in Node
        BY ChannelType
    <2>3. Recorded(table[c[1]], MarkNeighbourDown(table[c[1]], <<c[3], c[2]>>))
        BY WithoutRecords DEF MarkNeighbourDown
    <2> QED BY <2>1, <2>2, <2>3, RecordStep
<1>5. CASE \E c \in Channel : NeighbourSilent(c[1], c[2])
    <2>1. PICK c \in Channel :
             table' = [table EXCEPT ![c[1]] = MarkNeighbourDownAllPorts(table[c[1]], c[2])]
        BY <1>5 DEF NeighbourSilent
    <2>2. c[1] \in Node
        BY ChannelType
    <2>3. Recorded(table[c[1]], MarkNeighbourDownAllPorts(table[c[1]], c[2]))
        BY WithoutRecords DEF MarkNeighbourDownAllPorts
    <2> QED BY <2>1, <2>2, <2>3, RecordStep
<1>6. CASE \E n \in Node, p \in Port : DetachPort(n, p)
    <2>1. PICK n \in Node, p \in Port :
             table' = [table EXCEPT ![n] = MarkPortDown(table[n], p)]
        BY <1>6 DEF DetachPort
    <2>2. Recorded(table[n], MarkPortDown(table[n], p))
        BY WithoutRecords DEF MarkPortDown
    <2> QED BY <2>1, <2>2, RecordStep
<1>7. CASE UNCHANGED table
    BY <1>7 DEF Recorded
<1>8. ASSUME NEW l \in InRange, LinkFails(l) PROVE UNCHANGED table
    BY <1>8 DEF LinkFails
<1> QED BY <1>1, <1>2, <1>3, <1>4, <1>5, <1>6, <1>7, <1>8 DEF Next, vars

\* Of all that a table can hear, suffer or do, only a NODES broadcast loses the
\* last time-route to a destination without recording it: RIFs, sweeps, failed
\* dials, silent neighbours and detached ports never do.
THEOREM LossesRecorded ==
    Spec => [][(\A c \in Channel : ~HearBroadcast(c[1], c[2], c[3]))
                  => \A n \in Node : Recorded(table[n], table'[n])]_vars
<1>1. Inv /\ AllSmall /\ [Next]_vars =>
         [(\A c \in Channel : ~HearBroadcast(c[1], c[2], c[3]))
             => \A n \in Node : Recorded(table[n], table'[n])]_vars
    BY NextRecords
<1> QED BY <1>1, InitSmall, NextSmall, Invariance, PTL DEF Spec

\* In a network of INP3 alone every loss of a last time-route is recorded, so
\* that the next round tells the neighbours of it.
THEOREM WithdrawalsAlwaysRecorded ==
    ASSUME ~UsesNodes
    PROVE  Spec => WithdrawalRecorded
<1>1. Inv /\ AllSmall /\ [Next]_vars =>
         [\A n, d \in Node :
             HasTime(RoutesTo(table[n], d)) /\ ~HasTime(RoutesTo(table'[n], d))
                 => d \in table'[n].withdrawn]_vars
    <2> SUFFICES ASSUME Inv, AllSmall, [Next]_vars
                 PROVE  \A n \in Node : Recorded(table[n], table'[n])
        BY DEF Recorded
    <2>1. \A c \in Channel : ~HearBroadcast(c[1], c[2], c[3])
        BY DEF HearBroadcast
    <2> QED BY <2>1, NextRecords
<1> QED BY <1>1, InitSmall, NextSmall, Invariance, PTL DEF Spec, WithdrawalRecorded


-----------------------------------------------------------------------------
(* Withdrawals in flight *)

OneLinkPerPair == \A l, k \in InRange : l[1] = k[1] => l = k

\* t has a time-route to d by way of v.
TimeVia(t, d, v) == \E r \in RoutesTo(t, d) : Timed(r) /\ r.via = v

\* What a RIF says of d.
Tells(rif, d)   == \E rip \in rif : rip.dest = d /\ rip.time = Horizon
Teaches(rif, d) == \E rip \in rif : rip.dest = d /\ rip.time < Horizon

\* Of d, what is in flight withdraws whatever it teaches before.
Unlearnt(flight, d) ==
    \A i \in DOMAIN flight : Teaches(flight[i], d) =>
        \E k \in DOMAIN flight : i < k /\ Tells(flight[k], d)

WillTell(flight, d) == \E k \in DOMAIN flight : Tells(flight[k], d)

\* Once the RIFs in flight from n have arrived, m has no time-route to d by n.
Settled(n, m, p, d) ==
    /\ Unlearnt(rifs[<<n, m, p>>], d)
    /\ TimeVia(table[m], d, <<p, n>>) => WillTell(rifs[<<n, m, p>>], d)

\* n has nothing to tell of d: it has a time, or the withdrawal is noted.
InHand(t, d) == d \in t.withdrawn \/ HasTime(RoutesTo(t, d))

AllToldOf ==
    \A n, m, d \in Node : \A p \in PortsBetween(n, m) :
        n # m /\ d # n => InHand(table[n], d) \/ Settled(n, m, p, d)

\* Routes, neighbours and RIFs are those of links there are.
LinksOnly ==
    /\ \A n \in Node : /\ \A r \in table[n].routes : <<{n, r.via[2]}, r.via[1]>> \in InRange
                       /\ \A v \in table[n].neighbours : <<{n, v[2]}, v[1]>> \in InRange
    /\ \A c \in Channel : rifs[c] # <<>> => <<{c[1], c[2]}, c[3]>> \in InRange

Told == LinksOnly /\ AllToldOf

-----------------------------------------------------------------------------
(* What calls on a table do *)

\* u is t after a call that takes time-routes away and notes it.
Loses(t, u) ==
    /\ Recorded(t, u)
    /\ t.withdrawn \subseteq u.withdrawn
    /\ \A d \in Node : \A v : TimeVia(u, d, v) => TimeVia(t, d, v)
    /\ \A r \in u.routes : \E s \in t.routes : s.via = r.via
    /\ u.neighbours \subseteq t.neighbours

\* Routes are removed, and the lost times noted.
LEMMA WithoutLoses ==
    ASSUME NEW t, NEW gone \in SUBSET t.routes, NEW left
    PROVE  Loses(t, Without(t, gone, left))
<1> DEFINE u == Without(t, gone, left)
<1>1. /\ u.routes = t.routes \ gone /\ u.withdrawn = t.withdrawn \cup Lost(t, gone)
      /\ u.neighbours \subseteq t.neighbours
    BY DEF Without
<1>2. Recorded(t, u)
    BY WithoutRecords
<1> HIDE DEF u
<1> QED BY <1>1, <1>2 DEF Loses, TimeVia, RoutesTo, u

\* The sweep ages routes and removes those too old.
LEMMA SweepLoses ==
    ASSUME NEW n \in Node, NEW t, GoodTable(t, n)
    PROVE  Loses(t, Sweep(t))
<1> DEFINE gone     == {r \in t.routes : r.obsolescence <= 1}
           u        == Without(t, gone, {})
           older(r) == [r EXCEPT !.obsolescence = @ - 1]
<1>1. Loses(t, u) /\ GoodTable(u, n)
    BY WithoutLoses, WithoutGood
<1> HIDE DEF u, gone
<1>2. Sweep(t) = [u EXCEPT !.routes = {older(r) : r \in u.routes}]
    BY DEF Sweep, u, gone
<1>3. \A r \in u.routes : /\ older(r).dest = r.dest /\ older(r).time = r.time
                          /\ older(r).via = r.via
    BY <1>1 DEF GoodTable, Good, Route
<1>4. /\ Sweep(t).routes = {older(r) : r \in u.routes}
      /\ Sweep(t).withdrawn = u.withdrawn /\ Sweep(t).neighbours = u.neighbours
    BY <1>1, <1>2 DEF GoodTable, Table
<1> HIDE DEF older
<1>5. Recorded(t, Sweep(t))
    BY SweepRecords
<1>6. \A d \in Node : \A v : TimeVia(Sweep(t), d, v) => TimeVia(u, d, v)
    BY <1>3, <1>4 DEF TimeVia, RoutesTo, Timed
<1>7. \A r \in Sweep(t).routes : \E s \in u.routes : s.via = r.via
    BY <1>3, <1>4
<1> QED BY <1>1, <1>4, <1>5, <1>6, <1>7 DEF Loses

\* A RIP leaves the times of other vias, and of its own one only if it teaches.
LEMMA IngestRipTimes ==
    ASSUME NEW me, NEW via, NEW x \in Rip, NEW sntt \in SnttChoices,
           NEW R \in SUBSET Route, NEW s \in IngestRip(R, me, via, x, sntt)
    PROVE  /\ s.via = via \/ s \in R
           /\ Timed(s) /\ s.via = via => x.time < Horizon
           /\ Timed(s) /\ s.via # via => s \in R
<1>0. x.time \in Nat /\ Horizon \in Nat
    BY LimitAssumption DEF Rip
<1>1. CASE Withdraws(x, sntt)
    <2> DEFINE old == {r \in R : r.via = via /\ Timed(r)}
               cut(r) == [r EXCEPT !.time = Horizon, !.hops = 0]
    <2>1. s \in R \ old \/ \E r \in old : s = cut(r)
        BY <1>1 DEF IngestRip, WithdrawInp3
    <2>2. \A r \in old : cut(r).via = via /\ ~Timed(cut(r))
        BY <1>0 DEF Route, Timed
    <2> HIDE DEF cut
    <2> QED BY <2>1, <2>2
<1>2. CASE ~Withdraws(x, sntt)
    <2>1. x.time < Horizon
        BY <1>0, <1>2 DEF Withdraws
    <2>2. s.via = via \/ s \in R
        BY <1>2, CapShrinks DEF IngestRip, UpsertInp3Route
    <2> QED BY <2>1, <2>2
<1> QED BY <1>1, <1>2

\* A RIF tells a table of times through its sender, and of no others.
LEMMA IngestRifTimes ==
    ASSUME NEW n \in Node, NEW t, GoodTable(t, n),
           NEW via \in Via, via[2] # n,
           NEW rips, GoodRif(rips), NEW sntt \in SnttChoices, NEW admitted
    PROVE  LET u == IngestRif(t, n, via, rips, sntt, admitted)
           IN  /\ t.withdrawn \subseteq u.withdrawn /\ u.neighbours = t.neighbours
               /\ \A r \in u.routes : r.via = via \/ \E s \in t.routes : s.via = r.via
               /\ \A d \in Node : \A v : TimeVia(u, d, v) /\ v # via => TimeVia(t, d, v)
               /\ \A d \in Node : TimeVia(u, d, via) =>
                      (TimeVia(t, d, via) /\ ~Tells(rips, d)) \/ Teaches(rips, d)
<1> DEFINE heard == {rip \in rips : rip.dest \in Destinations(t) \cup admitted}
           left(x) == IngestRip(RoutesTo(t, x.dest), n, via, x, sntt)
           rest  == {r \in t.routes : \A rip \in heard : rip.dest # r.dest}
           all   == rest \cup UNION {left(x) : x \in heard}
           u     == IngestRif(t, n, via, rips, sntt, admitted)
<1>1. /\ u.routes = all /\ u.neighbours = t.neighbours
      /\ u.withdrawn = t.withdrawn \cup Forgotten(t, n, via, rips, sntt)
    BY DEF IngestRif, GoodTable, Table
<1>2. ASSUME NEW x \in heard, NEW s \in left(x)
      PROVE  /\ s.dest = x.dest
             /\ s.via = via \/ s \in t.routes
             /\ Timed(s) /\ s.via = via => x.time < Horizon
             /\ Timed(s) /\ s.via # via => s \in t.routes
    <2> DEFINE R == RoutesTo(t, x.dest)
    <2>1. x \in Rip /\ Covers(x)
        BY DEF GoodRif
    <2>2. GoodTo(R, n, x.dest) /\ R \in SUBSET Route /\ R \subseteq t.routes
        BY DEF GoodTable, Good, GoodTo, RoutesTo
    <2>3. Listed(R, {r.via : r \in R})
        BY DEF Listed
    <2>4. s \in IngestRip(R, n, via, x, sntt)
        BY <1>2
    <2> HIDE DEF R, heard, left
    <2>5. s.dest = x.dest
        BY <2>1, <2>2, <2>3, <2>4, IngestRipGood DEF GoodTo
    <2> QED BY <2>1, <2>2, <2>4, <2>5, IngestRipTimes
<1> HIDE DEF u, left
<1>3. \A r \in u.routes : r.via = via \/ \E s \in t.routes : s.via = r.via
    BY <1>1, <1>2
<1>4. ASSUME NEW d \in Node, NEW v, TimeVia(u, d, v), v # via
      PROVE  TimeVia(t, d, v)
    BY <1>1, <1>2, <1>4 DEF TimeVia, RoutesTo
<1>5. ASSUME NEW d \in Node, TimeVia(u, d, via)
      PROVE  (TimeVia(t, d, via) /\ ~Tells(rips, d)) \/ Teaches(rips, d)
    <2>1. PICK r \in u.routes : r.dest = d /\ Timed(r) /\ r.via = via
        BY <1>5 DEF TimeVia, RoutesTo
    <2>2. CASE r \in rest
        <3>1. d \in Destinations(t) /\ TimeVia(t, d, via)
            BY <2>1, <2>2 DEF Destinations, TimeVia, RoutesTo
        <3>2. \A rip \in rips : rip.dest # d
            BY <2>1, <2>2, <3>1
        <3> QED BY <3>1, <3>2 DEF Tells
    <2>3. CASE r \notin rest
        BY <1>1, <1>2, <2>1, <2>3 DEF Teaches
    <2> QED BY <2>2, <2>3
<1> QED BY <1>1, <1>3, <1>4, <1>5 DEF u

-----------------------------------------------------------------------------
(* The one link *)

\* Two nodes hear each other on the ports of links there are.
LEMMA PortsInRange ==
    ASSUME Inv, NEW n \in Node, NEW m \in Node, NEW p \in PortsBetween(n, m)
    PROVE  p \in Port /\ <<{n, m}, p>> \in InRange
BY DEF PortsBetween, Inv, LinksTyped

\* A node selects no other port for a neighbour than that of their link.
LEMMA GateOpen ==
    ASSUME Inv, LinksOnly, OneLinkPerPair,
           NEW n \in Node, NEW m \in Node, NEW p \in PortsBetween(n, m)
    PROVE  ChosenPort(table[m], n) \subseteq {p}
<1>1. <<{m, n}, p>> \in InRange
    <2>1. {m, n} = {n, m}
        OBVIOUS
    <2> QED BY <2>1, PortsInRange
<1>2. \A q : <<{m, n}, q>> \in InRange => q = p
    BY <1>1 DEF OneLinkPerPair
<1>3. \A r \in table[m].routes : r.via[2] = n => r.via[1] = p
    BY <1>2 DEF LinksOnly
<1>4. \A v \in table[m].neighbours : v[2] = n => v[1] = p
    BY <1>2 DEF LinksOnly
<1>5. \A q \in {r.via[1] : r \in {x \in BestRoute(table[m], n) : x.via[2] = n}} : q = p
    BY <1>3 DEF BestRoute, RoutesTo
<1>6. \A q \in {v[1] : v \in {w \in table[m].neighbours : w[2] = n}} : q = p
    BY <1>4
<1> QED BY <1>5, <1>6 DEF ChosenPort

\* A round reaches a neighbour by their link.
LEMMA RoundReaches ==
    ASSUME Inv, OneLinkPerPair,
           NEW n \in Node, NEW m \in Node, NEW p \in PortsBetween(n, m)
    PROVE  p \in SendPorts(n, m)
<1> DEFINE live   == PortsBetween(n, m)
           chosen == {r.via[1] : r \in {x \in BestRoute(table[n], m) : x.via[2] = m}}
<1>1. \A q \in live : q = p
    BY PortsInRange DEF OneLinkPerPair
<1>2. p \in Port /\ PortRank[p] <= PortRank[p]
    <2>1. p \in Port
        BY PortsInRange
    <2>2. PortRank[p] \in Nat
        BY <2>1, RankAssumption
    <2> QED BY <2>1, <2>2
<1>3. SendPorts(n, m) = IF chosen \cap live # {} THEN chosen \cap live
                        ELSE {x \in live : \A q \in live : PortRank[x] <= PortRank[q]}
    BY DEF SendPorts
<1> HIDE DEF live, chosen
<1>4. p \in live
    BY DEF live
<1> QED BY <1>1, <1>2, <1>3, <1>4

\* A round sends nothing on other ports.
LEMMA RoundKeepsToLinks ==
    ASSUME NEW n, NEW m
    PROVE  SendPorts(n, m) \subseteq PortsBetween(n, m)
BY DEF SendPorts

\* What a RIF says of a destination its sender has no time to.
LEMMA BuildRifTells ==
    ASSUME NEW n \in Node, NEW t, GoodTable(t, n), NEW m, NEW picked \in Picks(t, n),
           NEW d \in Node \ {n}, ~HasTime(RoutesTo(t, d))
    PROVE  LET rif == BuildRif(t, n, m, picked, t.withdrawn)
           IN  ~Teaches(rif, d) /\ (d \in t.withdrawn => Tells(rif, d))
<1> DEFINE told(r) == [dest |-> r.dest, hops |-> r.hops,
                       time |-> IF Poisoned(t, r, m) THEN Horizon ELSE Quantise(r.time)]
           gone    == {[dest |-> x, time |-> Horizon, hops |-> 0] :
                          x \in t.withdrawn \ ({n} \cup {r.dest : r \in picked})}
           rif     == BuildRif(t, n, m, picked, t.withdrawn)
<1>0. Horizon \in Nat
    BY LimitAssumption
<1>1. \A r \in picked : r.dest # d
    BY DEF Picks, QuickestRoutes, HasTime, RoutesTo
<1>2. rif = {[dest |-> n, time |-> 0, hops |-> 0]} \cup {told(r) : r \in picked} \cup gone
    BY DEF BuildRif
<1>3. \A x \in gone : x.time = Horizon
    OBVIOUS
<1>4. \A r \in picked : told(r).dest # d
    BY <1>1
<1>5. d \in t.withdrawn => [dest |-> d, time |-> Horizon, hops |-> 0] \in gone
    BY <1>1
<1> HIDE DEF told, gone, rif
<1>6. ~Teaches(rif, d)
    BY <1>0, <1>2, <1>3, <1>4 DEF Teaches
<1>7. d \in t.withdrawn => Tells(rif, d)
    BY <1>2, <1>5 DEF Tells
<1> QED BY <1>6, <1>7 DEF rif

-----------------------------------------------------------------------------
(* The invariant *)

\* It holds of empty tables.
LEMMA InitTold == Init => Told
<1> SUFFICES ASSUME Init PROVE Told
    OBVIOUS
<1>1. \A n \in Node : table[n].routes = {} /\ table[n].neighbours = {}
    BY DEF Init, EmptyTable
<1>2. \A c \in Channel : rifs[c] = <<>>
    BY DEF Init
<1>3. LinksOnly
    BY <1>1, <1>2 DEF LinksOnly
<1>4. ASSUME NEW n \in Node, NEW m \in Node, NEW d \in Node, NEW p \in PortsBetween(n, m), n # m
      PROVE  Settled(n, m, p, d)
    <2>1. <<n, m, p>> \in Channel
        BY <1>4 DEF Channel, PortsBetween
    <2>2. DOMAIN rifs[<<n, m, p>>] = {}
        BY <1>2, <2>1
    <2>3. ~TimeVia(table[m], d, <<p, n>>)
        BY <1>1 DEF TimeVia, RoutesTo
    <2> QED BY <2>2, <2>3 DEF Settled, Unlearnt
<1> QED BY <1>3, <1>4 DEF Told, AllToldOf

\* What is in hand stays so in a table that records what it loses.
LEMMA StaysInHand ==
    ASSUME NEW t, NEW u, Recorded(t, u), t.withdrawn \subseteq u.withdrawn,
           NEW d \in Node, InHand(t, d)
    PROVE  InHand(u, d)
BY DEF Recorded, InHand

\* A step that only takes away, and records it, keeps it.
LEMMA LossTold ==
    ASSUME Told, \A n \in Node : Loses(table[n], table'[n]),
           \A n, m \in Node : PortsBetween(n, m)' \subseteq PortsBetween(n, m),
           \A c \in Channel : rifs'[c] \in {rifs[c], <<>>},
           \A c \in Channel : c[3] \in PortsBetween(c[1], c[2])' => rifs'[c] = rifs[c]
    PROVE  Told'
<1>1. LinksOnly'
    BY DEF Told, LinksOnly, Loses
<1>2. ASSUME NEW n \in Node, NEW m \in Node, NEW d \in Node, NEW p \in PortsBetween(n, m)',
             n # m, d # n
      PROVE  InHand(table'[n], d) \/ Settled(n, m, p, d)'
    <2>1. InHand(table[n], d) \/ Settled(n, m, p, d)
        BY <1>2 DEF Told, AllToldOf
    <2>2. CASE InHand(table[n], d)
        BY <2>2, StaysInHand DEF Loses
    <2>3. CASE Settled(n, m, p, d)
        <3>1. <<n, m, p>> \in Channel
            BY <1>2 DEF Channel, PortsBetween
        <3>2. rifs'[<<n, m, p>>] = rifs[<<n, m, p>>]
            BY <3>1
        <3>3. TimeVia(table'[m], d, <<p, n>>) => TimeVia(table[m], d, <<p, n>>)
            BY DEF Loses
        <3> QED BY <2>3, <3>2, <3>3 DEF Settled
    <2> QED BY <2>1, <2>2, <2>3
<1> QED BY <1>1, <1>2 DEF Told, AllToldOf

\* The head of what is in flight has arrived.
LEMMA HeadArrives ==
    ASSUME NEW flight \in Seq(SUBSET Rip), flight # <<>>, NEW d, Unlearnt(flight, d)
    PROVE  /\ Unlearnt(Tail(flight), d)
           /\ WillTell(flight, d) /\ ~Tells(Head(flight), d) => WillTell(Tail(flight), d)
           /\ Teaches(Head(flight), d) => WillTell(Tail(flight), d)
<1> DEFINE rest == Tail(flight)
<1>1. /\ DOMAIN flight = 1 .. Len(flight) /\ Len(flight) \in Nat \ {0}
      /\ DOMAIN rest = 1 .. (Len(flight) - 1) /\ Head(flight) = flight[1]
      /\ \A i \in DOMAIN rest : rest[i] = flight[i + 1]
    OBVIOUS
<1>2. \A k \in DOMAIN flight : k # 1 => k - 1 \in DOMAIN rest /\ rest[k - 1] = flight[k]
    BY <1>1
<1> HIDE DEF rest
<1>3. ASSUME NEW i \in DOMAIN rest, Teaches(rest[i], d)
      PROVE  \E k \in DOMAIN rest : i < k /\ Tells(rest[k], d)
    <2>1. i + 1 \in DOMAIN flight /\ Teaches(flight[i + 1], d)
        BY <1>1, <1>3
    <2>2. PICK k \in DOMAIN flight : i + 1 < k /\ Tells(flight[k], d)
        BY <2>1 DEF Unlearnt
    <2>3. k # 1 /\ i < k - 1
        BY <1>1, <2>2
    <2> QED BY <1>2, <2>2, <2>3
<1>4. WillTell(flight, d) /\ ~Tells(Head(flight), d) => WillTell(rest, d)
    BY <1>1, <1>2 DEF WillTell
<1>5. Teaches(Head(flight), d) => WillTell(rest, d)
    <2> SUFFICES ASSUME Teaches(Head(flight), d) PROVE WillTell(rest, d)
        OBVIOUS
    <2>1. PICK k \in DOMAIN flight : 1 < k /\ Tells(flight[k], d)
        BY <1>1 DEF Unlearnt
    <2> QED BY <1>1, <1>2, <2>1 DEF WillTell
<1> QED BY <1>3, <1>4, <1>5 DEF rest, Unlearnt

\* A RIF that arrives keeps it.
LEMMA ReceiveTold ==
    ASSUME Inv, AllSmall, Told, OneLinkPerPair,
           NEW c \in Channel, ReceiveRif(c[1], c[2], c[3])
    PROVE  Told'
<1> DEFINE a == c[1]
           b == c[2]
           q == c[3]
           rips == Head(rifs[c])
           via == <<q, a>>
<1>0. a \in Node /\ b \in Node /\ q \in Port /\ a # b /\ c = <<a, b, q>>
    BY ChannelType
<1>1. PICK sntt \in SnttChoices, admitted \in SUBSET Node :
         IF ChosenPort(table[b], a) \subseteq {q}
         THEN table' = [table EXCEPT ![b] = IngestRif(table[b], b, via, rips, sntt, admitted)]
         ELSE UNCHANGED table
    BY <1>0 DEF ReceiveRif
<1>2. /\ rifs[c] # <<>>
      /\ rifs' = [rifs EXCEPT ![c] = Tail(rifs[c])]
      /\ UNCHANGED <<up, detached>>
    BY <1>0 DEF ReceiveRif
<1>3. /\ rifs \in [Channel -> Seq(SUBSET Rip)] /\ rifs[c] \in Seq(SUBSET Rip)
      /\ GoodRif(rips)
    BY <1>2 DEF Inv, RifsGood
<1>4. via \in Via /\ via[2] # b /\ via = <<q, a>>
    BY <1>0 DEF Via
<1>5. GoodTable(table[b], b) /\ table \in [Node -> Table]
    BY <1>0 DEF Inv, TablesGood
<1>6. <<{a, b}, q>> \in InRange
    BY <1>0, <1>2 DEF Told, LinksOnly
<1> DEFINE u == IngestRif(table[b], b, via, rips, sntt, admitted)
<1>7. /\ table[b].withdrawn \subseteq u.withdrawn /\ u.neighbours = table[b].neighbours
      /\ \A r \in u.routes : r.via = via \/ \E s \in table[b].routes : s.via = r.via
      /\ \A d \in Node : \A v : TimeVia(u, d, v) /\ v # via => TimeVia(table[b], d, v)
      /\ \A d \in Node : TimeVia(u, d, via) =>
             (TimeVia(table[b], d, via) /\ ~Tells(rips, d)) \/ Teaches(rips, d)
    <2>1. u = IngestRif(table[b], b, via, rips, sntt, admitted)
        OBVIOUS
    <2>2. b \in Node /\ GoodTable(table[b], b) /\ via \in Via /\ via[2] # b /\ GoodRif(rips)
        BY <1>0, <1>3, <1>4, <1>5
    <2> HIDE DEF u, via, rips, a, b, q
    <2> QED BY ONLY <2>1, <2>2, IngestRifTimes
<1>8. Recorded(table[b], u)
    <2> HIDE DEF via, rips, a, b, q
    <2> QED BY <1>0, <1>3, <1>4, <1>5, IngestRifRecords DEF AllSmall
<1> HIDE DEF u, via, rips, a, b, q
<1>9. table' = table \/ table' = [table EXCEPT ![b] = u]
    BY <1>1 DEF u
<1>10. \A n \in Node : n # b => table'[n] = table[n]
    BY <1>5, <1>9
<1>11. table'[b] = table[b] \/ table'[b] = u
    BY <1>0, <1>5, <1>9
<1>12. LinksOnly'
    <2>1. ASSUME NEW n \in Node
          PROVE  /\ \A r \in table'[n].routes : <<{n, r.via[2]}, r.via[1]>> \in InRange
                 /\ \A v \in table'[n].neighbours : <<{n, v[2]}, v[1]>> \in InRange
        <3>1. CASE table'[n] = table[n]
            BY <3>1 DEF Told, LinksOnly
        <3>2. CASE n = b /\ table'[b] = u
            <4>1. <<{b, via[2]}, via[1]>> \in InRange
                <5>1. {b, a} = {a, b} /\ via[2] = a /\ via[1] = q
                    BY <1>4
                <5> QED BY <1>6, <5>1
            <4>2. /\ \A s \in table[b].routes : <<{b, s.via[2]}, s.via[1]>> \in InRange
                  /\ \A v \in table[b].neighbours : <<{b, v[2]}, v[1]>> \in InRange
                BY <1>0 DEF Told, LinksOnly
            <4>3. ASSUME NEW r \in u.routes
                  PROVE  <<{b, r.via[2]}, r.via[1]>> \in InRange
                BY <1>7, <4>1, <4>2
            <4> QED BY <1>7, <3>2, <4>2, <4>3
        <3> QED BY <1>10, <1>11, <3>1, <3>2
    <2>2. \A k \in Channel : rifs'[k] # <<>> => rifs[k] # <<>>
        BY <1>2, <1>3
    <2> QED BY <2>1, <2>2 DEF Told, LinksOnly
<1>13. ASSUME NEW n \in Node, NEW m \in Node, NEW d \in Node, NEW p \in PortsBetween(n, m)',
              n # m, d # n
       PROVE  InHand(table'[n], d) \/ Settled(n, m, p, d)'
    <2>0. p \in PortsBetween(n, m) /\ p \in Port
        BY <1>2 DEF PortsBetween
    <2>1. InHand(table[n], d) \/ Settled(n, m, p, d)
        BY <1>13, <2>0 DEF Told, AllToldOf
    <2>2. CASE InHand(table[n], d)
        <3>1. CASE table'[n] = table[n]
            BY <2>2, <3>1
        <3>2. CASE n = b /\ table'[b] = u
            BY <1>7, <1>8, <2>2, <3>2, StaysInHand
        <3> QED BY <1>10, <1>11, <3>1, <3>2
    <2>3. CASE Settled(n, m, p, d) /\ <<n, m, p>> = c
        <3>1. n = a /\ m = b /\ p = q
            BY <1>0, <2>3
        <3>2. ChosenPort(table[b], a) \subseteq {q}
            BY <1>0, <2>0, <3>1, GateOpen DEF Told
        <3>3. table'[b] = u
            BY <1>0, <1>1, <1>5, <3>2 DEF u
        <3>4. rifs'[c] = Tail(rifs[c])
            BY <1>2, <1>3
        <3>5. Unlearnt(rifs[c], d) /\ (TimeVia(table[b], d, via) => WillTell(rifs[c], d))
            BY <1>0, <1>4, <2>3, <3>1 DEF Settled
        <3>6. /\ Unlearnt(Tail(rifs[c]), d)
              /\ WillTell(rifs[c], d) /\ ~Tells(rips, d) => WillTell(Tail(rifs[c]), d)
              /\ Teaches(rips, d) => WillTell(Tail(rifs[c]), d)
            BY <1>2, <1>3, <3>5, HeadArrives DEF rips
        <3>7. TimeVia(u, d, via) => WillTell(Tail(rifs[c]), d)
            BY <1>7, <3>5, <3>6
        <3> QED BY <1>0, <1>4, <3>1, <3>3, <3>4, <3>6, <3>7 DEF Settled
    <2>4. CASE Settled(n, m, p, d) /\ <<n, m, p>> # c
        <3>1. <<n, m, p>> \in Channel
            BY <1>13, <2>0 DEF Channel
        <3>2. rifs'[<<n, m, p>>] = rifs[<<n, m, p>>]
            BY <1>2, <1>3, <2>4, <3>1
        <3>3. TimeVia(table'[m], d, <<p, n>>) => TimeVia(table[m], d, <<p, n>>)
            <4>1. CASE table'[m] = table[m]
                BY <4>1
            <4>2. CASE m = b /\ table'[b] = u
                <5>1. <<p, n>> # via
                    BY <1>0, <1>4, <2>4, <4>2
                <5> QED BY <1>7, <4>2, <5>1
            <4> QED BY <1>10, <1>11, <4>1, <4>2
        <3> QED BY <2>4, <3>2, <3>3 DEF Settled
    <2> QED BY <2>1, <2>2, <2>3, <2>4
<1> QED BY <1>12, <1>13 DEF Told, AllToldOf

\* A RIF is sent behind what is in flight.
LEMMA RifFollows ==
    ASSUME NEW flight \in Seq(SUBSET Rip), NEW rif \in SUBSET Rip, NEW d, ~Teaches(rif, d)
    PROVE  /\ Unlearnt(flight, d) => Unlearnt(Append(flight, rif), d)
           /\ WillTell(flight, d) => WillTell(Append(flight, rif), d)
           /\ Tells(rif, d) => Unlearnt(Append(flight, rif), d) /\ WillTell(Append(flight, rif), d)
<1> DEFINE longer == Append(flight, rif)
           last   == Len(flight) + 1
<1>1. /\ last \in DOMAIN longer /\ longer[last] = rif
      /\ \A i \in DOMAIN flight : i \in DOMAIN longer /\ longer[i] = flight[i]
      /\ \A i \in DOMAIN longer : i = last \/ i \in DOMAIN flight
      /\ \A i \in DOMAIN flight : i < last
    <2>1. /\ Len(flight) \in Nat /\ DOMAIN flight = 1 .. Len(flight)
          /\ DOMAIN longer = 1 .. last
        OBVIOUS
    <2>2. longer[last] = rif /\ \A i \in DOMAIN flight : longer[i] = flight[i]
        BY <2>1
    <2> HIDE DEF longer
    <2> QED BY <2>1, <2>2
<1> HIDE DEF longer, last
<1>2. Unlearnt(flight, d) => Unlearnt(longer, d)
    BY <1>1 DEF Unlearnt
<1>3. WillTell(flight, d) => WillTell(longer, d)
    BY <1>1 DEF WillTell
<1>4. Tells(rif, d) => Unlearnt(longer, d) /\ WillTell(longer, d)
    BY <1>1 DEF Unlearnt, WillTell
<1> QED BY <1>2, <1>3, <1>4 DEF longer

\* A round of RIFs keeps it: what is withdrawn goes to every neighbour at once.
LEMMA RoundTold ==
    ASSUME Inv, Told, OneLinkPerPair, NEW b \in Node, Round(b)
    PROVE  Told'
<1>1. PICK picked \in Picks(table[b], b) :
         rifs' = [c \in Channel |->
                     IF c \notin Outgoing(b) THEN rifs[c]
                     ELSE Append(rifs[c], BuildRif(table[b], b, c[2], picked,
                                                   table[b].withdrawn))]
    BY DEF Round
<1>2. table' = [table EXCEPT ![b].withdrawn = {}] /\ UNCHANGED <<up, detached>>
    BY DEF Round
<1>3. table \in [Node -> Table] /\ GoodTable(table[b], b)
    BY DEF Inv, TablesGood
<1>4. \A n \in Node : /\ table'[n].routes = table[n].routes
                      /\ table'[n].neighbours = table[n].neighbours
                      /\ n # b => table'[n] = table[n]
    BY <1>2, <1>3 DEF Table
<1>5. LinksOnly'
    <2>1. ASSUME NEW c \in Channel, rifs'[c] # <<>>
          PROVE  <<{c[1], c[2]}, c[3]>> \in InRange
        <3>1. CASE c \in Outgoing(b)
            <4>1. c[1] \in Node /\ c[2] \in Node /\ c[1] = b /\ c[3] \in SendPorts(b, c[2])
                BY <3>1, ChannelType DEF Outgoing
            <4>2. c[3] \in PortsBetween(c[1], c[2])
                BY <4>1, RoundKeepsToLinks
            <4> QED BY <4>1, <4>2, PortsInRange
        <3>2. CASE c \notin Outgoing(b)
            BY <1>1, <2>1, <3>2 DEF Told, LinksOnly
        <3> QED BY <3>1, <3>2
    <2> QED BY <1>4, <2>1 DEF Told, LinksOnly
<1>6. ASSUME NEW n \in Node, NEW m \in Node, NEW d \in Node, NEW p \in PortsBetween(n, m)',
             n # m, d # n
      PROVE  InHand(table'[n], d) \/ Settled(n, m, p, d)'
    <2> DEFINE c == <<n, m, p>>
    <2>0. p \in PortsBetween(n, m) /\ c \in Channel /\ c[1] = n /\ c[2] = m /\ c[3] = p
        BY <1>2, <1>6 DEF PortsBetween, Channel
    <2>1. InHand(table[n], d) \/ Settled(n, m, p, d)
        BY <1>6, <2>0 DEF Told, AllToldOf
    <2>2. TimeVia(table'[m], d, <<p, n>>) <=> TimeVia(table[m], d, <<p, n>>)
        BY <1>4 DEF TimeVia, RoutesTo
    <2>3. HasTime(RoutesTo(table'[n], d)) <=> HasTime(RoutesTo(table[n], d))
        BY <1>4 DEF HasTime, RoutesTo
    <2>4. rifs[c] \in Seq(SUBSET Rip)
        BY <2>0 DEF Inv, RifsGood
    <2> HIDE DEF c
    <2>5. CASE n # b
        <3>1. rifs'[c] = rifs[c]
            BY <1>1, <2>0, <2>5 DEF Outgoing
        <3>2. table'[n] = table[n]
            BY <1>4, <2>5
        <3> QED BY <2>1, <2>2, <3>1, <3>2 DEF Settled, c
    <2>6. CASE n = b /\ HasTime(RoutesTo(table[n], d))
        BY <2>3, <2>6 DEF InHand
    <2>7. CASE n = b /\ ~HasTime(RoutesTo(table[n], d))
        <3> DEFINE rif == BuildRif(table[b], b, m, picked, table[b].withdrawn)
        <3>1. c \in Outgoing(b)
            BY <2>0, <2>7, RoundReaches DEF Outgoing
        <3>2. rifs'[c] = Append(rifs[c], rif)
            BY <1>1, <2>0, <3>1
        <3>3. ~Teaches(rif, d) /\ (d \in table[b].withdrawn => Tells(rif, d))
            BY <1>3, <1>6, <2>7, BuildRifTells
        <3>4. rif \in SUBSET Rip
            BY <1>3, <1>6, BuildRifGood DEF GoodRif
        <3> HIDE DEF rif
        <3>5. CASE d \in table[b].withdrawn
            <4>1. Unlearnt(rifs'[c], d) /\ WillTell(rifs'[c], d)
                BY <2>4, <3>2, <3>3, <3>4, <3>5, RifFollows
            <4> QED BY <4>1 DEF Settled, c
        <3>6. CASE d \notin table[b].withdrawn
            <4>1. Settled(n, m, p, d)
                BY <2>1, <2>7, <3>6 DEF InHand
            <4>2. /\ Unlearnt(rifs'[c], d)
                  /\ TimeVia(table[m], d, <<p, n>>) => WillTell(rifs'[c], d)
                BY <2>4, <3>2, <3>3, <3>4, <4>1, RifFollows DEF Settled, c
            <4> QED BY <2>2, <4>2 DEF Settled, c
        <3> QED BY <3>5, <3>6
    <2> QED BY <2>5, <2>6, <2>7
<1> QED BY <1>5, <1>6 DEF Told, AllToldOf

\* A table is no worse for a call that does nothing.
LEMMA SameLoses == \A t : Loses(t, t)
BY DEF Loses, Recorded

\* So does every kind of loss.
LEMMA LossesTold ==
    ASSUME Inv, Told
    PROVE  /\ \A n \in Node : SweepTable(n) => Told'
           /\ \A c \in Channel : DialFails(c[1], c[2], c[3]) => Told'
           /\ \A c \in Channel : NeighbourSilent(c[1], c[2]) => Told'
           /\ \A n \in Node, p \in Port : DetachPort(n, p) => Told'
           /\ \A l \in InRange : LinkFails(l) => Told'
<1>0. table \in [Node -> Table] /\ \A n \in Node : GoodTable(table[n], n)
    BY DEF Inv, TablesGood
<1>1. ASSUME NEW n \in Node, NEW t, Loses(table[n], t), table' = [table EXCEPT ![n] = t]
      PROVE  \A m \in Node : Loses(table[m], table'[m])
    <2>1. \A m \in Node : table'[m] = IF m = n THEN t ELSE table[m]
        BY <1>0, <1>1
    <2> QED BY <1>1, <2>1, SameLoses
<1>2. ASSUME \A n \in Node : Loses(table[n], table'[n]), UNCHANGED <<up, detached, rifs>>
      PROVE  Told'
    <2>1. \A n, m \in Node : PortsBetween(n, m)' = PortsBetween(n, m)
        BY <1>2 DEF PortsBetween
    <2> QED BY <1>2, <2>1, LossTold
<1>3. ASSUME NEW n \in Node, SweepTable(n) PROVE Told'
    <2>1. Loses(table[n], Sweep(table[n]))
        BY <1>0, SweepLoses
    <2> QED BY <1>1, <1>2, <1>3, <2>1 DEF SweepTable
<1>4. ASSUME NEW c \in Channel, DialFails(c[1], c[2], c[3]) PROVE Told'
    <2> DEFINE t == MarkNeighbourDown(table[c[1]], <<c[3], c[2]>>)
    <2>1. Loses(table[c[1]], t)
        BY WithoutLoses DEF MarkNeighbourDown
    <2>2. table' = [table EXCEPT ![c[1]] = t] /\ UNCHANGED <<up, detached, rifs>>
        BY <1>4 DEF DialFails
    <2> HIDE DEF t
    <2> QED BY <1>1, <1>2, <2>1, <2>2, ChannelType
<1>5. ASSUME NEW c \in Channel, NeighbourSilent(c[1], c[2]) PROVE Told'
    <2> DEFINE t == MarkNeighbourDownAllPorts(table[c[1]], c[2])
    <2>1. Loses(table[c[1]], t)
        BY WithoutLoses DEF MarkNeighbourDownAllPorts
    <2>2. table' = [table EXCEPT ![c[1]] = t] /\ UNCHANGED <<up, detached, rifs>>
        BY <1>5 DEF NeighbourSilent
    <2> HIDE DEF t
    <2> QED BY <1>1, <1>2, <2>1, <2>2, ChannelType
<1>6. ASSUME NEW n \in Node, NEW p \in Port, DetachPort(n, p) PROVE Told'
    <2>1. /\ detached' = detached \cup {<<n, p>>} /\ up' = up
          /\ table' = [table EXCEPT ![n] = MarkPortDown(table[n], p)]
          /\ rifs' = [c \in Channel |-> IF n \in {c[1], c[2]} /\ c[3] = p
                                        THEN <<>> ELSE rifs[c]]
        BY <1>6 DEF DetachPort
    <2>2. Loses(table[n], MarkPortDown(table[n], p))
        BY WithoutLoses DEF MarkPortDown
    <2>3. \A m \in Node : Loses(table[m], table'[m])
        BY <1>1, <2>1, <2>2
    <2>4. \A a, b \in Node : PortsBetween(a, b)' =
              PortsBetween(a, b) \ (IF n \in {a, b} THEN {p} ELSE {})
        BY <2>1 DEF PortsBetween
    <2>5. \A c \in Channel : rifs'[c] \in {rifs[c], <<>>}
        BY <2>1
    <2>6. \A c \in Channel : c[3] \in PortsBetween(c[1], c[2])' => rifs'[c] = rifs[c]
        BY <2>1, <2>4, ChannelType
    <2>7. \A a, b \in Node : PortsBetween(a, b)' \subseteq PortsBetween(a, b)
        BY <2>4
    <2> QED BY <2>3, <2>5, <2>6, <2>7, LossTold
<1>7. ASSUME NEW l \in InRange, LinkFails(l) PROVE Told'
    <2>1. /\ up' = up \ {l} /\ UNCHANGED <<table, detached>>
          /\ rifs' = [c \in Channel |-> IF <<{c[1], c[2]}, c[3]>> = l THEN <<>> ELSE rifs[c]]
        BY <1>7 DEF LinkFails
    <2>2. \A m \in Node : Loses(table[m], table'[m])
        BY <2>1, SameLoses
    <2>3. \A a, b \in Node : PortsBetween(a, b)' =
              {p \in PortsBetween(a, b) : <<{a, b}, p>> # l}
        BY <2>1 DEF PortsBetween
    <2>4. \A c \in Channel : rifs'[c] \in {rifs[c], <<>>}
        BY <2>1
    <2>5. \A c \in Channel : c[3] \in PortsBetween(c[1], c[2])' => rifs'[c] = rifs[c]
        BY <2>1, <2>3, ChannelType
    <2>6. \A a, b \in Node : PortsBetween(a, b)' \subseteq PortsBetween(a, b)
        BY <2>3
    <2> QED BY <2>2, <2>4, <2>5, <2>6, LossTold
<1> QED BY <1>3, <1>4, <1>5, <1>6, <1>7

\* Every step of a network of INP3 alone keeps it.
LEMMA NextTold ==
    ASSUME ~UsesNodes, OneLinkPerPair
    PROVE  Inv /\ AllSmall /\ Told /\ [Next]_vars => Told'
<1> SUFFICES ASSUME Inv, AllSmall, Told, [Next]_vars PROVE Told'
    OBVIOUS
<1>1. CASE \E n \in Node : Round(n)
    BY <1>1, RoundTold
<1>2. CASE \E c \in Channel : ReceiveRif(c[1], c[2], c[3])
    BY <1>2, ReceiveTold
<1>3. CASE \/ \E n \in Node : SweepTable(n)
           \/ \E c \in Channel : DialFails(c[1], c[2], c[3]) \/ NeighbourSilent(c[1], c[2])
           \/ \E n \in Node, p \in Port : DetachPort(n, p)
           \/ \E l \in InRange : LinkFails(l)
    BY <1>3, LossesTold
<1>4. CASE UNCHANGED vars
    BY <1>4 DEF vars, Told, LinksOnly, AllToldOf, PortsBetween, Settled
<1>5. \A c \in Channel : ~HearBroadcast(c[1], c[2], c[3])
    BY DEF HearBroadcast
<1> QED BY <1>1, <1>2, <1>3, <1>4, <1>5 DEF Next

\* No withdrawal is forgotten: in a network of INP3 alone with one link between
\* two nodes at most, whoever still routes by time through a node that has lost
\* the destination is told with its next RIF, or by one that is in flight,
\* whatever links fail, dials fail and ports are detached meanwhile.
THEOREM WithdrawalsAlwaysTold ==
    ASSUME ~UsesNodes, OneLinkPerPair
    PROVE  Spec => []StaleIsToldOf
<1>1. Told => StaleIsToldOf
    <2> SUFFICES ASSUME Told, NEW n \in Node, NEW m \in Node, NEW d \in Node,
                        NEW p \in PortsBetween(n, m), m # n, Stale(n, m, d, p),
                        d \notin table[n].withdrawn
                 PROVE  WillTell(rifs[<<n, m, p>>], d) /\ p \in Port
        BY SMTT(60) DEF StaleIsToldOf, WillTell, Tells
    <2>1. TimeVia(table[m], d, <<p, n>>) /\ d # n /\ ~HasTime(RoutesTo(table[n], d))
        BY DEF Stale, TimeVia
    <2>2. Settled(n, m, p, d)
        BY <2>1 DEF Told, AllToldOf, InHand
    <2> QED BY <2>1, <2>2 DEF Settled, PortsBetween
<1> QED BY <1>1, InitTold, NextTold, InitSmall, NextSmall, Invariance, PTL DEF Spec

=============================================================================
