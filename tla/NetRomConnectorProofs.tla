------------------------- MODULE NetRomConnectorProofs -------------------------
(***************************************************************************)
(* Nothing goes round the interlinks for ever, for any nodes, links and    *)
(* modes: datagrams run out of hops (DatagramsEnd), and a probe ends where *)
(* it came from (ProbeIsAwaited).                                          *)
(*                                                                         *)
(* Neither is inductive.  A datagram has to be followed through the dials  *)
(* it waits for, and what its path may be on the link it takes depends on  *)
(* the node it came from (OnItsWay).  A probe is the only one of its pair  *)
(* because a node sends none while it awaits one, and it is awaited for as *)
(* long as it is out because the reset window is longer than it takes:     *)
(* the invariant bounds how long a neighbour has not been probed by how    *)
(* long it has not answered (Aged), and the time a probe has been out by   *)
(* where it is (Awaited).                                                  *)
(*                                                                         *)
(* A neighbour that speaks INP3 is given up only when an answer of its was *)
(* lost (AliveIsKept).  That nothing of the probe is under way when it     *)
(* goes follows from the ages.  That nothing is ever lost where no link    *)
(* fails does not: a frame is sent in vain when the other end is not       *)
(* connected, reflected over the link that interlinkForCallsign picks and  *)
(* not the one it came by, and swept away when an end is dialled over a    *)
(* session that is up.  The second part therefore says that every          *)
(* neighbour an engine knows is at the other end of the only link to it,   *)
(* listed by both and up (Meeting), that what is under way is on such      *)
(* links (Carrying), that no listed end is down, so that none is dialled   *)
(* again (Listed, Called), that every route is over these links (Along),   *)
(* and, on top of these, that the probe a node awaits the answer of is     *)
(* under way (Hearing).                                                    *)
(***************************************************************************)
EXTENDS NetRomConnector, SequenceTheorems, FiniteSetTheorems, TLAPS

LOCAL INSTANCE SequencesExt

-----------------------------------------------------------------------------
(* Sequences of whatever *)

Queue(s) == \E F : s \in Seq(F)

LEMMA QueueEmpty == Queue(<<>>) /\ DOMAIN <<>> = {}
    BY DEF Queue

LEMMA QueueAppend ==
    ASSUME NEW s, Queue(s), NEW x
    PROVE  LET q == Append(s, x)  k == Len(s) + 1
           IN  /\ Queue(q) /\ DOMAIN q = DOMAIN s \cup {k}
               /\ k \notin DOMAIN s /\ q[k] = x
               /\ \A i \in DOMAIN s : q[i] = s[i]
<1>1. PICK F : s \in Seq(F)
    BY DEF Queue
<1>2. Append(s, x) \in Seq(F \cup {x})
    BY <1>1
<1> QED BY <1>1, <1>2 DEF Queue

LEMMA QueueTail ==
    ASSUME NEW s, Queue(s), s # <<>>
    PROVE  /\ Queue(Tail(s)) /\ 1 \in DOMAIN s /\ Head(s) = s[1]
           /\ \A i \in DOMAIN Tail(s) : i \in Nat /\ i + 1 # 1
           /\ \A i \in DOMAIN Tail(s) : i + 1 \in DOMAIN s /\ Tail(s)[i] = s[i + 1]
<1>1. PICK F : s \in Seq(F)
    BY DEF Queue
<1> QED BY <1>1 DEF Queue

LEMMA QueueMap ==
    ASSUME NEW s, Queue(s), NEW q, q = [i \in DOMAIN s |-> q[i]]
    PROVE  Queue(q)
<1>1. PICK F : s \in Seq(F)
    BY DEF Queue
<1>2. DOMAIN s = 1 .. Len(s) /\ Len(s) \in Nat
    BY <1>1
<1> DEFINE G == {q[i] : i \in DOMAIN s}
<1>3. q \in [1 .. Len(s) -> G]
    BY <1>2
<1> HIDE DEF G
<1>4. q \in Seq(G)
    BY <1>2, <1>3
<1> QED BY <1>4 DEF Queue

LEMMA QueueRemove ==
    ASSUME NEW s, Queue(s), NEW k \in DOMAIN s
    PROVE  /\ Queue(RemoveAt(s, k))
           /\ \A i \in DOMAIN RemoveAt(s, k) :
                 \E j \in DOMAIN s : RemoveAt(s, k)[i] = s[j]
<1>1. PICK F : s \in Seq(F)
    BY DEF Queue
<1>2. k \in 1 .. Len(s)
    BY <1>1
<1> DEFINE a == SubSeq(s, 1, k - 1)  b == SubSeq(s, k + 1, Len(s))
<1>3. /\ a \in Seq(F) /\ Len(a) = k - 1
      /\ \A i \in 1 .. k - 1 : a[i] = s[i]
    <2> \A i \in 1 .. k - 1 : s[i] \in F
        BY <1>1, <1>2
    <2> QED BY <1>1, <1>2, SubSeqProperties
<1>4. /\ b \in Seq(F) /\ Len(b) = Len(s) - k
      /\ \A i \in 1 .. Len(s) - k : b[i] = s[k + i]
    <2> \A i \in k + 1 .. Len(s) : s[i] \in F
        BY <1>1, <1>2
    <2> QED BY <1>1, <1>2, SubSeqProperties
<1>5. RemoveAt(s, k) = a \o b
    BY DEF RemoveAt
<1> HIDE DEF a, b
<1>6. /\ a \o b \in Seq(F) /\ Len(a \o b) = Len(s) - 1
      /\ \A i \in 1 .. Len(s) - 1 :
            (a \o b)[i] = IF i <= k - 1 THEN a[i] ELSE b[i - (k - 1)]
    <2>1. /\ a \o b \in Seq(F) /\ Len(a \o b) = Len(a) + Len(b)
          /\ \A i \in 1 .. Len(a) + Len(b) :
                (a \o b)[i] = IF i <= Len(a) THEN a[i] ELSE b[i - Len(a)]
        BY <1>3, <1>4, ConcatProperties
    <2>2. Len(a) + Len(b) = Len(s) - 1
        BY <1>1, <1>2, <1>3, <1>4
    <2> QED BY <1>3, <2>1, <2>2
<1>7. ASSUME NEW i \in 1 .. Len(s) - 1
      PROVE  \E j \in DOMAIN s : (a \o b)[i] = s[j]
    <2>1. CASE i <= k - 1
        BY <1>1, <1>2, <1>3, <1>6, <2>1
    <2>2. CASE ~(i <= k - 1)
        <3>1. /\ k + (i - (k - 1)) \in DOMAIN s /\ i - (k - 1) \in 1 .. Len(s) - k
            BY <1>1, <1>2, <2>2
        <3> QED BY <3>1, <1>4, <1>6, <2>2
    <2> QED BY <2>1, <2>2
<1>8. Queue(a \o b) /\ DOMAIN (a \o b) = 1 .. Len(s) - 1
    BY <1>6 DEF Queue
<1> QED BY <1>5, <1>7, <1>8
-----------------------------------------------------------------------------
(* The invariant *)

\* A datagram that left a for b: it has never gone back where it came from, nor
\* is it about to.
Trodden(a, b, p) ==
    LET k == Len(p.path)
    IN  /\ p = [kind |-> "DATA", origin |-> p.origin, dest |-> p.dest, ttl |-> p.ttl,
                flow |-> p.flow, opens |-> p.opens, path |-> p.path]
        /\ p.ttl \in Nat /\ p.path \in Seq(Node)
        /\ k > 0 /\ p.path[k] = a
        /\ \A j \in 3 .. k : p.path[j] # p.path[j - 2]
        /\ k > 1 => b # p.path[k - 1]
        /\ \A j \in 2 .. k : p.path[j] # p.origin

\* The same, with the hops it may still take.
OnItsWay(a, b, p) ==
    Trodden(a, b, p) /\ p.ttl > 0 /\ Len(p.path) + p.ttl <= MaxTimeToLive + 2

Carried(e, x) ==
    /\ x = [frame |-> x.frame, late |-> x.late]
    /\ x.frame.kind \in {"RIF", "L3RTT", "DATA"}
    /\ x.frame.kind = "DATA" => OnItsWay(e[1], e[2], x.frame)

Wired(w) ==
    /\ w = [e \in End |-> w[e]]
    /\ \A e \in End : Queue(w[e]) /\ \A i \in DOMAIN w[e] : Carried(e, w[e][i])

Waiting(n, d) ==
    /\ d = [end |-> d.end, work |-> d.work, outcome |-> d.outcome]
    /\ d.end \in End /\ d.end[1] = n
    /\ d.work.kind # "circuit" => OnItsWay(n, d.end[2], d.work.packet)

Dialled(D) ==
    /\ D = [n \in Node |-> D[n]]
    /\ \A n \in Node : Queue(D[n]) /\ \A i \in DOMAIN D[n] : Waiting(n, D[n][i])

\* What is known of the times of probes only where the answer of the last one is
\* in before a neighbour is given up, and where whoever is heard of is probed.
Timely == ProbeUnknown /\ ResetWindow >= Interval + 2

\* A neighbour r of n, where the nodes of ticks have ticked in this unit of time:
\* if its answer is not awaited it was reflected lately, no earlier than it was
\* probed, and else an interval before it was probed at most.
Aged(n, ticks, r) ==
    /\ {"sent", "refl", "awaiting"} \subseteq DOMAIN r
    /\ r.sent \in Nat \cup {Never} /\ r.refl \in Nat
    /\ r.awaiting => r.sent # Never
    /\ Timely =>
          /\ ~r.awaiting => /\ r.refl <= Interval /\ (r.sent # Never => r.refl <= r.sent)
                            /\ n \in ticks => r.refl < Interval
          /\ r.awaiting => r.refl <= Interval + r.sent

\* The engine of n.
Engine(n, ticks, E) ==
    /\ E = [m \in DOMAIN E |-> E[m]]
    /\ n \notin left.inp3 => DOMAIN E = {}
    /\ \A m \in DOMAIN E : Aged(n, ticks, E[m])

Engines(E) ==
    E = [n \in Node |-> E[n]] /\ \A n \in Node : Engine(n, ticked, E[n])

\* A probe, or one reflected; the two of an end, and the one that is not n.
IsProbe(x) == Timely /\ x.frame.kind = "L3RTT"

Pair(e) == {e[1], e[2]}

Mate(e, n) == IF n = e[1] THEN e[2] ELSE e[1]

\* The units of time a probe has been under way at most.
Under(e, x) == (IF x.frame.origin = e[1] THEN 0 ELSE 1) + (IF x.late THEN 1 ELSE 0)

Awaited(E, e, x) ==
    LET n == x.frame.origin
    IN  /\ n \in {e[1], e[2]}
        /\ Mate(e, n) \in DOMAIN E[n]
        /\ E[n][Mate(e, n)].awaiting /\ E[n][Mate(e, n)].sent <= Under(e, x)

\* Every probe is awaited where it came from, and it is the only one of the pair.
Probing(E, w) ==
    /\ \A e \in End : \A i \in DOMAIN w[e] : IsProbe(w[e][i]) => Awaited(E, e, w[e][i])
    /\ \A e, g \in End : \A i \in DOMAIN w[e], j \in DOMAIN w[g] :
          /\ IsProbe(w[e][i]) /\ IsProbe(w[g][j])
          /\ w[e][i].frame.origin = w[g][j].frame.origin
          /\ Pair(e) = Pair(g)
          => e = g /\ i = j

Rec(t, E, l, s, D, w) ==
    [table |-> t, eng |-> E, links |-> l, sess |-> s, dials |-> D, wire |-> w]

Sound(S) ==
    /\ S = Rec(S.table, S.eng, S.links, S.sess, S.dials, S.wire)
    /\ S.links \subseteq End
    /\ Dialled(S.dials) /\ Wired(S.wire) /\ Engines(S.eng) /\ Probing(S.eng, S.wire)

-----------------------------------------------------------------------------
(* Frames that come and go *)

\* v has no probe that w has not.
Quiet(w, v) ==
    \A e \in End : \A i \in DOMAIN v[e] :
        IsProbe(v[e][i]) => i \in DOMAIN w[e] /\ v[e][i] = w[e][i]

LEMMA QuietProbing ==
    ASSUME NEW E, NEW w, NEW v, Probing(E, w), Quiet(w, v)
    PROVE  Probing(E, v)
<1>1. ASSUME NEW e \in End, NEW i \in DOMAIN v[e], IsProbe(v[e][i])
      PROVE  Awaited(E, e, v[e][i])
    BY <1>1 DEF Probing, Quiet
<1>2. ASSUME NEW e \in End, NEW g \in End, NEW i \in DOMAIN v[e], NEW j \in DOMAIN v[g],
             IsProbe(v[e][i]), IsProbe(v[g][j]),
             v[e][i].frame.origin = v[g][j].frame.origin, Pair(e) = Pair(g)
      PROVE  e = g /\ i = j
    <2>1. i \in DOMAIN w[e] /\ v[e][i] = w[e][i] /\ j \in DOMAIN w[g] /\ v[g][j] = w[g][j]
        BY <1>2 DEF Quiet
    <2> QED BY <1>2, <2>1 DEF Probing
<1> QED BY <1>1, <1>2 DEF Probing

LEMMA QuietTwice ==
    ASSUME NEW w, NEW v, NEW u, Quiet(w, v), Quiet(v, u)
    PROVE  Quiet(w, u)
    BY DEF Quiet

LEMMA Appended ==
    ASSUME NEW w, Wired(w), NEW e \in End, NEW f, f.kind = "DATA",
           OnItsWay(e[1], e[2], f)
    PROVE  LET v == [w EXCEPT ![e] = Append(w[e], [frame |-> f, late |-> FALSE])]
           IN  Wired(v) /\ Quiet(w, v)
<1> DEFINE x == [frame |-> f, late |-> FALSE]
           q == Append(w[e], x)
           v == [w EXCEPT ![e] = q]
<1>1. v = [g \in End |-> IF g = e THEN q ELSE w[g]]
    BY DEF Wired
<1>2. x = [frame |-> x.frame, late |-> x.late] /\ x.frame = f
    OBVIOUS
<1>3. Queue(w[e]) /\ \A i \in DOMAIN w[e] : Carried(e, w[e][i])
    BY DEF Wired
<1> HIDE DEF x
<1>4. /\ Queue(q) /\ DOMAIN q = DOMAIN w[e] \cup {Len(w[e]) + 1}
      /\ q[Len(w[e]) + 1] = x
      /\ \A i \in DOMAIN w[e] : q[i] = w[e][i]
    BY <1>3, QueueAppend
<1> HIDE DEF q
<1>5. Carried(e, x)
    BY <1>2 DEF Carried
<1>6. \A i \in DOMAIN q : Carried(e, q[i])
    BY <1>3, <1>4, <1>5
<1> HIDE DEF v
<1>7. Wired(v)
    BY <1>1, <1>4, <1>6 DEF Wired
<1>8. Quiet(w, v)
    <2>1. ~IsProbe(x)
        BY <1>2 DEF IsProbe
    <2> QED BY <1>1, <1>4, <2>1 DEF Quiet
<1> QED BY <1>7, <1>8 DEF v, q, x

LEMMA Cleared ==
    ASSUME NEW w, Wired(w), NEW e \in End
    PROVE  LET v == [w EXCEPT ![e] = <<>>] IN Wired(v) /\ Quiet(w, v)
<1> DEFINE v == [w EXCEPT ![e] = <<>>]
<1>1. v = [g \in End |-> IF g = e THEN <<>> ELSE w[g]]
    BY DEF Wired
<1> HIDE DEF v
<1>2. Wired(v)
    BY <1>1, QueueEmpty DEF Wired
<1>3. Quiet(w, v)
    BY <1>1, QueueEmpty DEF Quiet
<1> QED BY <1>2, <1>3 DEF v

LEMMA OtherEnd == \A e \in End : Other(e) \in End /\ Other(Other(e)) = e
    BY DEF End, Other

-----------------------------------------------------------------------------
(* What changes a State a little *)

LEMMA ChosenIn == ASSUME NEW one, one # {} PROVE The(one) \in one
    BY DEF The

\* What is in a State, and what a change of one part leaves.
LEMMA RecHas ==
    ASSUME NEW t, NEW E, NEW l, NEW s, NEW D, NEW w
    PROVE  LET R == Rec(t, E, l, s, D, w)
           IN  /\ R.table = t /\ R.eng = E /\ R.links = l
               /\ R.sess = s /\ R.dials = D /\ R.wire = w
    BY DEF Rec

LEMMA RecWith ==
    ASSUME NEW t, NEW E, NEW l, NEW s, NEW D, NEW w, NEW v,
           NEW R, R = Rec(t, E, l, s, D, w)
    PROVE  /\ [R EXCEPT !.table = v] = Rec(v, E, l, s, D, w)
           /\ [R EXCEPT !.eng = v] = Rec(t, v, l, s, D, w)
           /\ [R EXCEPT !.links = v] = Rec(t, E, v, s, D, w)
           /\ [R EXCEPT !.sess = v] = Rec(t, E, l, v, D, w)
           /\ [R EXCEPT !.dials = v] = Rec(t, E, l, s, v, w)
           /\ [R EXCEPT !.wire = v] = Rec(t, E, l, s, D, v)
    BY DEF Rec

LEMMA WireSound ==
    ASSUME NEW S, Sound(S), NEW v, Wired(v), Probing(S.eng, v)
    PROVE  Sound([S EXCEPT !.wire = v])
<1>1. [S EXCEPT !.wire = v] = Rec(S.table, S.eng, S.links, S.sess, S.dials, v)
    BY DEF Sound, Rec
<1> QED BY <1>1 DEF Sound, Rec

LEMMA SendSound ==
    ASSUME NEW S, Sound(S), NEW e \in End, NEW f, f.kind = "DATA", OnItsWay(e[1], e[2], f)
    PROVE  Sound(Send(S, e, f))
<1> DEFINE v == [S.wire EXCEPT ![e] = Append(S.wire[e], [frame |-> f, late |-> FALSE])]
<1>1. Wired(v) /\ Quiet(S.wire, v)
    BY Appended DEF Sound
<1>2. Send(S, e, f) = IF BothUp(S, e) THEN [S EXCEPT !.wire = v] ELSE S
    BY DEF Send
<1> HIDE DEF v
<1>3. Probing(S.eng, v)
    BY <1>1, QuietProbing DEF Sound
<1> QED BY <1>1, <1>2, <1>3, WireSound

LEMMA TableSound ==
    ASSUME NEW S, Sound(S), NEW t
    PROVE  Sound([S EXCEPT !.table = t])
<1>1. [S EXCEPT !.table = t] = Rec(t, S.eng, S.links, S.sess, S.dials, S.wire)
    BY DEF Sound, Rec
<1> QED BY <1>1 DEF Sound, Rec

LEMMA LinksSound ==
    ASSUME NEW S, Sound(S), NEW l \in SUBSET End
    PROVE  Sound([S EXCEPT !.links = l])
<1>1. [S EXCEPT !.links = l] = Rec(S.table, S.eng, l, S.sess, S.dials, S.wire)
    BY DEF Sound, Rec
<1> QED BY <1>1 DEF Sound, Rec

LEMMA DialsSound ==
    ASSUME NEW S, Sound(S), NEW D, Dialled(D)
    PROVE  Sound([S EXCEPT !.dials = D])
<1>1. [S EXCEPT !.dials = D] = Rec(S.table, S.eng, S.links, S.sess, D, S.wire)
    BY DEF Sound, Rec
<1> QED BY <1>1 DEF Sound, Rec

LEMMA WaitsSound ==
    ASSUME NEW S, Sound(S), NEW e \in End, NEW work, NEW outcome,
           work.kind # "circuit" => OnItsWay(e[1], e[2], work.packet)
    PROVE  Sound(Waits(S, e, work, outcome))
<1> DEFINE x == [end |-> e, work |-> work, outcome |-> outcome]
           n == e[1]
           q == Append(S.dials[n], x)
           D == [S.dials EXCEPT ![n] = q]
<1>1. n \in Node
    BY DEF End
<1>2. D = [m \in Node |-> IF m = n THEN q ELSE S.dials[m]]
    BY DEF Sound, Dialled
<1>3. Waiting(n, x)
    BY DEF Waiting
<1>4. Queue(S.dials[n]) /\ \A i \in DOMAIN S.dials[n] : Waiting(n, S.dials[n][i])
    BY <1>1 DEF Sound, Dialled
<1>5. Waits(S, e, work, outcome) = [S EXCEPT !.dials = D]
    BY DEF Waits
<1> HIDE DEF x
<1>6. /\ Queue(q) /\ DOMAIN q = DOMAIN S.dials[n] \cup {Len(S.dials[n]) + 1}
      /\ q[Len(S.dials[n]) + 1] = x
      /\ \A i \in DOMAIN S.dials[n] : q[i] = S.dials[n][i]
    BY <1>4, QueueAppend
<1> HIDE DEF q
<1>7. \A i \in DOMAIN q : Waiting(n, q[i])
    BY <1>3, <1>4, <1>6
<1> HIDE DEF D, n
<1>8. Dialled(D)
    BY <1>1, <1>2, <1>6, <1>7 DEF Sound, Dialled
<1> QED BY <1>5, <1>8, DialsSound

\* Cleared both ways, as a dial and the loss of an end do.
LEMMA ClearedBoth ==
    ASSUME NEW S, Sound(S), NEW e \in End, NEW s, NEW l \in SUBSET End
    PROVE  LET w == [[S.wire EXCEPT ![e] = <<>>] EXCEPT ![Other(e)] = <<>>]
           IN  Sound(Rec(S.table, S.eng, l, s, S.dials, w))
<1> DEFINE u == [S.wire EXCEPT ![e] = <<>>]
           w == [u EXCEPT ![Other(e)] = <<>>]
<1>1. Wired(u) /\ Quiet(S.wire, u)
    BY Cleared DEF Sound
<1> HIDE DEF u
<1>2. Wired(w) /\ Quiet(u, w)
    BY <1>1, Cleared, OtherEnd
<1> HIDE DEF w
<1>3. Probing(S.eng, w)
    BY <1>1, <1>2, QuietTwice, QuietProbing DEF Sound
<1>4. Sound(Rec(S.table, S.eng, l, s, S.dials, w))
    BY <1>2, <1>3 DEF Sound, Rec
<1> QED BY <1>4 DEF u, w

\* A state in which an end dials.
LEMMA DialledRec ==
    ASSUME NEW S, Sound(S), NEW e
    PROVE  [S EXCEPT !.sess[e] = "Dialling", !.wire[e] = <<>>, !.wire[Other(e)] = <<>>] =
               Rec(S.table, S.eng, S.links, [S.sess EXCEPT ![e] = "Dialling"], S.dials,
                   [[S.wire EXCEPT ![e] = <<>>] EXCEPT ![Other(e)] = <<>>])
<1> DEFINE s == [S.sess EXCEPT ![e] = "Dialling"]
           u == [S.wire EXCEPT ![e] = <<>>]
           w == [u EXCEPT ![Other(e)] = <<>>]
           A == [S EXCEPT !.sess = s]
           B == [A EXCEPT !.wire = [A.wire EXCEPT ![e] = <<>>]]
           T == [B EXCEPT !.wire = [B.wire EXCEPT ![Other(e)] = <<>>]]
<1>1. A = Rec(S.table, S.eng, S.links, s, S.dials, S.wire)
    BY DEF Sound, Rec
<1>2. [S EXCEPT !.sess[e] = "Dialling", !.wire[e] = <<>>, !.wire[Other(e)] = <<>>] = T
    OBVIOUS
<1> HIDE DEF A, s
<1>3. A.wire = S.wire
    BY <1>1 DEF Rec
<1>4. B = [A EXCEPT !.wire = u]
    BY <1>3
<1> HIDE DEF B, u
<1>5. B = Rec(S.table, S.eng, S.links, s, S.dials, u)
    BY <1>1, <1>4 DEF Rec
<1>6. B.wire = u
    BY <1>5 DEF Rec
<1>7. T = [B EXCEPT !.wire = w]
    BY <1>6
<1> HIDE DEF T, w
<1>8. T = Rec(S.table, S.eng, S.links, s, S.dials, w)
    BY <1>5, <1>7 DEF Rec
<1> QED BY <1>2, <1>8 DEF s, u, w

LEMMA DialSound ==
    ASSUME NEW S, Sound(S), NEW e, NEW work,
           work.kind # "circuit" => OnItsWay(e[1], e[2], work.packet)
    PROVE  Sound(Dial(S, e, work))
<1>1. CASE e \notin End
    BY <1>1 DEF Dial
<1>2. CASE e \in End /\ <<e[1], e[3]>> \notin attached
    BY <1>2, WaitsSound DEF Dial
<1>3. CASE e \in End /\ <<e[1], e[3]>> \in attached
    <2> DEFINE s == [S.sess EXCEPT ![e] = "Dialling"]
               w == [[S.wire EXCEPT ![e] = <<>>] EXCEPT ![Other(e)] = <<>>]
               T == [S EXCEPT !.sess[e] = "Dialling",
                              !.wire[e] = <<>>, !.wire[Other(e)] = <<>>]
    <2>1. T = Rec(S.table, S.eng, S.links, s, S.dials, w)
        BY DialledRec
    <2> HIDE DEF s
    <2>2. Sound(Rec(S.table, S.eng, S.links, s, S.dials, w))
        BY <1>3, ClearedBoth DEF Sound
    <2>3. Sound(T)
        BY <2>1, <2>2
    <2>4. Dial(S, e, work) = Waits(T, e, work, "pending")
        BY <1>3 DEF Dial
    <2> HIDE DEF T
    <2> QED BY <1>3, <2>3, <2>4, WaitsSound
<1> QED BY <1>1, <1>2, <1>3

-----------------------------------------------------------------------------
(* Datagrams *)

LEMMA LinkOf ==
    ASSUME NEW S, NEW n, NEW m, NEW e \in interlinkForCallsign(S, n, m)
    PROVE  e \in S.links /\ e[1] = n /\ e[2] = m
    BY DEF interlinkForCallsign

LEMMA FreshOnItsWay ==
    ASSUME NEW n \in Node, NEW m, NEW d, NEW flow, NEW opens
    PROVE  LET p == SentBy(Datagram(n, d, MaxTimeToLive, flow, opens), n)
           IN  p.kind = "DATA" /\ OnItsWay(n, m, p)
<1> DEFINE p == SentBy(Datagram(n, d, MaxTimeToLive, flow, opens), n)
<1>1. p = [kind |-> "DATA", origin |-> n, dest |-> d, ttl |-> MaxTimeToLive,
           flow |-> flow, opens |-> opens, path |-> <<n>>]
    BY DEF SentBy, Datagram
<1> HIDE DEF p
<1>2. /\ p.kind = "DATA" /\ p.path = <<n>> /\ p.ttl = MaxTimeToLive
      /\ p = [kind |-> "DATA", origin |-> p.origin, dest |-> p.dest, ttl |-> p.ttl,
              flow |-> p.flow, opens |-> p.opens, path |-> p.path]
    BY <1>1
<1>3. p.path \in Seq(Node) /\ Len(p.path) = 1 /\ p.path[1] = n
    BY <1>2
<1>4. Trodden(n, m, p)
    BY <1>2, <1>3, ForwardingAssumption DEF Trodden
<1>5. OnItsWay(n, m, p)
    BY <1>2, <1>3, <1>4, ForwardingAssumption DEF OnItsWay
<1> QED BY <1>2, <1>5 DEF p

LEMMA sendNetRomPacketSound ==
    ASSUME NEW S, Sound(S), NEW n \in Node, NEW d, NEW flow, NEW opens
    PROVE  Sound(sendNetRomPacket(S, n, Datagram(n, d, MaxTimeToLive, flow, opens)))
<1> DEFINE p      == Datagram(n, d, MaxTimeToLive, flow, opens)
           direct == interlinkForCallsign(S, n, p.dest)
           active == selectActiveRoute(S.table[n], p.dest)
           heard  == {v \in S.table[n].neighbours : v[2] = p.dest}
           first  == {v \in heard : \A w \in heard : PortRank[v[1]] <= PortRank[w[1]]}
           vias   == IF active # {} THEN {r.via : r \in active} ELSE first
           link   == IF direct # {} THEN direct ELSE {EndOf(n, v) : v \in vias} \cap S.links
<1>1. sendNetRomPacket(S, n, p) =
        IF link = {} THEN S ELSE Send(S, The(link), SentBy(p, n))
    BY DEF sendNetRomPacket
<1>2. \A e \in link : e \in End /\ e[1] = n
    <2> HIDE DEF p, vias
    <2>1. \A e \in direct : e \in End /\ e[1] = n
        BY LinkOf DEF Sound
    <2>2. \A v \in vias : EndOf(n, v)[1] = n
        BY DEF EndOf
    <2> QED BY <2>1, <2>2 DEF Sound
<1>3. link # {} => The(link) \in link
    BY ChosenIn
<1> HIDE DEF link
<1>4. ASSUME link # {} PROVE Sound(Send(S, The(link), SentBy(p, n)))
    <2> DEFINE e == The(link)
               q == SentBy(p, n)
    <2>1. e \in End /\ e[1] = n
        BY <1>2, <1>3, <1>4
    <2>2. q.kind = "DATA" /\ OnItsWay(n, e[2], q)
        BY FreshOnItsWay
    <2> HIDE DEF q, e
    <2>3. Sound(Send(S, e, q))
        BY <2>1, <2>2, SendSound
    <2> QED BY <2>3 DEF q, e
<1> QED BY <1>1, <1>4

LEMMA connectCircuitSound ==
    ASSUME NEW S, Sound(S), NEW n \in Node, NEW d, NEW attempt
    PROVE  Sound(connectCircuit(S, n, d, attempt))
<1> DEFINE best == selectActiveRoute(S.table[n], d)
           e    == EndOf(n, The(best).via)
           work == [kind |-> "circuit", dest |-> d, attempt |-> attempt]
<1>1. Sound(originateCircuit(S, n, d))
    BY sendNetRomPacketSound DEF originateCircuit
<1>2. work.kind = "circuit"
    OBVIOUS
<1>3. \/ connectCircuit(S, n, d, attempt) = S
      \/ connectCircuit(S, n, d, attempt) = originateCircuit(S, n, d)
      \/ connectCircuit(S, n, d, attempt) = Dial(S, e, work)
    BY DEF connectCircuit
<1> HIDE DEF e, work
<1>4. Sound(Dial(S, e, work))
    BY <1>2, DialSound
<1> QED BY <1>1, <1>3, <1>4

\* Whatever the table, a datagram that goes on goes neither back nor past the
\* hops it has.
LEMMA GoesOn ==
    ASSUME NEW p, NEW from, NEW me, NEW t, NEW r \in decideForward(p, from, me, t)
    PROVE  r.via[2] # from /\ ~(p.ttl <= 1) /\ p.origin # me
    BY DEF decideForward, selectNextHop, selectInp3NextHop, selectWeighted, FirstOf,
           OnwardRoutes

LEMMA ForwardOnItsWay ==
    ASSUME NEW a, NEW b \in Node, NEW m, NEW p, Trodden(a, b, p),
           p.ttl > 1 => Len(p.path) + Smaller(p.ttl - 1, MaxTimeToLive) <= MaxTimeToLive + 1,
           p.ttl > 1, p.origin # b, m # a
    PROVE  LET q == SentBy(Forwarded(p), b)
           IN  q.kind = "DATA" /\ OnItsWay(b, m, q)
<1> DEFINE q == SentBy(Forwarded(p), b)
           k == Len(p.path)
<1>1. q = [kind |-> "DATA", origin |-> p.origin, dest |-> p.dest,
           ttl |-> Smaller(p.ttl - 1, MaxTimeToLive),
           flow |-> p.flow, opens |-> p.opens, path |-> Append(p.path, b)]
    <2>1. Forwarded(p) = [kind |-> "DATA", origin |-> p.origin, dest |-> p.dest,
                          ttl |-> IF p.ttl - 1 < MaxTimeToLive THEN p.ttl - 1
                                  ELSE MaxTimeToLive,
                          flow |-> p.flow, opens |-> p.opens, path |-> p.path]
        BY DEF Trodden, Forwarded
    <2>2. (IF p.ttl - 1 < MaxTimeToLive THEN p.ttl - 1 ELSE MaxTimeToLive)
             = Smaller(p.ttl - 1, MaxTimeToLive)
        BY DEF Smaller
    <2> DEFINE u == Smaller(p.ttl - 1, MaxTimeToLive)
               f == Forwarded(p)
    <2>3. f = [kind |-> "DATA", origin |-> p.origin, dest |-> p.dest, ttl |-> u,
               flow |-> p.flow, opens |-> p.opens, path |-> p.path]
        BY <2>1, <2>2
    <2>4. q = [f EXCEPT !.path = Append(f.path, b)]
        BY DEF SentBy
    <2> HIDE DEF f, u, q
    <2>5. q = [kind |-> "DATA", origin |-> p.origin, dest |-> p.dest, ttl |-> u,
               flow |-> p.flow, opens |-> p.opens, path |-> Append(p.path, b)]
        BY <2>3, <2>4
    <2> QED BY <2>5 DEF u
<1> HIDE DEF q
<1>2. /\ q.kind = "DATA" /\ q.path = Append(p.path, b) /\ q.origin = p.origin
      /\ q.ttl = Smaller(p.ttl - 1, MaxTimeToLive)
      /\ q = [kind |-> "DATA", origin |-> q.origin, dest |-> q.dest, ttl |-> q.ttl,
              flow |-> q.flow, opens |-> q.opens, path |-> q.path]
    BY <1>1
<1>3. /\ p.ttl \in Nat /\ p.path \in Seq(Node) /\ k \in Nat \ {0} /\ p.path[k] = a
      /\ \A j \in 3 .. k : p.path[j] # p.path[j - 2]
      /\ k > 1 => b # p.path[k - 1]
      /\ \A j \in 2 .. k : p.path[j] # p.origin
    BY DEF Trodden
<1> HIDE DEF k
<1>4. /\ q.path \in Seq(Node) /\ Len(q.path) = k + 1 /\ q.path[k + 1] = b
      /\ \A j \in 1 .. k : q.path[j] = p.path[j]
    BY <1>2, <1>3 DEF k
<1>5. q.ttl \in Nat /\ q.ttl > 0 /\ k + q.ttl <= MaxTimeToLive + 1
    BY <1>2, <1>3, ForwardingAssumption DEF Smaller, k
<1>6. \A j \in 3 .. k + 1 : q.path[j] # q.path[j - 2]
    <2> TAKE j \in 3 .. k + 1
    <2>1. CASE j = k + 1
        <3>1. k - 1 \in 1 .. k /\ j - 2 = k - 1 /\ k > 1
            BY <1>3, <2>1
        <3> QED BY <1>3, <1>4, <2>1, <3>1
    <2>2. CASE j # k + 1
        <3>1. j \in 3 .. k /\ j \in 1 .. k /\ j - 2 \in 1 .. k
            BY <1>3, <2>2
        <3> QED BY <1>3, <1>4, <3>1
    <2> QED BY <2>1, <2>2
<1>7. \A j \in 2 .. k + 1 : q.path[j] # q.origin
    <2> TAKE j \in 2 .. k + 1
    <2>1. CASE j = k + 1
        BY <1>2, <1>4, <2>1
    <2>2. CASE j # k + 1
        <3>1. j \in 2 .. k /\ j \in 1 .. k
            BY <1>3, <2>2
        <3> QED BY <1>2, <1>3, <1>4, <3>1
    <2> QED BY <2>1, <2>2
<1>8. m # q.path[k]
    <2>1. k \in 1 .. k /\ p.path[k] = a
        BY <1>3
    <2> QED BY <1>4, <2>1
<1>9. /\ Len(q.path) - 1 = k /\ Len(q.path) > 0 /\ q.path[Len(q.path)] = b
      /\ Len(q.path) > 1 => m # q.path[Len(q.path) - 1]
    BY <1>3, <1>4, <1>8
<1>10. Trodden(b, m, q)
    <2>1. /\ \A j \in 3 .. Len(q.path) : q.path[j] # q.path[j - 2]
          /\ \A j \in 2 .. Len(q.path) : q.path[j] # q.origin
        BY <1>4, <1>6, <1>7
    <2> QED BY <1>2, <1>4, <1>5, <1>9, <2>1 DEF Trodden
<1>11. OnItsWay(b, m, q)
    <2>1. Len(q.path) + q.ttl <= MaxTimeToLive + 2
        BY <1>3, <1>4, <1>5, ForwardingAssumption
    <2> QED BY <1>5, <1>10, <2>1 DEF OnItsWay
<1> QED BY <1>2, <1>11 DEF q

\* A datagram at n that came from a neighbour, this or one outside the model.
Arrived(n, from, p) ==
    /\ Trodden(from, n, p)
    /\ p.ttl > 1 => Len(p.path) + Smaller(p.ttl - 1, MaxTimeToLive) <= MaxTimeToLive + 1

LEMMA ArrivesOnItsWay ==
    ASSUME NEW a, NEW b, NEW p, OnItsWay(a, b, p)
    PROVE  Arrived(b, a, p)
<1>1. p.ttl \in Nat /\ Len(p.path) \in Nat
    BY DEF OnItsWay, Trodden
<1> QED BY SMTT(60), <1>1, ForwardingAssumption DEF OnItsWay, Arrived, Smaller

LEMMA forwardDatagramSound ==
    ASSUME NEW S, Sound(S), NEW n \in Node, NEW from, NEW p, Arrived(n, from, p)
    PROVE  Sound(forwardDatagram(S, n, from, p))
<1> DEFINE onward == decideForward(p, from, n, S.table[n])
           e      == EndOf(n, The(onward).via)
           q      == SentBy(Forwarded(p), n)
           work   == [kind |-> "datagram", packet |-> q]
<1>1. forwardDatagram(S, n, from, p) =
        IF onward = {} THEN S ELSE IF e \in S.links THEN Send(S, e, q) ELSE Dial(S, e, work)
    BY DEF forwardDatagram
<1>2. ASSUME onward # {}
      PROVE  q.kind = "DATA" /\ OnItsWay(n, e[2], q) /\ e[1] = n
    <2>1. The(onward) \in onward
        BY <1>2, ChosenIn
    <2> HIDE DEF onward
    <2>2. The(onward).via[2] # from /\ ~(p.ttl <= 1) /\ p.origin # n
        BY <2>1, GoesOn DEF onward
    <2>3. e[2] = The(onward).via[2] /\ e[1] = n
        BY DEF EndOf
    <2>4. p.ttl \in Nat /\ p.ttl > 1
        BY <2>2 DEF Arrived, Trodden
    <2> HIDE DEF e
    <2>5. q.kind = "DATA" /\ OnItsWay(n, e[2], q)
        BY <2>2, <2>3, <2>4, ForwardOnItsWay DEF Arrived
    <2> QED BY <2>3, <2>5
<1>3. work.kind = "datagram" /\ work.packet = q
    OBVIOUS
<1> HIDE DEF onward, e, q, work
<1>4. ASSUME onward # {}, e \in S.links PROVE Sound(Send(S, e, q))
    BY <1>2, <1>4, SendSound DEF Sound
<1>5. ASSUME onward # {} PROVE Sound(Dial(S, e, work))
    BY <1>2, <1>3, <1>5, DialSound
<1> QED BY <1>1, <1>4, <1>5

LEMMA onPacketSound ==
    ASSUME NEW S, Sound(S), NEW n \in Node, NEW from, NEW p, Arrived(n, from, p)
    PROVE  Sound(onPacket(S, n, from, p))
<1>1. Sound(deliverPacket(S, n, p))
    BY sendNetRomPacketSound DEF deliverPacket
<1> QED BY <1>1, forwardDatagramSound DEF onPacket

LEMMA ResolvedSound ==
    ASSUME NEW S, Sound(S), NEW n \in Node, NEW d, Waiting(n, d)
    PROVE  Sound(Resolved(S, n, d))
<1> DEFINE T == [S EXCEPT !.links = @ \cup {d.end}]
<1>1. d.end \in End /\ d.end[1] = n
      /\ (d.work.kind # "circuit" => OnItsWay(n, d.end[2], d.work.packet))
    BY DEF Waiting
<1>2. Sound(T)
    BY <1>1, LinksSound DEF Sound
<1>3. Resolved(S, n, d) = IF d.work.kind = "circuit" THEN originateCircuit(T, n, d.work.dest)
                          ELSE Send(T, d.end, d.work.packet)
    BY DEF Resolved
<1> HIDE DEF T
<1>4. Sound(originateCircuit(T, n, d.work.dest))
    BY <1>2, sendNetRomPacketSound DEF originateCircuit
<1>5. ASSUME d.work.kind # "circuit" PROVE Sound(Send(T, d.end, d.work.packet))
    <2>1. d.work.packet.kind = "DATA"
        BY <1>1, <1>5 DEF OnItsWay, Trodden
    <2> QED BY <1>1, <1>2, <1>5, <2>1, SendSound
<1> QED BY <1>3, <1>4, <1>5

LEMMA RejectedSound ==
    ASSUME NEW S, Sound(S), NEW n \in Node, NEW d, Waiting(n, d)
    PROVE  Sound(Rejected(S, n, d))
<1> DEFINE t == [S.table EXCEPT ![n] = MarkNeighbourDown(@, <<d.end[3], d.end[2]>>)]
           T == [S EXCEPT !.table = t]
<1>1. Sound(T)
    BY TableSound
<1>2. Rejected(S, n, d) = IF d.work.kind = "circuit"
                          THEN connectCircuit(T, n, d.work.dest, d.work.attempt + 1) ELSE T
    BY DEF Rejected
<1> HIDE DEF T
<1> QED BY <1>1, <1>2, connectCircuitSound

-----------------------------------------------------------------------------
(* Probes *)

\* No probe of n's to m, nor an answer to it, is under way.
NoneOut(w, n, m) ==
    \A e \in End : \A i \in DOMAIN w[e] :
        IsProbe(w[e][i]) /\ w[e][i].frame.origin = n => Pair(e) # {n, m}

\* w with a frame more on each end of out, which all are n's and to different
\* neighbours.
Sends(w, out, frames) ==
    [e \in End |-> IF e \in out THEN Append(w[e], [frame |-> frames[e[2]], late |-> FALSE])
                   ELSE w[e]]

OneEach(n, out, to) ==
    /\ \A e \in out : e \in End /\ e[1] = n /\ e[2] \in to
    /\ \A e, g \in out : e[2] = g[2] => e = g

SendsTo(S, n, frames, out) ==
    /\ OneEach(n, out, DOMAIN frames)
    /\ sendInp3(S, n, frames) = [S EXCEPT !.wire = Sends(S.wire, out, frames)]

\* What is in v was in w, or has been sent by out.
Extended(w, v, out, frames) ==
    \A e \in End : \A i \in DOMAIN v[e] :
        \/ i \in DOMAIN w[e] /\ v[e][i] = w[e][i]
        \/ /\ e \in out /\ i = Len(w[e]) + 1
           /\ v[e][i] = [frame |-> frames[e[2]], late |-> FALSE]

\* What is to be sent by out is awaited, if it is a probe, and is the only one.
Awaitable(E, w, out, frames) ==
    \A e \in out :
        LET x == [frame |-> frames[e[2]], late |-> FALSE]
        IN  IsProbe(x) => /\ Awaited(E, e, x)
                          /\ NoneOut(w, x.frame.origin, Mate(e, x.frame.origin))

LEMMA sendInp3Sends ==
    ASSUME NEW S, Sound(S), NEW n, NEW frames
    PROVE  \E out : SendsTo(S, n, frames, out)
<1> DEFINE link(m) == interlinkForCallsign(S, n, m)
           all == {The(link(m)) : m \in {x \in DOMAIN frames : link(x) # {}}}
           out == {e \in all : BothUp(S, e)}
<1>1. ASSUME NEW m \in DOMAIN frames, link(m) # {}
      PROVE  The(link(m)) \in End /\ The(link(m))[1] = n /\ The(link(m))[2] = m
    <2>1. The(link(m)) \in link(m)
        BY <1>1, ChosenIn
    <2> QED BY <2>1, LinkOf DEF Sound
<1> HIDE DEF link
<1>2. OneEach(n, all, DOMAIN frames)
    BY <1>1 DEF OneEach
<1> HIDE DEF all
<1>3. OneEach(n, out, DOMAIN frames)
    BY <1>2 DEF OneEach
<1>4. sendInp3(S, n, frames) = [S EXCEPT !.wire = [e \in End |->
            IF e \in all /\ BothUp(S, e)
            THEN Append(S.wire[e], [frame |-> frames[e[2]], late |-> FALSE]) ELSE S.wire[e]]]
    BY DEF sendInp3, all, link
<1>5. [e \in End |-> IF e \in all /\ BothUp(S, e)
            THEN Append(S.wire[e], [frame |-> frames[e[2]], late |-> FALSE]) ELSE S.wire[e]]
         = Sends(S.wire, out, frames)
    BY DEF Sends
<1> QED BY <1>3, <1>4, <1>5 DEF SendsTo

LEMMA SendsWired ==
    ASSUME NEW w, Wired(w), NEW n, NEW out, NEW to, OneEach(n, out, to), NEW frames,
           \A m \in to : frames[m].kind \in {"RIF", "L3RTT"}
    PROVE  LET v == Sends(w, out, frames)
           IN  Wired(v) /\ Extended(w, v, out, frames)
<1> DEFINE v == Sends(w, out, frames)
<1>1. v = [e \in End |-> v[e]]
    BY DEF Sends
<1>2. ASSUME NEW e \in End
      PROVE  /\ Queue(v[e]) /\ \A i \in DOMAIN v[e] : Carried(e, v[e][i])
             /\ \A i \in DOMAIN v[e] :
                  \/ i \in DOMAIN w[e] /\ v[e][i] = w[e][i]
                  \/ /\ e \in out /\ i = Len(w[e]) + 1
                     /\ v[e][i] = [frame |-> frames[e[2]], late |-> FALSE]
    <2>1. Queue(w[e]) /\ \A i \in DOMAIN w[e] : Carried(e, w[e][i])
        BY DEF Wired
    <2>2. CASE e \notin out
        <3>1. v[e] = w[e]
            BY <2>2 DEF Sends
        <3> QED BY <2>1, <3>1
    <2>3. CASE e \in out
        <3> DEFINE x == [frame |-> frames[e[2]], late |-> FALSE]
                   q == Append(w[e], x)
        <3>1. v[e] = q
            BY <2>3 DEF Sends
        <3>2. frames[e[2]].kind \in {"RIF", "L3RTT"}
            BY <2>3 DEF OneEach
        <3>3. Carried(e, x)
            BY <3>2 DEF Carried
        <3> HIDE DEF x
        <3>4. /\ Queue(q) /\ DOMAIN q = DOMAIN w[e] \cup {Len(w[e]) + 1}
              /\ q[Len(w[e]) + 1] = x
              /\ \A i \in DOMAIN w[e] : q[i] = w[e][i]
            BY <2>1, QueueAppend
        <3> HIDE DEF q
        <3>5. Queue(q) /\ \A i \in DOMAIN q : Carried(e, q[i])
            BY <2>1, <3>3, <3>4
        <3>6. ASSUME NEW i \in DOMAIN q
              PROVE  \/ i \in DOMAIN w[e] /\ q[i] = w[e][i]
                     \/ i = Len(w[e]) + 1 /\ q[i] = x
            <4>1. i \in DOMAIN w[e] \/ i = Len(w[e]) + 1
                BY <3>4, <3>6
            <4> QED BY <3>4, <4>1
        <3> HIDE DEF v
        <3> QED BY <2>3, <3>1, <3>5, <3>6 DEF x
    <2> QED BY <2>2, <2>3
<1> HIDE DEF v
<1>3. Wired(v)
    BY <1>1, <1>2 DEF Wired
<1> QED BY <1>2, <1>3 DEF v, Extended

\* A probe more on each of some ends, each awaited and the only one of its pair.
LEMMA SendsProbing ==
    ASSUME NEW E, NEW w, Probing(E, w), NEW v, NEW n, NEW out, NEW to, OneEach(n, out, to),
           NEW frames, Extended(w, v, out, frames), Awaitable(E, w, out, frames)
    PROVE  Probing(E, v)
<1> DEFINE x(e) == [frame |-> frames[e[2]], late |-> FALSE]
           Old(e, i) == i \in DOMAIN w[e] /\ v[e][i] = w[e][i]
           New(e, i) == e \in out /\ i = Len(w[e]) + 1 /\ v[e][i] = x(e)
<1>1. \A e \in End : \A i \in DOMAIN v[e] : Old(e, i) \/ New(e, i)
    BY DEF Extended
<1>2. ASSUME NEW e \in out, IsProbe(x(e))
      PROVE  Awaited(E, e, x(e)) /\ NoneOut(w, x(e).frame.origin, Mate(e, x(e).frame.origin))
    BY <1>2 DEF Awaitable
<1> HIDE DEF x
<1>3. ASSUME NEW e \in End, NEW i \in DOMAIN v[e], IsProbe(v[e][i])
      PROVE  Awaited(E, e, v[e][i])
    <2>1. CASE Old(e, i)
        BY <1>3, <2>1 DEF Probing
    <2>2. CASE New(e, i)
        BY <1>2, <1>3, <2>2
    <2> QED BY <1>1, <2>1, <2>2
<1>4. ASSUME NEW e \in End, NEW g \in End, NEW i \in DOMAIN v[e], NEW j \in DOMAIN v[g],
             IsProbe(v[e][i]), IsProbe(v[g][j]), New(e, i), Old(g, j),
             v[e][i].frame.origin = v[g][j].frame.origin, Pair(e) = Pair(g)
      PROVE  FALSE
    <2>1. NoneOut(w, x(e).frame.origin, Mate(e, x(e).frame.origin))
          /\ x(e).frame.origin \in {e[1], e[2]}
        BY <1>2, <1>4 DEF Awaited
    <2>2. Pair(e) = {x(e).frame.origin, Mate(e, x(e).frame.origin)}
        BY <2>1 DEF Mate, Pair
    <2> QED BY <1>4, <2>1, <2>2 DEF NoneOut
<1>5. ASSUME NEW e \in End, NEW g \in End, NEW i \in DOMAIN v[e], NEW j \in DOMAIN v[g],
             IsProbe(v[e][i]), IsProbe(v[g][j]),
             v[e][i].frame.origin = v[g][j].frame.origin, Pair(e) = Pair(g)
      PROVE  e = g /\ i = j
    <2>1. CASE Old(e, i) /\ Old(g, j)
        BY <1>5, <2>1 DEF Probing
    <2>2. CASE New(e, i) /\ New(g, j)
        <3>1. e[1] = n /\ g[1] = n /\ e[2] # n /\ g[2] # n
            BY <2>2 DEF OneEach, End
        <3>2. e[2] = g[2]
            BY <1>5, <3>1 DEF Pair
        <3> QED BY <2>2, <3>2 DEF OneEach
    <2> QED BY <1>1, <1>4, <1>5, <2>1, <2>2
<1> QED BY <1>3, <1>5 DEF Probing

-----------------------------------------------------------------------------
(* Engines *)

Same(r, s) == r.sent = s.sent /\ (r.awaiting <=> s.awaiting)

\* F awaits what E awaits, but for neighbours that no probe is on its way to.
Awaits(w, n, E, F) ==
    \A m \in DOMAIN E : E[m].awaiting =>
        \/ m \in DOMAIN F /\ Same(E[m], F[m])
        \/ NoneOut(w, n, m)

LEMMA AwaitsProbing ==
    ASSUME NEW G, G = [k \in Node |-> G[k]], NEW w, Probing(G, w), NEW n \in Node,
           NEW F, Awaits(w, n, G[n], F)
    PROVE  Probing([G EXCEPT ![n] = F], w)
<1> DEFINE H == [G EXCEPT ![n] = F]
<1>1. H[n] = F /\ \A k \in Node : k # n => H[k] = G[k]
    OBVIOUS
<1> HIDE DEF H
<1>2. ASSUME NEW e \in End, NEW i \in DOMAIN w[e], IsProbe(w[e][i])
      PROVE  Awaited(H, e, w[e][i])
    <2> DEFINE o == w[e][i].frame.origin
               m == Mate(e, o)
    <2>1. /\ o \in {e[1], e[2]} /\ m \in DOMAIN G[o]
          /\ G[o][m].awaiting /\ G[o][m].sent <= Under(e, w[e][i])
        BY <1>2, ZenonT(60) DEF Probing, Awaited
    <2>2. o \in Node /\ Pair(e) = {o, m}
        BY <2>1, ZenonT(60) DEF End, Mate, Pair
    <2>3. CASE o # n
        BY <1>1, <2>1, <2>2, <2>3 DEF Awaited
    <2>4. CASE o = n
        <3>1. ~NoneOut(w, n, m)
            BY <1>2, <2>2, <2>4 DEF NoneOut
        <3>2. m \in DOMAIN F /\ Same(G[n][m], F[m])
            BY <2>1, <2>4, <3>1 DEF Awaits
        <3> QED BY <1>1, <2>1, <2>4, <3>2 DEF Awaited, Same
    <2> QED BY <2>3, <2>4
<1> QED BY <1>2, SMTT(30) DEF Probing, H

LEMMA EngineSound ==
    ASSUME NEW S, Sound(S), NEW n \in Node, NEW F, Engine(n, ticked, F),
           Awaits(S.wire, n, S.eng[n], F)
    PROVE  LET T == [S EXCEPT !.eng[n] = F]
           IN  /\ Sound(T) /\ T.eng[n] = F /\ T.wire = S.wire
               /\ \A k \in Node : k # n => T.eng[k] = S.eng[k]
<1> DEFINE G == [S.eng EXCEPT ![n] = F]
<1>1. [S EXCEPT !.eng[n] = F] = Rec(S.table, G, S.links, S.sess, S.dials, S.wire)
    <2>1. [S EXCEPT !.eng[n] = F] = [S EXCEPT !.eng = G]
        OBVIOUS
    <2> HIDE DEF G
    <2> QED BY <2>1 DEF Sound, Rec
<1>2. Probing(G, S.wire)
    BY AwaitsProbing DEF Sound, Engines
<1>3. /\ G = [k \in Node |-> G[k]] /\ G[n] = F
      /\ \A k \in Node : k # n => G[k] = S.eng[k]
    BY DEF Sound, Engines
<1> HIDE DEF G
<1>4. Engines(G)
    BY <1>3 DEF Sound, Engines
<1>5. Sound(Rec(S.table, G, S.links, S.sess, S.dials, S.wire))
    BY <1>2, <1>4, RecHas DEF Sound
<1> DEFINE T == Rec(S.table, G, S.links, S.sess, S.dials, S.wire)
<1>6. T.eng = G /\ T.wire = S.wire
    BY RecHas
<1> HIDE DEF T
<1> QED BY <1>1, <1>3, <1>5, <1>6 DEF T

LEMMA NewNeighbourAged ==
    \A n, ticks : Aged(n, ticks, NewNeighbour)
    BY EngineAssumption DEF NewNeighbour, Aged, Never

LEMMA Observes ==
    ASSUME NEW n, NEW ticks, NEW E, Engine(n, ticks, E), n \in left.inp3, NEW m
    PROVE  LET F == observeNeighbour(E, m)
           IN  /\ Engine(n, ticks, F) /\ m \in DOMAIN F /\ DOMAIN E \subseteq DOMAIN F
               /\ \A k \in DOMAIN E : F[k] = E[k]
<1>1. CASE m \in DOMAIN E
    BY <1>1 DEF observeNeighbour
<1>2. CASE m \notin DOMAIN E
    <2> DEFINE F == observeNeighbour(E, m)
    <2>1. F = [k \in DOMAIN E \cup {m} |-> IF k \in DOMAIN E THEN E[k] ELSE NewNeighbour]
        BY <1>2 DEF observeNeighbour, Put
    <2> HIDE DEF F
    <2>2. /\ F = [k \in DOMAIN F |-> F[k]] /\ DOMAIN F = DOMAIN E \cup {m}
          /\ F[m] = NewNeighbour /\ \A k \in DOMAIN E : F[k] = E[k]
        BY <1>2, <2>1
    <2>3. Engine(n, ticks, F)
        BY <2>2, NewNeighbourAged DEF Engine
    <2> QED BY <2>2, <2>3 DEF F
<1> QED BY <1>1, <1>2

\* A neighbour learnt anew.
LEMMA Replaced ==
    ASSUME NEW n, NEW ticks, NEW E, Engine(n, ticks, E), n \in left.inp3, NEW m,
           NEW r, Aged(n, ticks, r)
    PROVE  LET F == Put(E, m, r)
           IN  /\ Engine(n, ticks, F) /\ DOMAIN F = DOMAIN E \cup {m} /\ F[m] = r
               /\ \A k \in DOMAIN E \ {m} : F[k] = E[k]
<1> DEFINE F == Put(E, m, r)
<1>1. F = [k \in DOMAIN E \cup {m} |-> IF k = m THEN r ELSE E[k]]
    BY DEF Put
<1> HIDE DEF F
<1>2. /\ F = [k \in DOMAIN F |-> F[k]] /\ DOMAIN F = DOMAIN E \cup {m}
      /\ F[m] = r /\ \A k \in DOMAIN E \ {m} : F[k] = E[k]
    BY <1>1
<1>3. Engine(n, ticks, F)
    BY <1>2 DEF Engine
<1> QED BY <1>2, <1>3 DEF F

\* The answer that ends the wait for a probe, and what else a neighbour sends.
Ends(E, n, m, f) == f.origin = n /\ E[m].awaiting

LEMMA handleL3RttEngine ==
    ASSUME NEW n \in Node, NEW ticks, NEW E, Engine(n, ticks, E), n \in left.inp3,
           NEW m \in DOMAIN E, NEW f
    PROVE  LET F == handleL3Rtt(E, n, m, f)
           IN  /\ Engine(n, ticks, F) /\ DOMAIN F = DOMAIN E
               /\ \A k \in DOMAIN E \ {m} : F[k] = E[k]
               /\ Answers(E, n, m, f) <=> Ends(E, n, m, f)
               /\ Answers(E, n, m, f) => ~F[m].awaiting
               /\ ~Answers(E, n, m, f) => Same(E[m], F[m])
<1> DEFINE r == E[m]
           c == r.capable \/ f.capable
           s == [r EXCEPT !.capable = c]
           t == smoothSntt(s.sntt, Smaller(r.sent \div 2, SampleMax))
           a == [s EXCEPT !.awaiting = FALSE, !.refl = 0, !.sntt = t]
           z == IF Answers(E, n, m, f) THEN a ELSE s
<1>1. observeNeighbour(E, m)[m] = r
    BY DEF observeNeighbour
<1>2. handleL3Rtt(E, n, m, f) = Put(E, m, z)
    BY <1>1 DEF handleL3Rtt
<1>3. Answers(E, n, m, f) <=> Ends(E, n, m, f)
    BY <1>1 DEF Answers, isReflectionOf, Ends
<1>4. Aged(n, ticks, r)
    BY DEF Engine
<1> HIDE DEF c
<1>5. /\ {"sent", "refl", "awaiting"} \subseteq DOMAIN s
      /\ s.sent = r.sent /\ s.refl = r.refl /\ s.awaiting = r.awaiting
    BY <1>4 DEF Aged
<1> HIDE DEF t, s
<1>6. /\ {"sent", "refl", "awaiting"} \subseteq DOMAIN a
      /\ a.sent = s.sent /\ a.refl = 0 /\ ~a.awaiting
    BY <1>5
<1> HIDE DEF a
<1>7. Aged(n, ticks, s) /\ Same(r, s)
    BY <1>4, <1>5 DEF Aged, Same
<1>8. ASSUME Ends(E, n, m, f) PROVE Aged(n, ticks, a)
    BY <1>4, <1>5, <1>6, <1>8, EngineAssumption DEF Aged, Ends, Never
<1>9. Aged(n, ticks, z)
    BY <1>3, <1>7, <1>8
<1>10. /\ Answers(E, n, m, f) => ~z.awaiting
       /\ ~Answers(E, n, m, f) => Same(r, z)
    BY <1>6, <1>7
<1> HIDE DEF z
<1> DEFINE F == Put(E, m, z)
<1>11. Engine(n, ticks, F) /\ DOMAIN F = DOMAIN E \cup {m} /\ F[m] = z
       /\ \A k \in DOMAIN E \ {m} : F[k] = E[k]
    <2>1. Engine(n, ticks, F)
        BY ONLY <1>9, Replaced, Engine(n, ticks, E), n \in left.inp3
    <2>3. DOMAIN F = DOMAIN E \cup {m} /\ F[m] = z
        BY DEF Put
    <2>2. \A k \in DOMAIN E \ {m} : F[k] = E[k]
        BY DEF Put
    <2> QED BY <2>1, <2>2, <2>3
<1> HIDE DEF F
<1>12. DOMAIN F = DOMAIN E
    BY <1>11
<1> QED BY <1>2, <1>3, <1>10, <1>11, <1>12 DEF F

\* A probe that has come over c is answered for, or sent back.
LEMMA onL3RttSound ==
    ASSUME NEW S, Sound(S), NEW c \in End, c[2] \in left.inp3, NEW x,
           x.frame.kind = "L3RTT", c[1] \in DOMAIN S.eng[c[2]],
           IsProbe(x) => /\ Awaited(S.eng, c, x)
                         /\ NoneOut(S.wire, x.frame.origin, Mate(c, x.frame.origin))
    PROVE  Sound(onL3Rtt(S, c[2], c[1], x.frame))
<1> DEFINE n == c[2]
           m == c[1]
           f == x.frame
           E == S.eng[n]
           F == handleL3Rtt(E, n, m, f)
           T == [S EXCEPT !.eng[n] = F]
           frames == [k \in {m} |-> f]
<1>1. n \in Node /\ m \in Node /\ n # m
    BY DEF End
<1>2. onL3Rtt(S, n, m, f) = IF Answers(E, n, m, f) THEN T ELSE sendInp3(T, n, frames)
    BY DEF onL3Rtt
<1>3. Engine(n, ticked, E) /\ n \in left.inp3 /\ m \in DOMAIN E
    BY <1>1 DEF Sound, Engines
<1>4. /\ Engine(n, ticked, F) /\ DOMAIN F = DOMAIN E
      /\ \A k \in DOMAIN E \ {m} : F[k] = E[k]
      /\ Answers(E, n, m, f) <=> Ends(E, n, m, f)
      /\ ~Answers(E, n, m, f) => Same(E[m], F[m])
    BY <1>1, <1>3, handleL3RttEngine
<1>5. \A k \in DOMAIN E \ {m} : k \in DOMAIN F /\ Same(E[k], F[k])
    BY <1>4 DEF Same
<1>6. Awaits(S.wire, n, E, F)
    <2>1. CASE Answers(E, n, m, f)
        <3>1. f.origin = n /\ Mate(c, n) = m
            BY <1>1, <1>4, <2>1 DEF Mate, Ends
        <3>2. NoneOut(S.wire, n, m)
            BY <3>1 DEF NoneOut, IsProbe
        <3> QED BY <1>5, <3>2 DEF Awaits
    <2>2. CASE ~Answers(E, n, m, f)
        BY <1>3, <1>4, <1>5, <2>2 DEF Awaits
    <2> QED BY <2>1, <2>2
<1>7. /\ Sound(T) /\ T.eng[n] = F /\ T.wire = S.wire
      /\ \A k \in Node : k # n => T.eng[k] = S.eng[k]
    BY ONLY Sound(S), <1>1, <1>4, <1>6, EngineSound
<1> HIDE DEF T, F
<1>8. ASSUME ~Answers(E, n, m, f) PROVE Sound(sendInp3(T, n, frames))
    <2>1. Timely => f.origin = m
        <3> SUFFICES ASSUME Timely PROVE f.origin = m
            OBVIOUS
        <3>0. Awaited(S.eng, c, x)
            BY DEF IsProbe
        <3>1. CASE f.origin = n
            <4>1. Mate(c, n) = m
                BY <1>1 DEF Mate
            <4>2. E[m].awaiting
                BY <3>0, <3>1, <4>1 DEF Awaited
            <4> QED BY <1>4, <1>8, <3>1, <4>2 DEF Ends
        <3>2. CASE f.origin # n
            BY <3>0, <3>2 DEF Awaited
        <3> QED BY <3>1, <3>2
    <2>3. DOMAIN frames = {m} /\ frames[m] = f /\ f.kind = "L3RTT"
        OBVIOUS
    <2> HIDE DEF frames
    <2>2. PICK out : SendsTo(T, n, frames, out)
        BY <1>7, sendInp3Sends
    <2> DEFINE v == Sends(T.wire, out, frames)
    <2>4. Wired(v) /\ Extended(T.wire, v, out, frames)
        <3>1. Wired(T.wire) /\ \A k \in DOMAIN frames : frames[k].kind = "L3RTT"
            BY <1>7, <2>3 DEF Sound
        <3> QED BY <2>2, <3>1, SendsWired DEF SendsTo
    <2>5. ASSUME Timely, NEW e \in out
          PROVE  LET y == [frame |-> frames[e[2]], late |-> FALSE]
                 IN  Awaited(T.eng, e, y) /\ NoneOut(T.wire, y.frame.origin, Mate(e, y.frame.origin))
        <3> DEFINE y == [frame |-> frames[e[2]], late |-> FALSE]
        <3>1. e \in End /\ e[1] = n /\ e[2] = m
            BY <2>2, <2>3 DEF OneEach, SendsTo
        <3>0. f.origin = m /\ Awaited(S.eng, c, x)
              /\ NoneOut(S.wire, x.frame.origin, Mate(c, x.frame.origin))
            BY <2>1, <2>5 DEF IsProbe
        <3>2. y.frame = f /\ ~y.late
            BY <2>3, <3>1
        <3>3. Mate(e, m) = n /\ Mate(c, m) = n
            BY <1>1, <3>1 DEF Mate
        <3>4. /\ n \in DOMAIN S.eng[m] /\ S.eng[m][n].awaiting
              /\ S.eng[m][n].sent <= Under(c, x)
            BY <3>0, <3>3 DEF Awaited
        <3>5. T.eng[m] = S.eng[m]
            BY <1>1, <1>7
        <3>6. Under(c, x) <= 1 /\ Under(e, y) = 1 /\ Under(c, x) \in Int
            BY SMTT(60), <1>1, <3>0, <3>1, <3>2 DEF Under
        <3>7. S.eng[m][n].sent \in Int
            <4>1. Aged(m, ticked, S.eng[m][n])
                BY <1>1, <3>4 DEF Sound, Engines, Engine
            <4> QED BY <4>1 DEF Aged, Never
        <3>8. S.eng[m][n].sent <= Under(e, y)
            BY <3>4, <3>6, <3>7
        <3> HIDE DEF y
        <3>9. Awaited(T.eng, e, y)
            BY <3>0, <3>1, <3>2, <3>3, <3>4, <3>5, <3>8 DEF Awaited
        <3>10. NoneOut(T.wire, y.frame.origin, Mate(e, y.frame.origin))
            BY <1>7, <3>0, <3>2, <3>3
        <3> QED BY <3>9, <3>10 DEF y
    <2> HIDE DEF v
    <2>6. Probing(T.eng, v)
        <3>1. Awaitable(T.eng, T.wire, out, frames)
            BY <2>5 DEF Awaitable, IsProbe
        <3> QED BY <1>7, <2>2, <2>4, <3>1, SendsProbing DEF Sound, SendsTo
    <2> QED BY <1>7, <2>2, <2>4, <2>6, WireSound DEF v, SendsTo
<1> QED BY <1>2, <1>7, <1>8

-----------------------------------------------------------------------------
(* What arrives *)

LEMMA HeadTaken ==
    ASSUME NEW S, Sound(S), NEW c \in End, S.wire[c] # <<>>
    PROVE  LET T == [S EXCEPT !.links = @ \cup {Other(c)}, !.wire[c] = Tail(@)]
               x == Head(S.wire[c])
           IN  /\ Sound(T) /\ Carried(c, x)
               /\ IsProbe(x) => /\ Awaited(T.eng, c, x)
                                /\ NoneOut(T.wire, x.frame.origin, Mate(c, x.frame.origin))
<1> DEFINE x == Head(S.wire[c])
           v == [S.wire EXCEPT ![c] = Tail(S.wire[c])]
           l == S.links \cup {Other(c)}
           T == [S EXCEPT !.links = @ \cup {Other(c)}, !.wire[c] = Tail(@)]
<1>1. /\ v[c] = Tail(S.wire[c]) /\ v = [e \in End |-> v[e]]
      /\ \A e \in End : e # c => v[e] = S.wire[e]
    BY DEF Sound, Wired
<1>2. Queue(S.wire[c]) /\ \A i \in DOMAIN S.wire[c] : Carried(c, S.wire[c][i])
    BY DEF Sound, Wired
<1>3. /\ Queue(v[c]) /\ 1 \in DOMAIN S.wire[c] /\ x = S.wire[c][1]
      /\ \A i \in DOMAIN v[c] : i \in Nat /\ i + 1 # 1
      /\ \A i \in DOMAIN v[c] : i + 1 \in DOMAIN S.wire[c] /\ v[c][i] = S.wire[c][i + 1]
    BY <1>1, <1>2, QueueTail
<1>4. T = Rec(S.table, S.eng, l, S.sess, S.dials, v)
    <2>1. T = [[S EXCEPT !.links = l] EXCEPT !.wire = v]
        OBVIOUS
    <2> HIDE DEF T, v, l
    <2>2. [S EXCEPT !.links = l] = Rec(S.table, S.eng, l, S.sess, S.dials, S.wire)
        BY DEF Sound, Rec
    <2>3. [Rec(S.table, S.eng, l, S.sess, S.dials, S.wire) EXCEPT !.wire = v]
            = Rec(S.table, S.eng, l, S.sess, S.dials, v)
        BY DEF Rec
    <2> QED BY <2>1, <2>2, <2>3
<1> HIDE DEF v, x, T
<1>5. Wired(v)
    <2>1. ASSUME NEW e \in End
          PROVE  Queue(v[e]) /\ \A i \in DOMAIN v[e] : Carried(e, v[e][i])
        <3>1. CASE e = c
            BY <1>2, <1>3, <3>1
        <3>2. CASE e # c
            BY <1>1, <3>2 DEF Sound, Wired
        <3> QED BY <3>1, <3>2
    <2> QED BY <1>1, <2>1 DEF Wired
<1> DEFINE at(e, i) == IF e = c THEN i + 1 ELSE i
<1>6. ASSUME NEW e \in End, NEW i \in DOMAIN v[e]
      PROVE  at(e, i) \in DOMAIN S.wire[e] /\ v[e][i] = S.wire[e][at(e, i)]
    BY <1>1, <1>3
<1>7. Probing(S.eng, v)
    <2>1. ASSUME NEW e \in End, NEW i \in DOMAIN v[e], IsProbe(v[e][i])
          PROVE  Awaited(S.eng, e, v[e][i])
        <3>1. at(e, i) \in DOMAIN S.wire[e] /\ v[e][i] = S.wire[e][at(e, i)]
            BY <1>6
        <3> QED BY <2>1, <3>1 DEF Sound, Probing
    <2>2. ASSUME NEW e \in End, NEW g \in End, NEW i \in DOMAIN v[e], NEW j \in DOMAIN v[g],
                 IsProbe(v[e][i]), IsProbe(v[g][j]),
                 v[e][i].frame.origin = v[g][j].frame.origin, Pair(e) = Pair(g)
          PROVE  e = g /\ i = j
        <3>1. /\ at(e, i) \in DOMAIN S.wire[e] /\ v[e][i] = S.wire[e][at(e, i)]
              /\ at(g, j) \in DOMAIN S.wire[g] /\ v[g][j] = S.wire[g][at(g, j)]
            BY <1>6
        <3> HIDE DEF at
        <3>2. e = g /\ at(e, i) = at(g, j)
            <4>1. Probing(S.eng, S.wire)
                BY DEF Sound
            <4>2. /\ IsProbe(S.wire[e][at(e, i)]) /\ IsProbe(S.wire[g][at(g, j)])
                  /\ S.wire[e][at(e, i)].frame.origin = S.wire[g][at(g, j)].frame.origin
                BY <2>2, <3>1
            <4>3. \A a \in DOMAIN S.wire[e], b \in DOMAIN S.wire[g] :
                    /\ IsProbe(S.wire[e][a]) /\ IsProbe(S.wire[g][b])
                    /\ S.wire[e][a].frame.origin = S.wire[g][b].frame.origin
                    => e = g /\ a = b
                BY <2>2, <4>1 DEF Probing
            <4> QED BY <3>1, <4>2, <4>3
        <3>3. CASE e = c
            <4>1. i + 1 = j + 1 /\ i \in Nat /\ j \in Nat
                BY <1>3, <3>2, <3>3 DEF at
            <4> QED BY <3>2, <4>1
        <3>4. CASE e # c
            BY <3>2, <3>4 DEF at
        <3> QED BY <3>3, <3>4
    <2> QED BY <2>1, <2>2 DEF Probing
<1>8. Sound(T)
    <2>1. l \subseteq End
        BY OtherEnd DEF Sound
    <2> HIDE DEF l
    <2> QED BY <1>4, <1>5, <1>7, <2>1, RecHas DEF Sound
<1>9. ASSUME IsProbe(x)
      PROVE  Awaited(S.eng, c, x) /\ NoneOut(v, x.frame.origin, Mate(c, x.frame.origin))
    <2>1. Awaited(S.eng, c, x)
        BY <1>3, <1>9 DEF Sound, Probing
    <2>2. Pair(c) = {x.frame.origin, Mate(c, x.frame.origin)}
        BY <2>1 DEF Awaited, Mate, Pair
    <2>3. ASSUME NEW e \in End, NEW i \in DOMAIN v[e], IsProbe(v[e][i]),
                 v[e][i].frame.origin = x.frame.origin, Pair(e) = Pair(c)
          PROVE  FALSE
        <3>1. at(e, i) \in DOMAIN S.wire[e] /\ v[e][i] = S.wire[e][at(e, i)]
            BY <1>6
        <3> HIDE DEF at
        <3>2. e = c /\ at(e, i) = 1
            BY <1>3, <1>9, <2>3, <3>1 DEF Sound, Probing
        <3> QED BY <1>3, <3>2 DEF at
    <2> QED BY <2>1, <2>2, <2>3 DEF NoneOut
<1>10. T.eng = S.eng /\ T.wire = v
    BY <1>4, RecHas
<1>11. Carried(c, x)
    BY <1>2, <1>3
<1> QED BY <1>8, <1>9, <1>10, <1>11 DEF T, x

LEMMA dispatchInp3Sound ==
    ASSUME NEW S, Sound(S), NEW c \in End, NEW x, Carried(c, x),
           IsProbe(x) => /\ Awaited(S.eng, c, x)
                         /\ NoneOut(S.wire, x.frame.origin, Mate(c, x.frame.origin))
    PROVE  Sound(dispatchInp3(S, c[2], c[1], c[3], x.frame))
<1> DEFINE n == c[2]
           m == c[1]
           f == x.frame
           F == observeNeighbour(S.eng[n], m)
           T == [S EXCEPT !.eng[n] = F]
           rif == ingestInp3Rif(T, n, m, c[3], ToSet(parseInp3Rif(f.octets)))
<1>1. n \in Node /\ m \in Node /\ n # m
    BY DEF End
<1>2. ASSUME f.kind = "DATA" PROVE Arrived(n, m, f)
    BY <1>2, ArrivesOnItsWay DEF Carried
<1>3. ASSUME n \in left.inp3
      PROVE  Sound(T) /\ T.eng[n] = F /\ T.wire = S.wire
             /\ (\A k \in Node : k # n => T.eng[k] = S.eng[k])
             /\ m \in DOMAIN F
             /\ \A k \in DOMAIN S.eng[n] : k \in DOMAIN F /\ F[k] = S.eng[n][k]
    <2>1. Engine(n, ticked, S.eng[n])
        BY <1>1 DEF Sound, Engines
    <2>2. /\ Engine(n, ticked, F) /\ m \in DOMAIN F /\ DOMAIN S.eng[n] \subseteq DOMAIN F
          /\ \A k \in DOMAIN S.eng[n] : F[k] = S.eng[n][k]
        BY <1>3, <2>1, Observes
    <2>3. \A k \in DOMAIN S.eng[n] : k \in DOMAIN F /\ F[k] = S.eng[n][k]
        BY <2>2
    <2> HIDE DEF F
    <2>4. Awaits(S.wire, n, S.eng[n], F)
        BY <2>3 DEF Awaits, Same
    <2> QED BY <1>1, <2>2, <2>3, <2>4, EngineSound
<1>4. \/ /\ n \in left.inp3
         /\ \/ f.kind = "RIF" /\ dispatchInp3(S, n, m, c[3], f) = rif
            \/ f.kind = "L3RTT" /\ dispatchInp3(S, n, m, c[3], f) = onL3Rtt(T, n, m, f)
            \/ f.kind = "DATA" /\ dispatchInp3(S, n, m, c[3], f) = onPacket(T, n, m, f)
      \/ f.kind = "DATA" /\ dispatchInp3(S, n, m, c[3], f) = onPacket(S, n, m, f)
      \/ dispatchInp3(S, n, m, c[3], f) = S
    <2>1. f.kind \in {"RIF", "L3RTT", "DATA"}
        BY DEF Carried
    <2> HIDE DEF n, m, f, F
    <2> QED BY <2>1 DEF dispatchInp3, F
<1> HIDE DEF T, F
<1>5. ASSUME n \in left.inp3 PROVE Sound(rif)
    <2>1. \E t : rif = [T EXCEPT !.table = t]
        BY DEF ingestInp3Rif
    <2> HIDE DEF rif
    <2> QED BY <1>3, <1>5, <2>1, TableSound
<1>6. ASSUME n \in left.inp3, f.kind = "L3RTT" PROVE Sound(onL3Rtt(T, n, m, f))
    <2>2. ASSUME IsProbe(x) PROVE Awaited(T.eng, c, x)
        <3> DEFINE o == x.frame.origin
                   k == Mate(c, o)
        <3>1. /\ o \in {n, m} /\ k \in DOMAIN S.eng[o] /\ S.eng[o][k].awaiting
              /\ S.eng[o][k].sent <= Under(c, x)
            BY <2>2 DEF Awaited
        <3>2. k \in DOMAIN T.eng[o] /\ T.eng[o][k] = S.eng[o][k]
            <4>1. CASE o = n
                BY <1>3, <1>6, <3>1, <4>1
            <4>2. CASE o # n
                BY <1>1, <1>3, <1>6, <3>1, <4>2
            <4> QED BY <4>1, <4>2
        <3> QED BY <3>1, <3>2 DEF Awaited
    <2>3. /\ IsProbe(x) => NoneOut(T.wire, x.frame.origin, Mate(c, x.frame.origin))
          /\ m \in DOMAIN T.eng[n]
        BY <1>3, <1>6
    <2> QED BY <1>3, <1>6, <2>2, <2>3, onL3RttSound
<1>7. ASSUME f.kind = "DATA" PROVE Sound(onPacket(S, n, m, f))
    BY <1>1, <1>2, <1>7, onPacketSound
<1>8. ASSUME f.kind = "DATA", n \in left.inp3 PROVE Sound(onPacket(T, n, m, f))
    BY <1>1, <1>2, <1>3, <1>8, onPacketSound
<1> HIDE DEF rif
<1> QED BY <1>4, <1>5, <1>6, <1>7, <1>8

-----------------------------------------------------------------------------
(* The steps *)

Inv == "inp3" \in DOMAIN left /\ Sound(State)

LEMMA StateHas ==
    /\ State = Rec(table, eng, links, sess, dials, wire)
    /\ State.table = table /\ State.eng = eng /\ State.links = links
    /\ State.sess = sess /\ State.dials = dials /\ State.wire = wire
    BY DEF State, Rec

LEMMA BecomesSound ==
    ASSUME NEW T, Sound(T), Becomes(T), ticked' = ticked, left'.inp3 = left.inp3
    PROVE  Sound(State)'
<1>1. /\ table' = T.table /\ eng' = T.eng /\ links' = T.links
      /\ sess' = T.sess /\ dials' = T.dials /\ wire' = T.wire
    BY DEF Becomes
<1>2. Engines(eng)'
    BY <1>1 DEF Sound, Engines, Engine
<1>3. Dialled(dials)' /\ Wired(wire)' /\ Probing(eng, wire)' /\ (links \subseteq End)'
    BY <1>1 DEF Sound
<1> QED BY <1>2, <1>3, StateHas DEF Sound, State, Rec

LEMMA SettleSound ==
    ASSUME NEW S, Sound(S), NEW e \in End, NEW outcome
    PROVE  Sound(Settle(S, e, outcome))
<1> DEFINE n == e[1]
           s == S.dials[n]
           q == [i \in DOMAIN s |-> IF s[i].end = e /\ s[i].outcome = "pending"
                                    THEN [s[i] EXCEPT !.outcome = outcome] ELSE s[i]]
           D == [S.dials EXCEPT ![n] = q]
<1>1. n \in Node
    BY DEF End
<1>2. Settle(S, e, outcome) = [S EXCEPT !.dials = D]
    BY DEF Settle
<1>3. Queue(s) /\ \A i \in DOMAIN s : Waiting(n, s[i])
    BY <1>1 DEF Sound, Dialled
<1>4. ASSUME NEW i \in DOMAIN s PROVE Waiting(n, q[i])
    <2>1. Waiting(n, s[i])
        BY <1>3
    <2>2. [s[i] EXCEPT !.outcome = outcome] =
              [end |-> s[i].end, work |-> s[i].work, outcome |-> outcome]
        BY <2>1 DEF Waiting
    <2>3. Waiting(n, [end |-> s[i].end, work |-> s[i].work, outcome |-> outcome])
        BY <2>1 DEF Waiting
    <2> HIDE DEF n, s
    <2> QED BY <2>1, <2>2, <2>3
<1>5. q = [i \in DOMAIN s |-> q[i]] /\ DOMAIN q = DOMAIN s
    BY SMTT(60)
<1>6. D = [m \in Node |-> IF m = n THEN q ELSE S.dials[m]]
    BY DEF Sound, Dialled
<1> HIDE DEF q, s
<1>7. Queue(q)
    BY <1>3, <1>5, QueueMap
<1> HIDE DEF D, n
<1>8. Dialled(D)
    BY <1>1, <1>4, <1>5, <1>6, <1>7 DEF Sound, Dialled
<1> QED BY <1>2, <1>8, DialsSound

\* A state in which an end has gone down.
LEMMA DownRec ==
    ASSUME NEW S, Sound(S), NEW e
    PROVE  Down(S, e) = Rec(S.table, S.eng, S.links \ {e}, [S.sess EXCEPT ![e] = "Disconnected"],
                            S.dials, [[S.wire EXCEPT ![e] = <<>>] EXCEPT ![Other(e)] = <<>>])
<1> DEFINE s == [S.sess EXCEPT ![e] = "Disconnected"]
           l == S.links \ {e}
           u == [S.wire EXCEPT ![e] = <<>>]
           w == [u EXCEPT ![Other(e)] = <<>>]
           A == [S EXCEPT !.sess = s]
           B == [A EXCEPT !.links = A.links \ {e}]
           C == [B EXCEPT !.wire = [B.wire EXCEPT ![e] = <<>>]]
           T == [C EXCEPT !.wire = [C.wire EXCEPT ![Other(e)] = <<>>]]
<1>1. Down(S, e) = T
    BY DEF Down
<1>2. A = Rec(S.table, S.eng, S.links, s, S.dials, S.wire)
    BY DEF Sound, Rec
<1> HIDE DEF A, s
<1>3. A.links = S.links
    BY <1>2 DEF Rec
<1>4. B = [A EXCEPT !.links = l]
    BY <1>3
<1> HIDE DEF B, l
<1>5. B = Rec(S.table, S.eng, l, s, S.dials, S.wire)
    BY <1>2, <1>4 DEF Rec
<1>6. B.wire = S.wire
    BY <1>5 DEF Rec
<1>7. C = [B EXCEPT !.wire = u]
    BY <1>6
<1> HIDE DEF C, u
<1>8. C = Rec(S.table, S.eng, l, s, S.dials, u)
    BY <1>5, <1>7 DEF Rec
<1>9. C.wire = u
    BY <1>8 DEF Rec
<1>10. T = [C EXCEPT !.wire = w]
    BY <1>9
<1> HIDE DEF T, w
<1>11. T = Rec(S.table, S.eng, l, s, S.dials, w)
    BY <1>8, <1>10 DEF Rec
<1> QED BY <1>1, <1>11 DEF s, l, u, w

LEMMA DownSound ==
    ASSUME NEW S, Sound(S), NEW e \in End
    PROVE  Sound(Down(S, e))
<1>1. S.links \ {e} \in SUBSET End
    BY DEF Sound
<1> DEFINE s == [S.sess EXCEPT ![e] = "Disconnected"]
<1> HIDE DEF s
<1>2. Sound(Rec(S.table, S.eng, S.links \ {e}, s, S.dials,
                [[S.wire EXCEPT ![e] = <<>>] EXCEPT ![Other(e)] = <<>>]))
    BY <1>1, ClearedBoth
<1> QED BY <1>2, DownRec DEF s

LEMMA DeliverSound ==
    ASSUME Inv, NEW c \in End, Deliver(c)
    PROVE  Sound(State)'
<1> DEFINE T == [State EXCEPT !.links = @ \cup {Other(c)}, !.wire[c] = Tail(@)]
           x == Head(wire[c])
<1>1. Sound(State) /\ State.wire = wire /\ wire[c] # <<>>
    BY StateHas DEF Inv, Deliver
<1>2. /\ Sound(T) /\ Carried(c, x)
      /\ IsProbe(x) => /\ Awaited(T.eng, c, x)
                       /\ NoneOut(T.wire, x.frame.origin, Mate(c, x.frame.origin))
    <2> DEFINE y == Head(State.wire[c])
    <2>1. y = x
        BY <1>1, SMTT(30)
    <2>2. /\ Sound(T) /\ Carried(c, y)
          /\ IsProbe(y) => /\ Awaited(T.eng, c, y)
                           /\ NoneOut(T.wire, y.frame.origin, Mate(c, y.frame.origin))
        <3>1. State.wire[c] # <<>>
            BY <1>1
        <3> QED BY <1>1, <3>1, HeadTaken
    <2> HIDE DEF T, x, y
    <2> QED BY <2>1, <2>2
<1>3. Becomes(dispatchInp3(T, c[2], c[1], c[3], x.frame)) /\ ticked' = ticked /\ left' = left
    BY DEF Deliver
<1> HIDE DEF T, x
<1>4. Sound(dispatchInp3(T, c[2], c[1], c[3], x.frame))
    BY <1>2, dispatchInp3Sound
<1> QED BY <1>3, <1>4, BecomesSound

LEMMA EstablishedRec ==
    ASSUME Inv, NEW e \in End
    PROVE  LET T == [State EXCEPT !.sess[e] = "Connected", !.sess[Other(e)] = "Connected"]
               s == [[sess EXCEPT ![e] = "Connected"] EXCEPT ![Other(e)] = "Connected"]
           IN  /\ T = Rec(table, eng, links, s, dials, wire)
               /\ Sound(T) /\ T.eng = eng
<1> DEFINE s == [[sess EXCEPT ![e] = "Connected"] EXCEPT ![Other(e)] = "Connected"]
           T == [State EXCEPT !.sess[e] = "Connected", !.sess[Other(e)] = "Connected"]
<1>1. T = Rec(table, eng, links, s, dials, wire)
    <2> DEFINE A == [State EXCEPT !.sess = [sess EXCEPT ![e] = "Connected"]]
    <2>1. A = Rec(table, eng, links, [sess EXCEPT ![e] = "Connected"], dials, wire)
        BY DEF State, Rec
    <2>2. T = [A EXCEPT !.sess = [A.sess EXCEPT ![Other(e)] = "Connected"]]
        BY DEF State
    <2> HIDE DEF A, T
    <2> QED BY <2>1, <2>2 DEF Rec
<1>2. Sound(Rec(table, eng, links, s, dials, wire))
    BY StateHas, RecHas DEF Inv, Sound
<1> HIDE DEF T, s
<1>3. T.eng = eng
    BY <1>1, RecHas
<1> QED BY <1>1, <1>2, <1>3 DEF T, s

LEMMA EstablishedSound ==
    ASSUME Inv, NEW e \in End, Established(e)
    PROVE  Sound(State)'
<1> DEFINE T == [State EXCEPT !.sess[e] = "Connected", !.sess[Other(e)] = "Connected"]
<1>1. Sound(T)
    BY EstablishedRec
<1>2. /\ Becomes(Settle(Settle(T, e, "up"), Other(e), "up"))
      /\ ticked' = ticked /\ left' = left
    BY DEF Established
<1> HIDE DEF T
<1>3. Sound(Settle(T, e, "up"))
    BY <1>1, SettleSound
<1>4. Sound(Settle(Settle(T, e, "up"), Other(e), "up"))
    BY <1>3, OtherEnd, SettleSound
<1> QED BY <1>2, <1>4, BecomesSound

\* What may still happen changes, what a mode is does not.
LEMMA ModeKept ==
    ASSUME "inp3" \in DOMAIN left
    PROVE  /\ [left EXCEPT !.opens = @ - 1].inp3 = left.inp3
           /\ [left EXCEPT !.enters = @ - 1].inp3 = left.inp3
           /\ [left EXCEPT !.changes = @ - 1].inp3 = left.inp3
           /\ [left EXCEPT !.fails = @ - 1].inp3 = left.inp3
           /\ [left EXCEPT !.cuts = @ - 1].inp3 = left.inp3
           /\ [left EXCEPT !.detaches = @ - 1].inp3 = left.inp3
    OBVIOUS

LEMMA DialFailsSound ==
    ASSUME Inv, NEW e \in End, DialFails(e)
    PROVE  Sound(State)'
<1>1. Sound(Settle(Down(State, e), e, "failed"))
    BY DownSound, SettleSound DEF Inv
<1>2. left'.inp3 = left.inp3 /\ ticked' = ticked
    BY ModeKept DEF Inv, DialFails
<1> QED BY <1>1, <1>2, BecomesSound DEF DialFails

LEMMA EndDownSound ==
    ASSUME Inv, NEW e \in End, EndDown(e)
    PROVE  Sound(State)'
<1>1. Sound(Down(State, e))
    BY DownSound DEF Inv
<1>2. left'.inp3 = left.inp3 /\ ticked' = ticked
    BY ModeKept DEF Inv, EndDown
<1> QED BY <1>1, <1>2, BecomesSound DEF EndDown

LEMMA DialTaken ==
    ASSUME NEW S, Sound(S), NEW n \in Node, NEW i \in DOMAIN S.dials[n]
    PROVE  LET T == [S EXCEPT !.dials[n] = RemoveAt(@, i)]
           IN  /\ Sound(T) /\ Waiting(n, S.dials[n][i])
               /\ T = Rec(S.table, S.eng, S.links, S.sess, T.dials, S.wire)
               /\ \A k \in Node : \A a \in DOMAIN T.dials[k] :
                     \E b \in DOMAIN S.dials[k] : T.dials[k][a] = S.dials[k][b]
<1> DEFINE s == S.dials[n]
           q == RemoveAt(s, i)
           D == [S.dials EXCEPT ![n] = q]
           T == [S EXCEPT !.dials[n] = RemoveAt(@, i)]
<1>1. Dialled(S.dials) /\ Queue(s) /\ \A j \in DOMAIN s : Waiting(n, s[j])
    BY DEF Sound, Dialled
<1>2. Queue(q) /\ \A k \in DOMAIN q : \E j \in DOMAIN s : q[k] = s[j]
    BY <1>1, QueueRemove
<1>3. T = [S EXCEPT !.dials = D]
    OBVIOUS
<1> HIDE DEF q
<1>4. D = [m \in Node |-> IF m = n THEN q ELSE S.dials[m]]
    BY <1>1 DEF Dialled
<1> HIDE DEF D, T
<1>5. \A k \in DOMAIN q : Waiting(n, q[k])
    BY <1>1, <1>2
<1>6. Dialled(D)
    BY <1>1, <1>2, <1>4, <1>5 DEF Dialled
<1>7. Sound(T)
    BY <1>3, <1>6, DialsSound
<1>8. T = Rec(S.table, S.eng, S.links, S.sess, D, S.wire) /\ T.dials = D
    BY <1>3 DEF Sound, Rec
<1>9. \A k \in Node : \A a \in DOMAIN D[k] :
        \E b \in DOMAIN S.dials[k] : D[k][a] = S.dials[k][b]
    BY <1>2, <1>4
<1> QED BY <1>1, <1>7, <1>8, <1>9 DEF T

LEMMA ContinueSound ==
    ASSUME Inv, NEW n \in Node, Continue(n)
    PROVE  Sound(State)'
<1>1. PICK i \in Settled(n) :
        LET S == [State EXCEPT !.dials[n] = RemoveAt(@, i)]
        IN  /\ Becomes(IF dials[n][i].outcome = "up" THEN Resolved(S, n, dials[n][i])
                       ELSE Rejected(S, n, dials[n][i]))
            /\ ticked' = ticked /\ left' = left
    BY DEF Continue
<1> DEFINE d == dials[n][i]
           S == [State EXCEPT !.dials[n] = RemoveAt(@, i)]
<1>2. Sound(State) /\ State.dials = dials /\ i \in DOMAIN dials[n]
    BY StateHas DEF Inv, Settled
<1>3. Sound(S) /\ Waiting(n, d)
    BY <1>2, DialTaken
<1>4. Becomes(IF d.outcome = "up" THEN Resolved(S, n, d) ELSE Rejected(S, n, d))
      /\ ticked' = ticked /\ left' = left
    BY <1>1
<1> HIDE DEF S, d
<1>5. Sound(Resolved(S, n, d)) /\ Sound(Rejected(S, n, d))
    BY <1>3, ResolvedSound, RejectedSound
<1>6. Sound(IF d.outcome = "up" THEN Resolved(S, n, d) ELSE Rejected(S, n, d))
    BY <1>5
<1> QED BY <1>4, <1>6, BecomesSound

LEMMA OpenSound ==
    ASSUME Inv, NEW n \in Node, NEW d, Open(n, d)
    PROVE  Sound(State)'
<1>1. Sound(connectCircuit(State, n, d, 1))
    BY connectCircuitSound DEF Inv
<1>2. left'.inp3 = left.inp3 /\ ticked' = ticked
    BY ModeKept DEF Inv, Open
<1> QED BY <1>1, <1>2, BecomesSound DEF Open

LEMMA EnteredArrives ==
    ASSUME NEW n, NEW x \in Node, NEW d, NEW flow, NEW opens,
           NEW ttl \in 1 .. MaxTimeToLive + 2
    PROVE  Arrived(n, x, SentBy(Datagram(x, d, ttl, flow, opens), x))
<1> DEFINE p == SentBy(Datagram(x, d, ttl, flow, opens), x)
<1>2. p = [kind |-> "DATA", origin |-> x, dest |-> d, ttl |-> ttl,
           flow |-> flow, opens |-> opens, path |-> <<x>>]
    BY DEF SentBy, Datagram
<1> HIDE DEF p
<1>3. /\ p = [kind |-> "DATA", origin |-> p.origin, dest |-> p.dest, ttl |-> p.ttl,
              flow |-> p.flow, opens |-> p.opens, path |-> p.path]
      /\ p.path = <<x>> /\ p.ttl = ttl
    BY <1>2
<1>4. p.path \in Seq(Node) /\ Len(p.path) = 1 /\ p.path[1] = x
    BY <1>3
<1>5. Trodden(x, n, p)
    BY <1>3, <1>4, ForwardingAssumption DEF Trodden
<1>6. Arrived(n, x, p)
    BY <1>3, <1>4, <1>5, ForwardingAssumption DEF Arrived, Smaller
<1> QED BY <1>6 DEF p

LEMMA EnterSound ==
    ASSUME Inv, NEW n \in Node, NEW x \in Node, Enter(n, x)
    PROVE  Sound(State)'
<1>1. PICK ttl \in 1 .. MaxTimeToLive + 2, flow \in Flows, d \in left.dests :
        /\ left.enters > 0
        /\ Becomes(onPacket(State, n, x, SentBy(Datagram(x, d, ttl, flow, FALSE), x)))
        /\ left' = [left EXCEPT !.enters = @ - 1] /\ ticked' = ticked
    BY DEF Enter
<1> DEFINE p == SentBy(Datagram(x, d, ttl, flow, FALSE), x)
<1>2. Arrived(n, x, p)
    BY EnteredArrives
<1> HIDE DEF p
<1>3. Sound(onPacket(State, n, x, p))
    BY <1>2, onPacketSound DEF Inv
<1>4. left'.inp3 = left.inp3
    BY <1>1, ModeKept DEF Inv
<1> QED BY <1>1, <1>3, <1>4, BecomesSound DEF p

LEMMA LearnSound ==
    ASSUME Inv, NEW n, NEW x, Learn(n, x) \/ Lose(n, x)
    PROVE  Sound(State)'
<1>1. PICK t : /\ Becomes([State EXCEPT !.table = t]) /\ left.changes > 0
               /\ left' = [left EXCEPT !.changes = @ - 1] /\ ticked' = ticked
    BY DEF Learn, Lose
<1>2. Sound([State EXCEPT !.table = t])
    BY TableSound DEF Inv
<1>3. left'.inp3 = left.inp3
    BY <1>1, ModeKept DEF Inv
<1> QED BY <1>1, <1>2, <1>3, BecomesSound

LEMMA detachPortSound ==
    ASSUME Inv, NEW n, NEW p, detachPort(n, p)
    PROVE  Sound(State)'
<1> DEFINE l == {e \in links : e[1] # n \/ e[3] # p}
<1>1. /\ Becomes([State EXCEPT !.links = l]) /\ left.detaches > 0
      /\ left' = [left EXCEPT !.detaches = @ - 1] /\ ticked' = ticked
    BY StateHas DEF detachPort
<1>2. l \in SUBSET End
    BY StateHas DEF Inv, Sound
<1>3. left'.inp3 = left.inp3
    BY <1>1, ModeKept DEF Inv
<1> HIDE DEF l
<1>4. Sound([State EXCEPT !.links = l])
    BY <1>2, LinksSound DEF Inv
<1> QED BY <1>1, <1>3, <1>4, BecomesSound

-----------------------------------------------------------------------------
(* Time *)

LEMMA TickedSound ==
    ASSUME NEW T, Sound(T), Becomes(T), NEW n \in Node, ticked' = ticked \cup {n},
           left' = left, Engine(n, ticked \cup {n}, T.eng[n])
    PROVE  Sound(State)'
<1>1. /\ table' = T.table /\ eng' = T.eng /\ links' = T.links
      /\ sess' = T.sess /\ dials' = T.dials /\ wire' = T.wire
    BY DEF Becomes
<1>2. ASSUME NEW k \in Node PROVE Engine(k, ticked \cup {n}, T.eng[k])
    <2>1. CASE k = n
        BY <2>1
    <2>2. CASE k # n
        <3>1. Engine(k, ticked, T.eng[k])
            BY DEF Sound, Engines
        <3> QED BY <2>2, <3>1 DEF Engine, Aged
    <2> QED BY <2>1, <2>2
<1>3. Engines(eng)'
    <2>1. T.eng = [k \in Node |-> T.eng[k]]
        BY DEF Sound, Engines
    <2> QED BY <1>1, <1>2, <2>1 DEF Engines, Engine
<1>4. Dialled(dials)' /\ Wired(wire)' /\ Probing(eng, wire)' /\ (links \subseteq End)'
    BY <1>1 DEF Sound
<1> QED BY <1>3, <1>4, StateHas DEF Sound, State, Rec

\* What the engine of n makes of a neighbour r that it keeps.
Kept(r) == IF Due(r) THEN [r EXCEPT !.sent = 0, !.awaiting = TRUE] ELSE r

LEMMA KeptAged ==
    ASSUME NEW n, NEW ticks, NEW r, Aged(n, ticks, r)
    PROVE  /\ Aged(n, ticks \cup {n}, Kept(r))
           /\ Due(r) => ~r.awaiting /\ Kept(r).awaiting /\ Kept(r).sent = 0
           /\ ~Due(r) => Kept(r) = r
<1>1. CASE Due(r)
    <2> DEFINE s == [r EXCEPT !.sent = 0, !.awaiting = TRUE]
    <2>1. /\ {"sent", "refl", "awaiting"} \subseteq DOMAIN r /\ r.refl \in Nat
          /\ ~r.awaiting /\ (Timely => r.refl <= Interval)
        BY <1>1 DEF Aged, Due
    <2>2. /\ {"sent", "refl", "awaiting"} \subseteq DOMAIN s
          /\ s.sent = 0 /\ s.refl = r.refl /\ s.awaiting
        BY <2>1
    <2>3. Kept(r) = s
        BY <1>1 DEF Kept
    <2> HIDE DEF s
    <2>4. Aged(n, ticks \cup {n}, s)
        BY <2>1, <2>2, EngineAssumption DEF Aged, Never
    <2> QED BY <1>1, <2>1, <2>2, <2>3, <2>4
<1>2. CASE ~Due(r)
    <2>1. Kept(r) = r
        BY <1>2 DEF Kept
    <2>2. ~r.awaiting /\ Timely => r.sent # Never /\ ~(r.sent >= Interval)
        BY <1>2 DEF Due, Timely
    <2>3. Aged(n, ticks \cup {n}, r)
        BY <2>2, EngineAssumption DEF Aged, Never
    <2> QED BY <1>2, <2>1, <2>3
<1> QED BY <1>1, <1>2

LEMMA TickEngine ==
    ASSUME NEW n, NEW ticks, NEW E, Engine(n, ticks, E), n \in left.inp3
    PROVE  LET F == engineTick(E)
           IN  /\ Engine(n, ticks \cup {n}, F) /\ Engine(n, ticks, F)
               /\ \A m \in DOMAIN E : ~Expired(E[m]) => m \in DOMAIN F /\ F[m] = Kept(E[m])
               /\ \A m \in Probed(E) : m \in DOMAIN E /\ ~Expired(E[m]) /\ Due(E[m])
<1> DEFINE F == engineTick(E)
           M == {x \in DOMAIN E : ~Expired(E[x])}
<1>1. F = [m \in M |-> Kept(E[m])]
    BY DEF engineTick, Kept
<1> HIDE DEF F
<1>2. DOMAIN F = M /\ F = [m \in DOMAIN F |-> F[m]] /\ \A m \in M : F[m] = Kept(E[m])
    BY <1>1
<1>3. ASSUME NEW m \in M PROVE Aged(n, ticks \cup {n}, F[m])
    <2>1. Aged(n, ticks, E[m])
        BY DEF Engine
    <2> QED BY <1>2, <2>1, KeptAged
<1>4. Engine(n, ticks \cup {n}, F)
    BY <1>2, <1>3 DEF Engine
<1>5. Engine(n, ticks, F)
    BY <1>4 DEF Engine, Aged
<1>6. \A m \in Probed(E) : m \in DOMAIN E /\ ~Expired(E[m]) /\ Due(E[m])
    BY DEF Probed
<1> QED BY <1>2, <1>4, <1>5, <1>6 DEF F

\* A probe of n's to m that is under way is awaited, and has not been for long.
LEMMA OutIsAwaited ==
    ASSUME NEW E, NEW w, Probing(E, w), NEW n, NEW m, ~NoneOut(w, n, m)
    PROVE  /\ Timely /\ m \in DOMAIN E[n] /\ E[n][m].awaiting
           /\ \E u \in {0, 1, 2} : E[n][m].sent <= u
<1>1. PICK e \in End : \E i \in DOMAIN w[e] :
        IsProbe(w[e][i]) /\ w[e][i].frame.origin = n /\ Pair(e) = {n, m}
    BY DEF NoneOut
<1>2. PICK i \in DOMAIN w[e] :
        IsProbe(w[e][i]) /\ w[e][i].frame.origin = n /\ Pair(e) = {n, m}
    BY <1>1
<1>3. Awaited(E, e, w[e][i])
    BY <1>2 DEF Probing
<1>4. n \in {e[1], e[2]} /\ e[1] # e[2] /\ {e[1], e[2]} = {n, m}
    BY <1>2, <1>3 DEF Awaited, Pair, End
<1>5. Mate(e, n) = m
    BY <1>4 DEF Mate
<1>6. Under(e, w[e][i]) \in {0, 1, 2}
    BY DEF Under
<1> QED BY <1>2, <1>3, <1>5, <1>6 DEF Awaited, IsProbe

LEMMA TickAwaits ==
    ASSUME NEW G, NEW w, Probing(G, w), NEW n, NEW ticks, Engine(n, ticks, G[n]),
           n \in left.inp3
    PROVE  Awaits(w, n, G[n], engineTick(G[n]))
<1> DEFINE E == G[n]
           F == engineTick(E)
<1>1. /\ \A m \in DOMAIN E : ~Expired(E[m]) => m \in DOMAIN F /\ F[m] = Kept(E[m])
    BY TickEngine
<1> HIDE DEF F
<1> SUFFICES ASSUME NEW m \in DOMAIN E, E[m].awaiting, ~NoneOut(w, n, m)
             PROVE  m \in DOMAIN F /\ Same(E[m], F[m])
    BY DEF Awaits, F
<1>2. Timely /\ \E u \in {0, 1, 2} : E[m].sent <= u
    BY OutIsAwaited
<1>3. Aged(n, ticks, E[m])
    BY DEF Engine
<1>4. ~Expired(E[m])
    BY <1>2, <1>3, EngineAssumption DEF Aged, Timely, Expired, Never
<1>5. Kept(E[m]) = E[m]
    BY DEF Kept, Due
<1> QED BY <1>1, <1>4, <1>5 DEF Same

\* What n probes at a tick is awaited then, and was not before.
LEMMA TickAwaitable ==
    ASSUME NEW G, NEW w, Probing(G, w), NEW n, NEW ticks, Engine(n, ticks, G[n]),
           n \in left.inp3, NEW out, OneEach(n, out, Probed(G[n])),
           NEW H, H[n] = engineTick(G[n])
    PROVE  Awaitable(H, w, out, [m \in Probed(G[n]) |-> build(n)])
<1> DEFINE E == G[n]
           frames == [m \in Probed(E) |-> build(n)]
<1>0. /\ \A m \in DOMAIN E : ~Expired(E[m]) => m \in DOMAIN H[n] /\ H[n][m] = Kept(E[m])
      /\ \A m \in Probed(E) : m \in DOMAIN E /\ ~Expired(E[m]) /\ Due(E[m])
    <2>1. LET F == engineTick(E)
          IN  /\ \A m \in DOMAIN E : ~Expired(E[m]) => m \in DOMAIN F /\ F[m] = Kept(E[m])
              /\ \A m \in Probed(E) : m \in DOMAIN E /\ ~Expired(E[m]) /\ Due(E[m])
        BY TickEngine
    <2> QED BY <2>1
<1>1. ASSUME NEW e \in out
      PROVE  LET x == [frame |-> frames[e[2]], late |-> FALSE]
             IN  Awaited(H, e, x) /\ NoneOut(w, x.frame.origin, Mate(e, x.frame.origin))
    <2> DEFINE x == [frame |-> frames[e[2]], late |-> FALSE]
               m == e[2]
    <2>1. e \in End /\ e[1] = n /\ m \in Probed(E)
        BY DEF OneEach
    <2>2. x.frame = build(n) /\ ~x.late
        BY <2>1
    <2> HIDE DEF x
    <2>3. x.frame.origin = n
        BY <2>2 DEF build
    <2>4. Mate(e, n) = m /\ n \in {e[1], e[2]}
        BY <2>1 DEF Mate
    <2>5. /\ m \in DOMAIN E /\ Due(E[m])
          /\ m \in DOMAIN H[n] /\ H[n][m] = Kept(E[m])
        BY <1>0, <2>1
    <2>6. Aged(n, ticks, E[m])
        BY <2>5 DEF Engine
    <2>7. ~E[m].awaiting /\ H[n][m].awaiting /\ H[n][m].sent = 0
        <3> DEFINE r == E[m]
        <3>1. ~r.awaiting /\ Kept(r).awaiting /\ Kept(r).sent = 0
            <4> HIDE DEF r
            <4> QED BY <2>5, <2>6, KeptAged DEF r
        <3> QED BY <2>5, <3>1
    <2>8. Under(e, x) = 0
        BY <2>1, <2>2, <2>3 DEF Under
    <2>9. Awaited(H, e, x)
        BY <2>3, <2>4, <2>5, <2>7, <2>8 DEF Awaited
    <2>10. NoneOut(w, n, m)
        BY <2>7, OutIsAwaited
    <2> QED BY <2>3, <2>4, <2>9, <2>10 DEF x
<1> HIDE DEF frames
<1>2. Awaitable(H, w, out, frames)
    BY <1>1 DEF Awaitable
<1> QED BY <1>2 DEF frames

\* Frames that are no probes are sent as they may.
LEMMA UpdatesSound ==
    ASSUME NEW S, Sound(S), NEW n, NEW frames, \A m \in DOMAIN frames : frames[m].kind = "RIF"
    PROVE  Sound(sendInp3(S, n, frames)) /\ sendInp3(S, n, frames).eng = S.eng
<1>1. PICK out : SendsTo(S, n, frames, out)
    BY sendInp3Sends
<1> DEFINE v == Sends(S.wire, out, frames)
           T == [S EXCEPT !.wire = v]
<1>2. OneEach(n, out, DOMAIN frames) /\ sendInp3(S, n, frames) = T
    BY <1>1 DEF SendsTo
<1>3. Wired(v) /\ Extended(S.wire, v, out, frames)
    BY <1>2, SendsWired DEF Sound
<1>4. Awaitable(S.eng, S.wire, out, frames)
    <2>1. ASSUME NEW e \in out
          PROVE  ~IsProbe([frame |-> frames[e[2]], late |-> FALSE])
        BY <1>2 DEF OneEach, IsProbe
    <2> QED BY <2>1 DEF Awaitable
<1> HIDE DEF v
<1>5. Probing(S.eng, v)
    BY <1>2, <1>3, <1>4, SendsProbing DEF Sound
<1>6. Sound(T)
    BY <1>3, <1>5, WireSound
<1>7. T.eng = S.eng
    BY DEF Sound, Rec
<1> QED BY <1>2, <1>6, <1>7

\* A tick of n's by its parts: the probes are sent, neighbours and routes go, and
\* updates are sent.
Probes(n) == [m \in Probed(eng[n]) |-> build(n)]

Prepared(n, gone, away) ==
    Rec([table EXCEPT ![n] = [Without(table[n], gone, away) EXCEPT !.withdrawn = {}]],
        [eng EXCEPT ![n] = engineTick(eng[n])], links, sess, dials,
        sendInp3(State, n, Probes(n)).wire)

LEMMA TickParts ==
    ASSUME Inv, NEW n \in Node, Tick(n)
    PROVE  /\ n \in left.inp3 /\ ticked' = ticked \cup {n} /\ left' = left
           /\ Sound(State) /\ Engine(n, ticked, eng[n])
           /\ Engine(n, ticked \cup {n}, engineTick(eng[n]))
           /\ \E gone, away, updates :
                 /\ Sound(Prepared(n, gone, away))
                 /\ \A m \in DOMAIN updates : updates[m].kind = "RIF"
                 /\ Becomes(sendInp3(Prepared(n, gone, away), n, updates))
<1> DEFINE E       == engineTick(eng[n])
           silent  == Silent(eng[n])
           gone    == {r \in table[n].routes : r.via[2] \in silent}
           away    == Port \X silent
           t       == Without(table[n], gone, away)
           capable == CapableNeighbours(IF silent = {} THEN eng[n] ELSE E)
           s       == Briefed(sched[n], capable, t.withdrawn)
           probing == sendInp3(State, n, Probes(n))
           drained == [probing EXCEPT !.eng[n] = E, !.table[n] = [t EXCEPT !.withdrawn = {}]]
           rifs(picked) == [m \in Advertised(s) |-> OrderedRif(t, n, m, picked)]
<1>1. PICK picked \in Picks(t, n) :
        /\ n \in left.inp3 /\ Becomes(advertise(drained, n, rifs(picked)))
        /\ ticked' = ticked \cup {n} /\ left' = left
    BY DEF Tick, Probes
<1> HIDE DEF rifs, gone, away
<1> DEFINE G == [eng EXCEPT ![n] = E]
           u == [table EXCEPT ![n] = [t EXCEPT !.withdrawn = {}]]
<1> HIDE DEF t
<1>2. /\ Sound(State) /\ Wired(wire) /\ Probing(eng, wire)
      /\ eng = [k \in Node |-> eng[k]] /\ Engine(n, ticked, eng[n])
      /\ \A k \in Node : Engine(k, ticked, eng[k])
    BY StateHas DEF Inv, Sound, Engines
<1> DEFINE frames == Probes(n)
<1>3. PICK out : SendsTo(State, n, frames, out)
    BY <1>2, sendInp3Sends
<1> DEFINE v == Sends(wire, out, frames)
<1>4. DOMAIN frames = Probed(eng[n]) /\ \A m \in DOMAIN frames : frames[m].kind = "L3RTT"
    BY DEF build, Probes
<1>5. OneEach(n, out, Probed(eng[n])) /\ probing = [State EXCEPT !.wire = v]
    BY <1>3, <1>4, StateHas DEF SendsTo
<1> HIDE DEF frames, probing
<1>6. Wired(v) /\ Extended(wire, v, out, frames)
    BY <1>2, <1>4, <1>5, SendsWired
<1> HIDE DEF v
<1>7. Awaits(wire, n, eng[n], E) /\ Engine(n, ticked, E) /\ Engine(n, ticked \cup {n}, E)
    BY <1>1, <1>2, TickAwaits, TickEngine
<1> HIDE DEF E
<1>8. G[n] = E /\ G = [k \in Node |-> G[k]] /\ \A k \in Node : k # n => G[k] = eng[k]
    BY <1>2
<1>9. Probing(G, wire)
    BY <1>2, <1>7, AwaitsProbing
<1> HIDE DEF G
<1>10. Awaitable(G, wire, out, frames)
    BY <1>1, <1>2, <1>5, <1>8, TickAwaitable DEF E, frames, Probes
<1>11. Probing(G, v)
    BY <1>5, <1>6, <1>9, <1>10, SendsProbing
<1>12. drained = Rec(u, G, links, sess, dials, v) /\ probing.wire = v
    <2>1. probing = Rec(table, eng, links, sess, dials, v)
        BY <1>5 DEF State, Rec
    <2>2. probing.eng = eng /\ probing.table = table /\ probing.wire = v
        BY <2>1 DEF Rec
    <2> DEFINE A == [probing EXCEPT !.eng = G]
    <2>3. A = Rec(table, G, links, sess, dials, v)
        BY <2>1 DEF Rec
    <2>4. drained = [A EXCEPT !.table = u]
        BY <2>2 DEF G
    <2> HIDE DEF A, u, drained
    <2> QED BY <2>2, <2>3, <2>4 DEF Rec
<1>13. drained = Prepared(n, gone, away)
    BY <1>12 DEF Prepared, probing, frames, t, G, E
<1> HIDE DEF u, drained
<1>14. Engines(G)
    BY <1>2, <1>7, <1>8 DEF Engines
<1>15. Sound(drained)
    <2>1. links \subseteq End /\ Dialled(dials)
        BY <1>2, StateHas DEF Sound
    <2> QED BY <1>6, <1>11, <1>12, <1>14, <2>1, RecHas DEF Sound
<1> DEFINE updates == [m \in {x \in DOMAIN rifs(picked) :
                                  Fits(inp3RifToBytes(rifs(picked)[x]))} |->
                          [kind |-> "RIF", octets |-> inp3RifToBytes(rifs(picked)[m])]]
<1>16. \A m \in DOMAIN updates : updates[m].kind = "RIF"
    OBVIOUS
<1>17. Becomes(sendInp3(drained, n, updates))
    BY <1>1 DEF advertise
<1> HIDE DEF updates
<1> QED BY <1>1, <1>2, <1>7, <1>13, <1>15, <1>16, <1>17 DEF E

LEMMA TickSound ==
    ASSUME Inv, NEW n \in Node, Tick(n)
    PROVE  Sound(State)' /\ eng' = [eng EXCEPT ![n] = engineTick(eng[n])]
<1>1. /\ n \in left.inp3 /\ ticked' = ticked \cup {n} /\ left' = left
      /\ Sound(State) /\ Engine(n, ticked \cup {n}, engineTick(eng[n]))
    BY TickParts
<1>2. PICK gone, away, updates :
        /\ Sound(Prepared(n, gone, away))
        /\ \A m \in DOMAIN updates : updates[m].kind = "RIF"
        /\ Becomes(sendInp3(Prepared(n, gone, away), n, updates))
    BY TickParts
<1> DEFINE D == Prepared(n, gone, away)
           T == sendInp3(D, n, updates)
<1>3. Sound(T) /\ T.eng = D.eng /\ Becomes(T)
    BY <1>2, UpdatesSound
<1>4. D.eng = [eng EXCEPT ![n] = engineTick(eng[n])]
    BY DEF Prepared, Rec
<1>5. eng = [k \in Node |-> eng[k]]
    BY <1>1, StateHas DEF Sound, Engines
<1> HIDE DEF T, D
<1>6. T.eng[n] = engineTick(eng[n])
    BY <1>3, <1>4, <1>5
<1>7. Sound(State)'
    BY <1>1, <1>3, <1>6, TickedSound
<1>8. eng' = T.eng
    BY <1>3 DEF Becomes
<1> QED BY <1>3, <1>4, <1>7, <1>8

\* A neighbour that is a unit of time older.
Older(r) == [r EXCEPT !.refl = @ + 1,
                      !.sent = IF @ = Never THEN Never
                               ELSE IF r.awaiting THEN @ + 1 ELSE Smaller(@ + 1, Interval)]

LEMMA OlderAged ==
    ASSUME NEW n, NEW ticks, n \in ticks, NEW r, Aged(n, ticks, r)
    PROVE  /\ Aged(n, {}, Older(r)) /\ (Older(r).awaiting <=> r.awaiting)
           /\ r.awaiting => Older(r).sent = r.sent + 1
<1> DEFINE t == IF r.sent = Never THEN Never
                ELSE IF r.awaiting THEN r.sent + 1 ELSE Smaller(r.sent + 1, Interval)
           s == [r EXCEPT !.refl = r.refl + 1, !.sent = t]
<1>1. Older(r) = s
    BY DEF Older
<1>2. /\ {"sent", "refl", "awaiting"} \subseteq DOMAIN r /\ r.refl \in Nat
      /\ r.sent \in Nat \cup {Never} /\ (r.awaiting => r.sent # Never)
    BY DEF Aged
<1>3. /\ t \in Nat \cup {Never} /\ (t = Never <=> r.sent = Never)
      /\ r.awaiting => t = r.sent + 1
      /\ ~r.awaiting /\ t # Never => t = r.sent + 1 \/ t = Interval
    BY <1>2, EngineAssumption DEF Smaller, Never
<1> HIDE DEF t
<1>4. /\ {"sent", "refl", "awaiting"} \subseteq DOMAIN s
      /\ s.sent = t /\ s.refl = r.refl + 1 /\ (s.awaiting <=> r.awaiting)
    BY <1>2
<1> HIDE DEF s
<1>5. Timely => /\ ~r.awaiting => /\ r.refl < Interval /\ (r.sent # Never => r.refl <= r.sent)
                /\ r.awaiting => r.refl <= Interval + r.sent
    BY DEF Aged
<1>6. Aged(n, {}, s)
    BY <1>2, <1>3, <1>4, <1>5, EngineAssumption DEF Aged, Never
<1> QED BY <1>1, <1>3, <1>4, <1>6

LEMMA Elapses ==
    ASSUME NEW n, NEW E, Engine(n, left.inp3, E)
    PROVE  LET F == Elapse(E)
           IN  /\ Engine(n, {}, F)
               /\ \A m \in DOMAIN E : /\ m \in DOMAIN F
                                      /\ E[m].awaiting => F[m].awaiting /\ F[m].sent = E[m].sent + 1
<1> DEFINE F == Elapse(E)
<1>1. F = [m \in DOMAIN E |-> Older(E[m])]
    BY DEF Elapse, Older
<1> HIDE DEF F
<1>2. ASSUME NEW m \in DOMAIN E
      PROVE  /\ Aged(n, {}, F[m]) /\ (F[m].awaiting <=> E[m].awaiting)
             /\ E[m].awaiting => F[m].sent = E[m].sent + 1
    <2>1. n \in left.inp3 /\ Aged(n, left.inp3, E[m]) /\ F[m] = Older(E[m])
        BY <1>1, <1>2 DEF Engine
    <2> QED BY <2>1, OlderAged
<1>3. DOMAIN F = DOMAIN E /\ F = [m \in DOMAIN F |-> F[m]]
    BY <1>1
<1>4. Engine(n, {}, F)
    BY <1>2, <1>3 DEF Engine
<1> QED BY <1>2, <1>3, <1>4 DEF F

LEMMA PassSound ==
    ASSUME Inv, Pass
    PROVE  Sound(State)'
<1>1. /\ ticked = left.inp3 /\ ticked' = {} /\ left' = left
      /\ \A e \in End : \A i \in DOMAIN wire[e] : ~wire[e][i].late
      /\ eng' = [n \in Node |-> Elapse(eng[n])]
      /\ wire' = [e \in End |-> [i \in DOMAIN wire[e] |-> [wire[e][i] EXCEPT !.late = TRUE]]]
      /\ table' = table /\ links' = links /\ sess' = sess /\ dials' = dials
    BY DEF Pass
<1>2. /\ links \subseteq End /\ Dialled(dials) /\ Wired(wire) /\ Probing(eng, wire)
      /\ \A n \in Node : Engine(n, ticked, eng[n])
    BY StateHas DEF Inv, Sound, Engines
<1>3. ASSUME NEW n \in Node
      PROVE  /\ Engine(n, {}, eng'[n])
             /\ \A m \in DOMAIN eng[n] :
                   /\ m \in DOMAIN eng'[n]
                   /\ eng[n][m].awaiting => /\ eng'[n][m].awaiting
                                            /\ eng'[n][m].sent = eng[n][m].sent + 1
    BY <1>1, <1>2, Elapses
<1>4. Engines(eng)'
    BY <1>1, <1>3 DEF Engines, Engine
<1>5. ASSUME NEW e \in End
      PROVE  /\ Queue(wire[e]) /\ DOMAIN wire'[e] = DOMAIN wire[e]
             /\ wire'[e] = [i \in DOMAIN wire[e] |-> wire'[e][i]]
             /\ \A i \in DOMAIN wire[e] :
                   /\ Carried(e, wire[e][i])
                   /\ wire'[e][i] = [wire[e][i] EXCEPT !.late = TRUE]
    BY <1>1, <1>2 DEF Wired
<1>6. ASSUME NEW e \in End, NEW i \in DOMAIN wire[e]
      PROVE  /\ wire'[e][i].frame = wire[e][i].frame /\ wire'[e][i].late
             /\ Carried(e, wire'[e][i])
    <2> DEFINE x == wire[e][i]
               y == wire'[e][i]
    <2>1. Carried(e, x) /\ y = [x EXCEPT !.late = TRUE]
        BY <1>5
    <2> HIDE DEF x, y
    <2>2. y = [frame |-> y.frame, late |-> y.late] /\ y.frame = x.frame /\ y.late
        BY <2>1 DEF Carried
    <2>3. Carried(e, y)
        BY <2>1, <2>2 DEF Carried
    <2> QED BY <2>2, <2>3 DEF x, y
<1>7. Wired(wire)'
    <2>1. \A e \in End : Queue(wire'[e])
        BY <1>5, QueueMap
    <2>2. wire' = [e \in End |-> wire'[e]]
        BY <1>1
    <2> QED BY <1>5, <1>6, <2>1, <2>2 DEF Wired
<1>8. Probing(eng, wire)'
    <2>1. ASSUME NEW e \in End, NEW i \in DOMAIN wire[e], IsProbe(wire'[e][i])
          PROVE  Awaited(eng', e, wire'[e][i])
        <3> DEFINE x == wire[e][i]
                   y == wire'[e][i]
                   o == x.frame.origin
                   m == Mate(e, o)
        <3>1. /\ o \in {e[1], e[2]} /\ m \in DOMAIN eng[o] /\ eng[o][m].awaiting
              /\ eng[o][m].sent <= Under(e, x)
            BY SMTT(60), <1>2, <1>6, <2>1 DEF Probing, Awaited, IsProbe
        <3>2. o \in Node
            BY <3>1 DEF End
        <3>3. eng[o][m].sent \in Int
            <4>1. Engine(o, ticked, eng[o]) /\ m \in DOMAIN eng[o]
                BY <1>2, <3>1, <3>2
            <4> HIDE DEF o, m
            <4>2. Aged(o, ticked, eng[o][m])
                BY <4>1 DEF Engine
            <4> QED BY <4>2 DEF Aged, Never
        <3>4. y.frame = x.frame /\ y.late /\ ~x.late
            BY <1>1, <1>6
        <3> HIDE DEF x, y
        <3>5. Under(e, y) = Under(e, x) + 1 /\ Under(e, x) \in Int
            BY <3>4 DEF Under
        <3>6. /\ m \in DOMAIN eng'[o] /\ eng'[o][m].awaiting
              /\ eng'[o][m].sent = eng[o][m].sent + 1
            BY <1>3, <3>1, <3>2
        <3>7. eng'[o][m].sent <= Under(e, y)
            BY <3>1, <3>3, <3>5, <3>6
        <3> QED BY <3>1, <3>4, <3>6, <3>7 DEF Awaited, y
    <2>2. ASSUME NEW e \in End, NEW g \in End, NEW i \in DOMAIN wire[e], NEW j \in DOMAIN wire[g],
                 IsProbe(wire'[e][i]), IsProbe(wire'[g][j]),
                 wire'[e][i].frame.origin = wire'[g][j].frame.origin, Pair(e) = Pair(g)
          PROVE  e = g /\ i = j
        <3>1. /\ wire'[e][i].frame = wire[e][i].frame
              /\ wire'[g][j].frame = wire[g][j].frame
            BY <1>6
        <3>2. /\ IsProbe(wire[e][i]) /\ IsProbe(wire[g][j])
              /\ wire[e][i].frame.origin = wire[g][j].frame.origin
            BY <2>2, <3>1 DEF IsProbe
        <3> QED BY <1>2, <2>2, <3>2 DEF Probing
    <2> QED BY <1>5, <2>1, <2>2 DEF Probing
<1> QED BY <1>1, <1>2, <1>4, <1>7, <1>8, StateHas DEF Sound, State, Rec

-----------------------------------------------------------------------------

LEMMA InitInv == Init => Inv
<1> SUFFICES ASSUME Init PROVE Inv
    OBVIOUS
<1>1. PICK mode \in Modes : left = mode
    BY DEF Init
<1>2. "inp3" \in DOMAIN left
    BY <1>1, ModeAssumption DEF Mode
<1>3. /\ eng = [n \in Node |-> <<>>] /\ links = {} /\ dials = [n \in Node |-> <<>>]
      /\ wire = [e \in End |-> <<>>]
    BY DEF Init
<1>4. Dialled(dials) /\ Wired(wire)
    BY <1>3, QueueEmpty DEF Dialled, Wired
<1>5. Engines(eng)
    BY <1>3, QueueEmpty DEF Engines, Engine
<1>6. Probing(eng, wire)
    BY <1>3, QueueEmpty DEF Probing
<1> QED BY <1>2, <1>3, <1>4, <1>5, <1>6, StateHas DEF Inv, Sound

LEMMA NextInv == Inv /\ [Next]_vars => Inv'
<1> SUFFICES ASSUME Inv, [Next]_vars PROVE Inv'
    BY SMTT(30)
<1>1. "inp3" \in DOMAIN left'
    BY ZenonT(60) DEF Inv, Next, vars, Deliver, Established, DialFails, EndDown, Continue, Tick, Open,
           Enter, Learn, Lose, detachPort, attachPort, Pass
<1>2. ASSUME UNCHANGED State, ticked' = ticked, left' = left PROVE Sound(State)'
    BY <1>2, StateHas DEF Inv, Sound, Engines, Engine
<1>3. Sound(State)'
    <2>1. ASSUME NEW e \in End, Deliver(e) PROVE Sound(State)'
        BY <2>1, DeliverSound
    <2>2. ASSUME NEW e \in End, Established(e) PROVE Sound(State)'
        BY <2>2, EstablishedSound
    <2>3. ASSUME NEW e \in End, DialFails(e) PROVE Sound(State)'
        BY <2>3, DialFailsSound
    <2>4. ASSUME NEW e \in End, EndDown(e) PROVE Sound(State)'
        BY <2>4, EndDownSound
    <2>5. ASSUME NEW n \in Node, Continue(n) PROVE Sound(State)'
        BY <2>5, ContinueSound
    <2>6. ASSUME NEW n \in Node, Tick(n) PROVE Sound(State)'
        BY <2>6, TickSound
    <2>7. ASSUME NEW n \in Node, NEW x \in Node, Open(n, x) PROVE Sound(State)'
        BY <2>7, OpenSound
    <2>8. ASSUME NEW n \in Node, NEW x \in Node, Enter(n, x) PROVE Sound(State)'
        BY <2>8, EnterSound
    <2>9. ASSUME NEW n \in Node, NEW x \in Node, Learn(n, x) \/ Lose(n, x) PROVE Sound(State)'
        BY <2>9, LearnSound
    <2>10. ASSUME NEW n \in Node, NEW p \in Port, detachPort(n, p) PROVE Sound(State)'
        BY <2>10, detachPortSound
    <2>11. ASSUME NEW n \in Node, NEW p \in Port, attachPort(n, p) PROVE Sound(State)'
        BY <1>2, <2>11 DEF attachPort, State
    <2>12. CASE Pass
        BY <2>12, PassSound
    <2>13. CASE UNCHANGED vars
        BY <1>2, <2>13 DEF vars, State
    <2> QED BY <2>1, <2>2, <2>3, <2>4, <2>5, <2>6, <2>7, <2>8, <2>9, <2>10, <2>11, <2>12,
               <2>13 DEF Next
<1> QED BY <1>1, <1>3 DEF Inv

LEMMA AlwaysInv == Spec => []Inv
    BY InitInv, NextInv, PTL DEF Spec

\* Whatever the tables and however often links fail and are dialled again, every
\* datagram on a link has hops left, no more than it came with or was granted, has
\* never been sent back where it came from, nor sent on by its origin
\* (decideForward, forwardDatagram, sendNetRomPacket, ensureInterlink).
THEOREM DatagramsAlwaysEnd == Spec => []DatagramsEnd
<1>1. Inv => DatagramsEnd
    <2> SUFFICES ASSUME Inv, NEW e \in End, NEW i \in DOMAIN wire[e],
                        wire[e][i].frame.kind = "DATA"
                 PROVE  LET p == wire[e][i].frame
                            path == Append(p.path, e[2])
                        IN  /\ Len(p.path) + p.ttl <= MaxTimeToLive + 2
                            /\ p.ttl > 0
                            /\ \A j \in 3 .. Len(path) : path[j] # path[j - 2]
                            /\ \A j \in 2 .. Len(p.path) : p.path[j] # p.origin
        BY DEF DatagramsEnd
    <2> DEFINE p == wire[e][i].frame
               k == Len(p.path)
               path == Append(p.path, e[2])
    <2>1. OnItsWay(e[1], e[2], p)
        BY StateHas DEF Inv, Sound, Wired, Carried
    <2> HIDE DEF p
    <2>2. /\ p.path \in Seq(Node) /\ k \in Nat \ {0}
          /\ \A j \in 3 .. k : p.path[j] # p.path[j - 2]
          /\ k > 1 => e[2] # p.path[k - 1]
          /\ \A j \in 2 .. k : p.path[j] # p.origin
          /\ p.ttl > 0 /\ k + p.ttl <= MaxTimeToLive + 2
        BY <2>1 DEF OnItsWay, Trodden
    <2>3. Len(path) = k + 1 /\ path[k + 1] = e[2] /\ \A j \in 1 .. k : path[j] = p.path[j]
        <3>1. e[2] \in Node
            BY DEF End
        <3> QED BY <2>2, <3>1
    <2> HIDE DEF k, path
    <2>4. ASSUME NEW j \in 3 .. k + 1 PROVE path[j] # path[j - 2]
        <3>1. CASE j = k + 1
            <4>1. k - 1 \in 1 .. k /\ j - 2 = k - 1 /\ k > 1
                BY <2>2, <3>1
            <4> QED BY <2>2, <2>3, <3>1, <4>1
        <3>2. CASE j # k + 1
            <4>1. j \in 3 .. k /\ j \in 1 .. k /\ j - 2 \in 1 .. k
                BY <2>2, <3>2
            <4> QED BY <2>2, <2>3, <4>1
        <3> QED BY <3>1, <3>2
    <2> QED BY <2>2, <2>3, <2>4 DEF p, k, path
<1> QED BY <1>1, AlwaysInv, PTL

\* At most one probe of a node's to a neighbour is under way, there or back, and
\* the node awaits it (tick, handleL3Rtt), where the reset window leaves a probe
\* the time there and back and every neighbour is probed.
THEOREM ProbesAlwaysAwaited ==
    ASSUME ProbeUnknown, ResetWindow >= Interval + 2
    PROVE  Spec => []ProbeIsAwaited
<1>1. Inv => ProbeIsAwaited
    <2> SUFFICES ASSUME Inv, NEW n \in Node, NEW m \in Node, ProbesOut(n, m) # {}
                 PROVE  /\ Cardinality(ProbesOut(n, m)) = 1
                        /\ m \in DOMAIN eng[n] /\ eng[n][m].awaiting
        BY DEF ProbeIsAwaited
    <2>1. Probing(eng, wire)
        BY StateHas DEF Inv, Sound
    <2>2. ASSUME NEW x \in ProbesOut(n, m)
          PROVE  \E e \in End : \E i \in DOMAIN wire[e] :
                    /\ x = <<e, i>> /\ IsProbe(wire[e][i])
                    /\ wire[e][i].frame.origin = n /\ Pair(e) = {n, m}
        BY DEF ProbesOut, IsProbe, Timely, Pair
    <2>3. PICK x \in ProbesOut(n, m) : TRUE
        OBVIOUS
    <2>4. \A y \in ProbesOut(n, m) : y = x
        <3> TAKE y \in ProbesOut(n, m)
        <3>1. PICK e \in End : \E i \in DOMAIN wire[e] :
                    /\ x = <<e, i>> /\ IsProbe(wire[e][i])
                    /\ wire[e][i].frame.origin = n /\ Pair(e) = {n, m}
            BY <2>2
        <3>2. PICK g \in End : \E j \in DOMAIN wire[g] :
                    /\ y = <<g, j>> /\ IsProbe(wire[g][j])
                    /\ wire[g][j].frame.origin = n /\ Pair(g) = {n, m}
            BY <2>2
        <3> QED BY <2>1, <3>1, <3>2 DEF Probing
    <2>5. Cardinality(ProbesOut(n, m)) = 1
        <3>1. ProbesOut(n, m) = {x}
            BY <2>4
        <3> QED BY <3>1, FS_Singleton
    <2>6. ~NoneOut(wire, n, m)
        BY <2>2, <2>3 DEF NoneOut
    <2> QED BY <2>1, <2>5, <2>6, OutIsAwaited
<1> QED BY <1>1, AlwaysInv, PTL

-----------------------------------------------------------------------------
(* What leaves the engines alone *)

LEMMA EngineKept ==
    ASSUME NEW S, Sound(S)
    PROVE  /\ \A v : [S EXCEPT !.table = v].eng = S.eng
           /\ \A v : [S EXCEPT !.links = v].eng = S.eng
           /\ \A v : [S EXCEPT !.dials = v].eng = S.eng
           /\ \A v : [S EXCEPT !.sess = v].eng = S.eng
           /\ \A v : [S EXCEPT !.wire = v].eng = S.eng
    BY DEF Sound, Rec

LEMMA SendSteady ==
    ASSUME NEW S, Sound(S), NEW e, NEW f
    PROVE  Send(S, e, f).eng = S.eng
    BY EngineKept DEF Send

LEMMA sendInp3Steady ==
    ASSUME NEW S, Sound(S), NEW n, NEW frames
    PROVE  sendInp3(S, n, frames).eng = S.eng
    BY EngineKept DEF sendInp3

LEMMA sendNetRomPacketSteady ==
    ASSUME NEW S, Sound(S), NEW n, NEW p
    PROVE  sendNetRomPacket(S, n, p).eng = S.eng
<1>1. \/ sendNetRomPacket(S, n, p) = S
      \/ \E e, q : sendNetRomPacket(S, n, p) = Send(S, e, q)
    BY DEF sendNetRomPacket
<1> QED BY <1>1, SendSteady

LEMMA DialSteady ==
    ASSUME NEW S, Sound(S), NEW e, NEW work
    PROVE  Dial(S, e, work).eng = S.eng
<1> DEFINE T == [S EXCEPT !.sess[e] = "Dialling",
                          !.wire[e] = <<>>, !.wire[Other(e)] = <<>>]
<1>1. \/ Dial(S, e, work) = S
      \/ Dial(S, e, work) = Waits(S, e, work, "failed")
      \/ Dial(S, e, work) = Waits(T, e, work, "pending")
    BY DEF Dial
<1>2. T = Rec(S.table, S.eng, S.links, [S.sess EXCEPT ![e] = "Dialling"], S.dials,
              [[S.wire EXCEPT ![e] = <<>>] EXCEPT ![Other(e)] = <<>>])
    BY DialledRec
<1> HIDE DEF T
<1>3. T.eng = S.eng /\ {"eng", "dials"} \subseteq DOMAIN T
    BY <1>2 DEF Rec
<1>4. {"eng", "dials"} \subseteq DOMAIN S
    BY DEF Sound, Rec
<1> QED BY <1>1, <1>3, <1>4 DEF Waits

LEMMA connectCircuitSteady ==
    ASSUME NEW S, Sound(S), NEW n, NEW d, NEW attempt
    PROVE  connectCircuit(S, n, d, attempt).eng = S.eng
<1>1. \/ connectCircuit(S, n, d, attempt) = S
      \/ connectCircuit(S, n, d, attempt) = originateCircuit(S, n, d)
      \/ \E e, work : connectCircuit(S, n, d, attempt) = Dial(S, e, work)
    BY DEF connectCircuit
<1>2. originateCircuit(S, n, d).eng = S.eng
    BY sendNetRomPacketSteady DEF originateCircuit
<1> QED BY <1>1, <1>2, DialSteady

LEMMA onPacketSteady ==
    ASSUME NEW S, Sound(S), NEW n, NEW from, NEW p
    PROVE  onPacket(S, n, from, p).eng = S.eng
<1>1. deliverPacket(S, n, p).eng = S.eng
    BY sendNetRomPacketSteady DEF deliverPacket
<1>2. \/ forwardDatagram(S, n, from, p) = S
      \/ \E e, q : forwardDatagram(S, n, from, p) = Send(S, e, q)
      \/ \E e, work : forwardDatagram(S, n, from, p) = Dial(S, e, work)
    BY DEF forwardDatagram
<1>3. forwardDatagram(S, n, from, p).eng = S.eng
    BY <1>2, SendSteady, DialSteady
<1> QED BY <1>1, <1>3 DEF onPacket

LEMMA ResolvedSteady ==
    ASSUME NEW S, Sound(S), NEW n \in Node, NEW d, Waiting(n, d)
    PROVE  Resolved(S, n, d).eng = S.eng /\ Rejected(S, n, d).eng = S.eng
<1> DEFINE l == S.links \cup {d.end}
           T == [S EXCEPT !.links = l]
           t == [S.table EXCEPT ![n] = MarkNeighbourDown(@, <<d.end[3], d.end[2]>>)]
           U == [S EXCEPT !.table = t]
<1>1. l \in SUBSET End
    BY DEF Waiting, Sound
<1> HIDE DEF l, t
<1>2. Sound(T) /\ T.eng = S.eng /\ Sound(U) /\ U.eng = S.eng
    BY <1>1, LinksSound, TableSound, EngineKept
<1>3. /\ Resolved(S, n, d) = IF d.work.kind = "circuit" THEN originateCircuit(T, n, d.work.dest)
                             ELSE Send(T, d.end, d.work.packet)
      /\ Rejected(S, n, d) = IF d.work.kind = "circuit"
                             THEN connectCircuit(U, n, d.work.dest, d.work.attempt + 1) ELSE U
    BY DEF Resolved, Rejected, l, t
<1> HIDE DEF T, U
<1>4. originateCircuit(T, n, d.work.dest).eng = T.eng
    BY <1>2, sendNetRomPacketSteady DEF originateCircuit
<1>5. Send(T, d.end, d.work.packet).eng = T.eng
    BY <1>2, SendSteady
<1>6. connectCircuit(U, n, d.work.dest, d.work.attempt + 1).eng = U.eng
    BY <1>2, connectCircuitSteady
<1> QED BY <1>2, <1>3, <1>4, <1>5, <1>6


\* What the engines know they know still.
Knows(E, F) == \A n \in Node : DOMAIN E[n] \subseteq DOMAIN F[n]

LEMMA dispatchInp3Knows ==
    ASSUME NEW S, Sound(S), NEW c \in End, NEW x, Carried(c, x)
    PROVE  Knows(S.eng, dispatchInp3(S, c[2], c[1], c[3], x.frame).eng)
<1> DEFINE n == c[2]
           m == c[1]
           f == x.frame
           F == observeNeighbour(S.eng[n], m)
           T == [S EXCEPT !.eng[n] = F]
           R == dispatchInp3(S, n, m, c[3], f)
           rif == ingestInp3Rif(T, n, m, c[3], ToSet(parseInp3Rif(f.octets)))
<1>1. n \in Node
    BY DEF End
<1>2. \/ /\ n \in left.inp3
         /\ \/ R = rif
            \/ R = onL3Rtt(T, n, m, f)
            \/ R = onPacket(T, n, m, f)
      \/ R = onPacket(S, n, m, f)
      \/ R = S
    <2>1. f.kind \in {"RIF", "L3RTT", "DATA"}
        BY DEF Carried
    <2> HIDE DEF n, m, f, F
    <2> QED BY <2>1 DEF dispatchInp3, F
<1>3. ASSUME n \in left.inp3
      PROVE  /\ Sound(T) /\ T.eng[n] = F /\ Knows(S.eng, T.eng) /\ m \in DOMAIN F
    <2>1. Engine(n, ticked, S.eng[n])
        BY <1>1 DEF Sound, Engines
    <2>2. /\ Engine(n, ticked, F) /\ m \in DOMAIN F /\ DOMAIN S.eng[n] \subseteq DOMAIN F
          /\ \A k \in DOMAIN S.eng[n] : F[k] = S.eng[n][k]
        BY <1>3, <2>1, Observes
    <2> HIDE DEF F
    <2>3. Awaits(S.wire, n, S.eng[n], F)
        BY <2>2 DEF Awaits, Same
    <2>4. /\ Sound(T) /\ T.eng[n] = F /\ T.wire = S.wire
          /\ \A k \in Node : k # n => T.eng[k] = S.eng[k]
        BY <1>1, <2>2, <2>3, EngineSound
    <2> HIDE DEF T
    <2>5. Knows(S.eng, T.eng)
        BY <2>2, <2>4 DEF Knows
    <2> QED BY <2>2, <2>4, <2>5
<1>4. ASSUME n \in left.inp3 PROVE Knows(S.eng, rif.eng)
    <2> HIDE DEF T, F
    <2>1. \E t : rif = [T EXCEPT !.table = t]
        BY DEF ingestInp3Rif
    <2> HIDE DEF rif
    <2> QED BY <1>3, <1>4, <2>1, EngineKept
<1>5. ASSUME n \in left.inp3 PROVE Knows(S.eng, onL3Rtt(T, n, m, f).eng)
    <2> DEFINE H == handleL3Rtt(T.eng[n], n, m, f)
               U == [T EXCEPT !.eng[n] = H]
               G == [T.eng EXCEPT ![n] = H]
               link == interlinkForCallsign(U, n, m)
    <2> HIDE DEF T, F
    <2>1. Sound(T) /\ T.eng[n] = F /\ Knows(S.eng, T.eng) /\ m \in DOMAIN F
        BY <1>3, <1>5
    <2>2. Engine(n, ticked, T.eng[n])
        BY <1>1, <2>1 DEF Sound, Engines
    <2>3. DOMAIN H = DOMAIN T.eng[n]
        BY <1>1, <1>5, <2>1, <2>2, handleL3RttEngine
    <2> HIDE DEF H
    <2>4. U = Rec(T.table, G, T.links, T.sess, T.dials, T.wire)
        BY <2>1 DEF Sound, Rec
    <2>5. \A k \in Node : DOMAIN G[k] = DOMAIN T.eng[k]
        BY <1>1, <2>1, <2>3 DEF Sound, Engines
    <2> HIDE DEF U, G
    <2>6. \E v : onL3Rtt(T, n, m, f) = U \/ onL3Rtt(T, n, m, f) = [U EXCEPT !.wire = v]
        BY DEF onL3Rtt, sendInp3, U, H
    <2>7. \A v : [U EXCEPT !.wire = v].eng = G /\ U.eng = G
        BY <2>4 DEF Rec
    <2> QED BY <2>1, <2>5, <2>6, <2>7 DEF Knows
<1>6. onPacket(S, n, m, f).eng = S.eng
    BY onPacketSteady
<1>7. ASSUME n \in left.inp3 PROVE Knows(S.eng, onPacket(T, n, m, f).eng)
    <2> HIDE DEF T, F
    <2> QED BY <1>3, <1>7, onPacketSteady
<1>8. Knows(S.eng, S.eng)
    BY DEF Knows
<1> HIDE DEF R, rif, T
<1>9. Knows(S.eng, R.eng)
    BY <1>2, <1>4, <1>5, <1>6, <1>7, <1>8
<1> QED BY <1>9 DEF R

LEMMA DownSteady ==
    ASSUME NEW S, Sound(S), NEW e
    PROVE  Down(S, e).eng = S.eng
    BY DownRec DEF Rec

\* A neighbour is forgotten at a tick only.
LEMMA OnlyTickForgets ==
    ASSUME Inv, [Next]_vars, NEW n \in Node, NEW m \in DOMAIN eng[n], m \notin DOMAIN eng'[n]
    PROVE  Tick(n)
<1>1. Sound(State) /\ State.eng = eng /\ State.wire = wire
    BY StateHas DEF Inv
<1>2. ASSUME eng' = eng PROVE FALSE
    BY <1>2
<1>3. ASSUME NEW T, Becomes(T), T.eng = eng PROVE FALSE
    BY <1>2, <1>3 DEF Becomes
<1>4. ASSUME NEW T, Becomes(T), Knows(eng, T.eng) PROVE FALSE
    BY <1>4 DEF Becomes, Knows
<1>5. ASSUME NEW c \in End, Deliver(c) PROVE FALSE
    <2> DEFINE T == [State EXCEPT !.links = @ \cup {Other(c)}, !.wire[c] = Tail(@)]
               x == Head(State.wire[c])
    <2>1. Sound(T) /\ Carried(c, x)
        BY <1>1, <1>5, HeadTaken DEF Deliver
    <2>2. T.eng = eng
        <3>1. T = [[State EXCEPT !.links = @ \cup {Other(c)}] EXCEPT !.wire = [wire EXCEPT ![c] = Tail(@)]]
            BY <1>1
        <3>2. [State EXCEPT !.links = @ \cup {Other(c)}] =
                  Rec(table, eng, links \cup {Other(c)}, sess, dials, wire)
            BY DEF State, Rec
        <3> QED BY <3>1, <3>2 DEF Rec
    <2>3. Becomes(dispatchInp3(T, c[2], c[1], c[3], x.frame))
        BY <1>1, <1>5 DEF Deliver
    <2> HIDE DEF T, x
    <2>4. Knows(eng, dispatchInp3(T, c[2], c[1], c[3], x.frame).eng)
        BY <2>1, <2>2, dispatchInp3Knows
    <2> QED BY <1>4, <2>3, <2>4, SMTT(30)
<1>6. ASSUME NEW e \in End, Established(e) PROVE FALSE
    <2> DEFINE T == [State EXCEPT !.sess[e] = "Connected", !.sess[Other(e)] = "Connected"]
               A == Settle(T, e, "up")
               B == Settle(A, Other(e), "up")
    <2>1. Sound(T) /\ T.eng = eng
        BY EstablishedRec
    <2> HIDE DEF T
    <2>2. Sound(A) /\ A.eng = eng
        BY ZenonT(60), <2>1, SettleSound, EngineKept DEF Settle
    <2> HIDE DEF A
    <2>3. B.eng = eng
        BY <2>2, EngineKept DEF Settle
    <2>4. Becomes(B)
        BY <1>6 DEF Established, A, T
    <2> HIDE DEF B
    <2> QED BY <1>3, <2>3, <2>4
<1>7. ASSUME NEW e \in End, DialFails(e) \/ EndDown(e) PROVE FALSE
    <2>1. Down(State, e).eng = eng /\ Sound(Down(State, e))
        BY <1>1, DownSteady, DownSound
    <2>2. Settle(Down(State, e), e, "failed").eng = eng
        BY <2>1, EngineKept DEF Settle
    <2> QED BY <1>3, <1>7, <2>1, <2>2 DEF DialFails, EndDown
<1>8. ASSUME NEW k \in Node, Continue(k) PROVE FALSE
    <2>1. PICK i \in Settled(k) :
            LET S == [State EXCEPT !.dials[k] = RemoveAt(@, i)]
            IN  Becomes(IF dials[k][i].outcome = "up" THEN Resolved(S, k, dials[k][i])
                        ELSE Rejected(S, k, dials[k][i]))
        BY <1>8 DEF Continue
    <2> DEFINE S == [State EXCEPT !.dials[k] = RemoveAt(@, i)]
               d == dials[k][i]
    <2>2. Sound(S) /\ Waiting(k, d) /\ S.eng = eng
        <3>1. i \in DOMAIN State.dials[k] /\ State.dials = dials
            BY StateHas DEF Settled
        <3>2. /\ Sound(S) /\ Waiting(k, State.dials[k][i])
              /\ S = Rec(State.table, State.eng, State.links, State.sess, S.dials, State.wire)
            <4>1. Sound(State) /\ k \in Node /\ i \in DOMAIN State.dials[k]
                BY <1>1, <3>1
            <4> QED BY ONLY <4>1, DialTaken
        <3>3. S.eng = eng
            <4> HIDE DEF S
            <4> QED BY <1>1, <3>2 DEF Rec
        <3> QED BY <3>1, <3>2, <3>3
    <2>3. Becomes(IF d.outcome = "up" THEN Resolved(S, k, d) ELSE Rejected(S, k, d))
        BY <2>1
    <2> HIDE DEF S, d
    <2>4. Resolved(S, k, d).eng = eng /\ Rejected(S, k, d).eng = eng
        BY <2>2, ResolvedSteady
    <2> QED BY <1>3, <2>3, <2>4
<1>9. ASSUME NEW k \in Node, Tick(k), k # n PROVE FALSE
    <2>1. eng' = [eng EXCEPT ![k] = engineTick(eng[k])]
        BY <1>9, TickSound
    <2>2. eng = [j \in Node |-> eng[j]]
        BY <1>1 DEF Sound, Engines
    <2> QED BY <1>9, <2>1, <2>2
<1>10. ASSUME NEW k \in Node, NEW d \in Node, Open(k, d) \/ Enter(k, d) PROVE FALSE
    <2>1. \/ Becomes(connectCircuit(State, k, d, 1))
          \/ \E p : Becomes(onPacket(State, k, d, p))
        BY <1>10 DEF Open, Enter
    <2> QED BY <1>1, <1>3, <2>1, connectCircuitSteady, onPacketSteady
<1>11. ASSUME NEW k \in Node, NEW x \in Node, Learn(k, x) \/ Lose(k, x) PROVE FALSE
    <2>1. \E t : Becomes([State EXCEPT !.table = t])
        BY <1>11 DEF Learn, Lose
    <2> QED BY <1>1, <1>3, <2>1, EngineKept
<1>12. ASSUME NEW k \in Node, NEW p \in Port, detachPort(k, p) \/ attachPort(k, p) PROVE FALSE
    <2>1. eng' = eng \/ \E l : Becomes([State EXCEPT !.links = l])
        BY <1>1, <1>12 DEF detachPort, attachPort
    <2> QED BY <1>1, <1>2, <1>3, <2>1, EngineKept
<1>13. ASSUME Pass PROVE FALSE
    BY <1>13 DEF Pass, Elapse
<1> QED BY <1>2, <1>5, <1>6, <1>7, <1>8, <1>9, <1>10, <1>11, <1>12, <1>13 DEF Next, vars

\* A capable neighbour is forgotten when its answer has been awaited for longer
\* than a probe takes there and back.
LEMMA ForgottenUnheard ==
    ASSUME Inv, Timely, [Next]_vars,
           NEW n \in Node, NEW m \in DOMAIN eng[n], m \notin DOMAIN eng'[n]
    PROVE  eng[n][m].awaiting /\ NoneOut(wire, n, m)
<1>1. Engines(eng) /\ Probing(eng, wire) /\ Tick(n)
    BY OnlyTickForgets, StateHas DEF Inv, Sound
<1>2. eng' = [eng EXCEPT ![n] = engineTick(eng[n])]
    BY <1>1, TickSound
<1>3. eng'[n] = engineTick(eng[n])
    BY <1>1, <1>2 DEF Engines
<1>4. Expired(eng[n][m])
    BY <1>3 DEF engineTick
<1>5. Engine(n, ticked, eng[n])
    BY <1>1 DEF Engines
<1>6. Aged(n, ticked, eng[n][m])
    BY <1>5 DEF Engine
<1>7. eng[n][m].awaiting
    BY <1>4, <1>6, EngineAssumption DEF Aged, Timely, Expired
<1>8. ASSUME ~NoneOut(wire, n, m) PROVE FALSE
    <2>1. \E u \in {0, 1, 2} : eng[n][m].sent <= u
        BY <1>1, <1>8, OutIsAwaited
    <2> QED BY <1>4, <1>6, <1>7, <2>1, EngineAssumption DEF Aged, Timely, Expired, Never
<1> QED BY <1>7, <1>8

-----------------------------------------------------------------------------
(* Where no link fails *)

Up(s, e) == s[e] = "Connected" /\ s[Other(e)] = "Connected"

\* Every way of n's is over the one link there is to the neighbour.
Along(n, t) ==
    /\ {"routes", "neighbours", "withdrawn"} \subseteq DOMAIN t
    /\ \A r \in t.routes : "via" \in DOMAIN r
    /\ \A v \in Vias(t) : Plain(n, v)

Tabled(t) == t = [n \in Node |-> t[n]] /\ \A n \in Node : Along(n, t[n])

\* No listed end is down, nor the peer of one that is connected.
Listed(l, s) ==
    /\ s = [e \in End |-> s[e]] /\ l \subseteq Used
    /\ \A e \in l : s[e] # "Disconnected"
    /\ \A e \in End : s[e] = "Connected" => s[Other(e)] # "Disconnected"

\* No dial has failed, and none is of an end that is down.
Called(D, s) ==
    \A n \in Node : \A i \in DOMAIN D[n] :
        /\ D[n][i].outcome \in {"pending", "up"}
        /\ D[n][i].end \in Used /\ s[D[n][i].end] # "Disconnected"

\* What is under way is on a listed link that is up, and a probe, or one
\* reflected, is from a node that speaks INP3.
Carrying(w, l, s) ==
    \A e \in End : \A i \in DOMAIN w[e] :
        /\ e \in l /\ Up(s, e)
        /\ w[e][i].frame.kind = "L3RTT" => e[1] \in left.inp3

\* Every neighbour an engine knows is at the other end of a link that both list
\* and that is up, and speaks INP3 if it is said to.
Meeting(E, l, s) ==
    \A n \in Node : \A m \in DOMAIN E[n] :
        /\ E[n][m].capable => m \in left.inp3
        /\ \E e \in l : e[1] = n /\ e[2] = m /\ Other(e) \in l /\ Up(s, e)

Orderly(S) ==
    /\ Tabled(S.table) /\ Listed(S.links, S.sess) /\ Called(S.dials, S.sess)
    /\ Carrying(S.wire, S.links, S.sess) /\ Meeting(S.eng, S.links, S.sess)

\* The probe that is awaited of a neighbour that speaks INP3 is under way.
Hearing(E, w) ==
    \A n \in Node : \A m \in DOMAIN E[n] :
        m \in left.inp3 /\ E[n][m].awaiting => ~NoneOut(w, n, m)

Fine(S) == Orderly(S) /\ Hearing(S.eng, S.wire)

\* What the mode leaves, where no link fails.
Tame ==
    /\ left.fails = 0 /\ left.cuts = 0 /\ left.detaches = 0
    /\ attached = Node \X Port
    /\ \A n \in left.border, x \in left.outside : Plain(n, <<left.port, x>>)

LEMMA UsedBothWays == \A e \in Used : e \in End /\ Other(e) \in Used
<1> SUFFICES ASSUME NEW e \in Used PROVE e \in End /\ Other(e) \in Used
    OBVIOUS
<1>1. e \in End /\ Other(e) \in End /\ {e, Other(e)} = {Other(e), Other(Other(e))}
    BY OtherEnd DEF Used
<1>2. \E mode \in Modes, g \in {e, Other(e)} :
          ~mode.breaks /\ \E v \in Vias(mode.tables[g[1]]) : EndOf(g[1], v) = g
    BY DEF Used
<1> QED BY <1>1, <1>2 DEF Used

LEMMA OneUsed ==
    ASSUME NEW e \in Used, NEW g \in Used, e[1] = g[1], e[2] = g[2]
    PROVE  e = g
<1>1. PICK mode \in Modes :
        /\ ~mode.breaks
        /\ \E h \in {e, Other(e)} : \E v \in Vias(mode.tables[h[1]]) : EndOf(h[1], v) = h
    BY DEF Used
<1>2. PICK h \in {e, Other(e)} : \E v \in Vias(mode.tables[h[1]]) : EndOf(h[1], v) = h
    BY <1>1
<1>3. PICK v \in Vias(mode.tables[h[1]]) : EndOf(h[1], v) = h
    BY <1>2
<1>4. e \in End /\ g \in End /\ Other(e) \in Used /\ Other(g) \in Used
    BY UsedBothWays
<1>5. h[1] \in Node
    BY <1>2, <1>4, UsedBothWays DEF End
<1>6. Plain(h[1], v)
    BY <1>1, <1>3, <1>5, CalmAssumption
<1>7. h[2] = v[2] /\ h[3] = v[1]
    BY <1>3 DEF EndOf
<1>8. CASE h = e
    <2>1. g[3] = e[3]
        BY <1>6, <1>7, <1>8 DEF Plain
    <2> QED BY <1>4, <2>1 DEF End
<1>9. CASE h = Other(e)
    <2>1. Other(g)[1] = h[1] /\ Other(g)[2] = h[2] /\ h[3] = e[3] /\ Other(g)[3] = g[3]
        BY <1>9 DEF Other
    <2>2. g[3] = e[3]
        BY <1>4, <1>6, <1>7, <2>1 DEF Plain
    <2> QED BY <1>4, <2>2 DEF End
<1> QED BY <1>2, <1>8, <1>9

LEMMA PlainUsed ==
    ASSUME NEW n, NEW v, Plain(n, v), EndOf(n, v) \in End
    PROVE  EndOf(n, v) \in Used
    BY DEF Plain

-----------------------------------------------------------------------------
(* Tables *)

LEMMA ViasPlain ==
    ASSUME NEW n, NEW t, Along(n, t)
    PROVE  /\ \A r \in t.routes : Plain(n, r.via)
           /\ \A v \in t.neighbours : Plain(n, v)
    BY DEF Along, Vias

LEMMA WithoutAlong ==
    ASSUME NEW n, NEW t, Along(n, t), NEW gone, NEW away
    PROVE  /\ Along(n, Without(t, gone, away))
           /\ Along(n, [Without(t, gone, away) EXCEPT !.withdrawn = {}])
    BY DEF Along, Vias, Without

LEMMA IngestAlong ==
    ASSUME NEW n, NEW t, Along(n, t), NEW via, Plain(n, via), NEW me, NEW rips, NEW sntt,
           NEW admitted
    PROVE  Along(n, IngestRif(t, me, via, rips, sntt, admitted))
<1> DEFINE Good(r) == "via" \in DOMAIN r /\ Plain(n, r.via)
           heard == {rip \in rips : rip.dest \in Destinations(t) \cup admitted}
           rest  == {r \in t.routes : \A rip \in heard : rip.dest # r.dest}
           new   == UNION {IngestRip(RoutesTo(t, rip.dest), me, via, rip, sntt) : rip \in heard}
           u     == IngestRif(t, me, via, rips, sntt, admitted)
<1>1. \A r \in t.routes : Good(r)
    BY ViasPlain DEF Along
<1>2. ASSUME NEW R, \A r \in R : Good(r), NEW rip
      PROVE  \A r \in IngestRip(R, me, via, rip, sntt) : Good(r)
    <2>1. \A r \in WithdrawInp3(R, via) : Good(r)
        <3> TAKE r \in WithdrawInp3(R, via)
        <3>1. r \in R \/ \E s \in R : r = [s EXCEPT !.time = Horizon, !.hops = 0]
            BY DEF WithdrawInp3
        <3> QED BY <1>2, <3>1
    <2>2. ASSUME NEW d, NEW time, NEW hops, NEW r \in UpsertInp3Route(R, d, via, time, hops)
          PROVE  Good(r)
        <3>1. r \in R \/ \E q : r = [dest |-> d, via |-> via, quality |-> q,
                                     obsolescence |-> ObsoleteInitial,
                                     time |-> time, hops |-> hops]
            BY <2>2 DEF UpsertInp3Route, EnforceRouteCap
        <3> QED BY <1>2, <3>1
    <2> QED BY <1>2, <2>1, <2>2 DEF IngestRip
<1>3. \A rip \in heard : \A r \in IngestRip(RoutesTo(t, rip.dest), me, via, rip, sntt) : Good(r)
    BY <1>1, <1>2 DEF RoutesTo
<1>4. \A r \in rest \cup new : Good(r)
    BY <1>1, <1>3
<1>5. u.routes = rest \cup new /\ u.neighbours = t.neighbours /\ DOMAIN u = DOMAIN t
    BY DEF IngestRif, Along
<1> HIDE DEF rest, new, u
<1>6. Along(n, u)
    BY <1>4, <1>5, ViasPlain DEF Along, Vias
<1> QED BY <1>6 DEF u

\* What a State's table of n's becomes.
LEMMA TableFine ==
    ASSUME NEW S, Sound(S), Fine(S), NEW n \in Node, NEW t, Along(n, t)
    PROVE  LET T == [S EXCEPT !.table[n] = t]
           IN  Sound(T) /\ Fine(T) /\ T = Rec([S.table EXCEPT ![n] = t], S.eng, S.links,
                                              S.sess, S.dials, S.wire)
<1> DEFINE u == [S.table EXCEPT ![n] = t]
           T == [S EXCEPT !.table = u]
<1>1. u = [k \in Node |-> IF k = n THEN t ELSE S.table[k]]
    BY DEF Fine, Orderly, Tabled
<1>2. Tabled(u)
    BY <1>1 DEF Fine, Orderly, Tabled
<1> HIDE DEF u
<1>3. T = Rec(u, S.eng, S.links, S.sess, S.dials, S.wire)
    BY DEF Sound, Rec
<1>4. Sound(T)
    BY TableSound
<1> HIDE DEF T
<1>5. Fine(T)
    BY <1>2, <1>3, RecHas DEF Fine, Orderly
<1> QED BY <1>3, <1>4, <1>5 DEF T, u

-----------------------------------------------------------------------------
(* Links and dials *)

LEMMA LinksFine ==
    ASSUME NEW S, Sound(S), Fine(S), NEW e \in Used, S.sess[e] # "Disconnected"
    PROVE  LET T == [S EXCEPT !.links = @ \cup {e}]
           IN  Sound(T) /\ Fine(T) /\ T = Rec(S.table, S.eng, S.links \cup {e}, S.sess,
                                              S.dials, S.wire)
<1> DEFINE l == S.links \cup {e}
           T == [S EXCEPT !.links = l]
<1>1. l \in SUBSET End /\ l \in SUBSET Used
    BY UsedBothWays DEF Sound, Fine, Orderly, Listed
<1>2. T = Rec(S.table, S.eng, l, S.sess, S.dials, S.wire)
    BY DEF Sound, Rec
<1>3. Sound(T)
    BY <1>1, LinksSound
<1> HIDE DEF T
<1>4. Listed(l, S.sess)
    BY <1>1 DEF Fine, Orderly, Listed
<1>5. Carrying(S.wire, l, S.sess)
    BY DEF Fine, Orderly, Carrying
<1>6. Meeting(S.eng, l, S.sess)
    BY DEF Fine, Orderly, Meeting
<1> HIDE DEF l
<1>7. Fine(T)
    BY <1>2, <1>4, <1>5, <1>6, RecHas DEF Fine, Orderly
<1> QED BY <1>2, <1>3, <1>7 DEF T, l

LEMMA WaitsFine ==
    ASSUME NEW S, Sound(S), Fine(S), NEW e \in Used, S.sess[e] # "Disconnected",
           NEW work, NEW outcome \in {"pending", "up"}
    PROVE  Fine(Waits(S, e, work, outcome))
<1> DEFINE x == [end |-> e, work |-> work, outcome |-> outcome]
           n == e[1]
           q == Append(S.dials[n], x)
           D == [S.dials EXCEPT ![n] = q]
           T == [S EXCEPT !.dials = D]
<1>1. n \in Node
    BY UsedBothWays DEF End
<1>2. D = [m \in Node |-> IF m = n THEN q ELSE S.dials[m]]
    BY DEF Sound, Dialled
<1>3. Queue(S.dials[n])
    BY <1>1 DEF Sound, Dialled
<1>4. Waits(S, e, work, outcome) = T
    BY DEF Waits
<1>5. x.end = e /\ x.outcome = outcome
    OBVIOUS
<1> HIDE DEF x
<1>6. /\ DOMAIN q = DOMAIN S.dials[n] \cup {Len(S.dials[n]) + 1}
      /\ q[Len(S.dials[n]) + 1] = x
      /\ \A i \in DOMAIN S.dials[n] : q[i] = S.dials[n][i]
    BY <1>3, QueueAppend
<1> HIDE DEF q
<1>7. \A i \in DOMAIN q : q[i] = x \/ \E j \in DOMAIN S.dials[n] : q[i] = S.dials[n][j]
    BY <1>6
<1>8. Called(D, S.sess)
    BY <1>1, <1>2, <1>5, <1>7 DEF Fine, Orderly, Called
<1> HIDE DEF D
<1>9. T = Rec(S.table, S.eng, S.links, S.sess, D, S.wire)
    BY DEF Sound, Rec
<1> HIDE DEF T
<1>10. Fine(T)
    BY <1>8, <1>9, RecHas DEF Fine, Orderly
<1> QED BY <1>4, <1>10

\* What was under way is so still, behind what was before it.
Grown(w, v) ==
    \A e \in End : \A i \in DOMAIN w[e] : i \in DOMAIN v[e] /\ v[e][i] = w[e][i]

LEMMA GrownHears ==
    ASSUME NEW E, NEW w, NEW v, Hearing(E, w), Grown(w, v)
    PROVE  Hearing(E, v)
<1>1. ASSUME NEW n, NEW m, NoneOut(v, n, m) PROVE NoneOut(w, n, m)
    BY <1>1 DEF Grown, NoneOut
<1> QED BY <1>1 DEF Hearing

LEMMA SendFine ==
    ASSUME NEW S, Sound(S), Fine(S), NEW e \in S.links, NEW f, f.kind = "DATA"
    PROVE  Fine(Send(S, e, f))
<1> DEFINE x == [frame |-> f, late |-> FALSE]
           w == S.wire
           q == Append(w[e], x)
           v == [w EXCEPT ![e] = q]
           T == [S EXCEPT !.wire = v]
<1>1. e \in End /\ Queue(w[e]) /\ w = [g \in End |-> w[g]]
    BY DEF Sound, Wired
<1>2. v = [g \in End |-> IF g = e THEN q ELSE w[g]]
    BY <1>1
<1>3. x.frame = f
    OBVIOUS
<1>4. Send(S, e, f) = IF BothUp(S, e) THEN T ELSE S
    BY DEF Send
<1> HIDE DEF x
<1>5. /\ DOMAIN q = DOMAIN w[e] \cup {Len(w[e]) + 1} /\ q[Len(w[e]) + 1] = x
      /\ \A i \in DOMAIN w[e] : q[i] = w[e][i]
    BY <1>1, QueueAppend
<1> HIDE DEF q
<1>6. Grown(w, v)
    BY <1>1, <1>2, <1>5 DEF Grown
<1>7. ASSUME BothUp(S, e) PROVE Carrying(v, S.links, S.sess)
    <2> SUFFICES ASSUME NEW g \in End, NEW i \in DOMAIN v[g]
                 PROVE  /\ g \in S.links /\ Up(S.sess, g)
                        /\ v[g][i].frame.kind = "L3RTT" => g[1] \in left.inp3
        BY DEF Carrying
    <2>1. CASE i \in DOMAIN w[g] /\ v[g][i] = w[g][i]
        BY <2>1 DEF Fine, Orderly, Carrying
    <2>2. CASE g = e /\ v[g][i] = x
        BY <1>3, <1>7, <2>2 DEF BothUp, Up
    <2> QED BY <1>2, <1>5, <2>1, <2>2
<1> HIDE DEF v
<1>8. T = Rec(S.table, S.eng, S.links, S.sess, S.dials, v)
    BY DEF Sound, Rec
<1>9. Hearing(S.eng, v)
    BY <1>6, GrownHears DEF Fine
<1> HIDE DEF T
<1>10. ASSUME BothUp(S, e) PROVE Fine(T)
    BY <1>7, <1>8, <1>9, <1>10, RecHas DEF Fine, Orderly
<1> QED BY <1>4, <1>10

\* No probe is under way on a link that an end does not list.
LEMMA UnlistedQuiet ==
    ASSUME NEW S, Sound(S), Fine(S), NEW e \in Used, e \notin S.links,
           NEW g \in {e, Other(e)}, NEW i \in DOMAIN S.wire[g], IsProbe(S.wire[g][i])
    PROVE  FALSE
<1> DEFINE x == S.wire[g][i]
           n == x.frame.origin
           m == Mate(g, n)
<1>1. e \in End /\ Other(e) \in Used /\ Other(Other(e)) = e /\ g \in Used /\ g \in End
    BY UsedBothWays, OtherEnd
<1>2. Awaited(S.eng, g, x)
    <2>1. \A k \in End : \A j \in DOMAIN S.wire[k] :
             IsProbe(S.wire[k][j]) => Awaited(S.eng, k, S.wire[k][j])
        BY ZenonT(60), Zenon DEF Sound, Probing
    <2> QED BY <1>1, <2>1, Zenon
<1>3. n \in {g[1], g[2]} /\ m \in DOMAIN S.eng[n]
    BY <1>2 DEF Awaited
<1>4. n \in Node
    BY <1>1, <1>3 DEF End
<1>5. PICK h \in S.links : h[1] = n /\ h[2] = m /\ Other(h) \in S.links
    BY <1>3, <1>4 DEF Fine, Orderly, Meeting
<1>6. h \in Used /\ Other(h) \in Used
    BY <1>5 DEF Fine, Orderly, Listed
<1>7. \/ h[1] = g[1] /\ h[2] = g[2]
      \/ h[1] = g[2] /\ h[2] = g[1]
    BY <1>1, <1>3, <1>5 DEF Mate, End
<1>8. h = g \/ Other(h) = g
    BY <1>1, <1>6, <1>7, OneUsed DEF Other
<1>9. {h, Other(h)} = {e, Other(e)}
    BY <1>1, <1>6, <1>8, UsedBothWays, OtherEnd
<1> QED BY <1>5, <1>9

LEMMA DialFine ==
    ASSUME NEW S, Sound(S), Fine(S), Tame, NEW e, e \in End => e \in Used,
           e \in S.links => S.sess[e] = "Disconnected", NEW work
    PROVE  Fine(Dial(S, e, work))
<1>1. CASE e \notin End
    BY <1>1 DEF Dial
<1>2. CASE e \in End
    <2> DEFINE w == S.wire
               s == [S.sess EXCEPT ![e] = "Dialling"]
               u == [w EXCEPT ![e] = <<>>]
               v == [u EXCEPT ![Other(e)] = <<>>]
               T == [S EXCEPT !.sess[e] = "Dialling",
                              !.wire[e] = <<>>, !.wire[Other(e)] = <<>>]
    <2>1. e \in Used /\ e \notin S.links /\ Other(e) \in End /\ Other(Other(e)) = e
        BY <1>2, OtherEnd DEF Fine, Orderly, Listed
    <2>2. Dial(S, e, work) = Waits(T, e, work, "pending")
        <3>1. <<e[1], e[3]>> \in attached
            BY <1>2 DEF Tame, End
        <3> QED BY <1>2, <3>1 DEF Dial
    <2>3. T = Rec(S.table, S.eng, S.links, s, S.dials, v)
        BY DialledRec
    <2> HIDE DEF T
    <2>4. /\ s = [g \in End |-> IF g = e THEN "Dialling" ELSE S.sess[g]]
          /\ v = [g \in End |-> IF g = e \/ g = Other(e) THEN <<>> ELSE w[g]]
        BY <1>2, <2>1 DEF Sound, Wired, Fine, Orderly, Listed
    <2>5. Sound(Rec(S.table, S.eng, S.links, s, S.dials, v))
        <3>1. S.links \in SUBSET End
            BY DEF Sound
        <3> HIDE DEF s
        <3> QED BY <1>2, <3>1, ClearedBoth DEF u, v
    <2> HIDE DEF s, v
    <2>6. Sound(T)
        BY <2>3, <2>5
    <2>7. Listed(S.links, s)
        <3>1. s = [g \in End |-> s[g]] /\ \A g \in S.links : s[g] # "Disconnected"
            BY <2>4, UsedBothWays DEF Fine, Orderly, Listed
        <3>2. ASSUME NEW g \in End, s[g] = "Connected" PROVE s[Other(g)] # "Disconnected"
            <4>1. Other(g) \in End /\ S.sess[g] = "Connected"
                BY <2>4, <3>2, OtherEnd
            <4> QED BY <2>4, <4>1 DEF Fine, Orderly, Listed
        <3> QED BY <3>1, <3>2 DEF Fine, Orderly, Listed
    <2>8. Called(S.dials, s)
        BY <2>4, UsedBothWays DEF Fine, Orderly, Called
    <2>9. ASSUME NEW g \in End, g \in S.links, g # Other(e), Up(S.sess, g) PROVE Up(s, g)
        <3>1. g # e /\ Other(g) # e /\ Other(g) \in End
            BY <2>1, <2>9, OtherEnd
        <3> QED BY <2>4, <2>9, <3>1 DEF Up
    <2>10. Carrying(v, S.links, s)
        <3> SUFFICES ASSUME NEW g \in End, NEW i \in DOMAIN v[g]
                     PROVE  /\ g \in S.links /\ Up(s, g)
                            /\ v[g][i].frame.kind = "L3RTT" => g[1] \in left.inp3
            BY DEF Carrying
        <3>1. g # e /\ g # Other(e) /\ v[g] = w[g]
            BY <2>4, QueueEmpty
        <3>2. /\ g \in S.links /\ Up(S.sess, g)
              /\ w[g][i].frame.kind = "L3RTT" => g[1] \in left.inp3
            BY <3>1 DEF Fine, Orderly, Carrying
        <3> QED BY <2>9, <3>1, <3>2
    <2>11. Meeting(S.eng, S.links, s)
        <3> SUFFICES ASSUME NEW n \in Node, NEW m \in DOMAIN S.eng[n]
                     PROVE  /\ S.eng[n][m].capable => m \in left.inp3
                            /\ \E g \in S.links : /\ g[1] = n /\ g[2] = m
                                                  /\ Other(g) \in S.links /\ Up(s, g)
            BY DEF Meeting
        <3>1. /\ S.eng[n][m].capable => m \in left.inp3
              /\ \E g \in S.links : /\ g[1] = n /\ g[2] = m
                                    /\ Other(g) \in S.links /\ Up(S.sess, g)
            BY DEF Fine, Orderly, Meeting
        <3>2. PICK g \in S.links : /\ g[1] = n /\ g[2] = m
                                   /\ Other(g) \in S.links /\ Up(S.sess, g)
            BY <3>1
        <3>3. g \in End /\ g # Other(e)
            BY <2>1, <3>2, OtherEnd DEF Sound
        <3>4. Up(s, g)
            BY <2>9, <3>2, <3>3
        <3> QED BY <3>1, <3>2, <3>4
    <2>12. Hearing(S.eng, v)
        <3>1. ASSUME NEW g \in End, NEW i \in DOMAIN w[g], IsProbe(w[g][i])
              PROVE  i \in DOMAIN v[g] /\ v[g][i] = w[g][i]
            BY <2>1, <2>4, <3>1, UnlistedQuiet
        <3>2. ASSUME NEW n, NEW m, NoneOut(v, n, m) PROVE NoneOut(w, n, m)
            BY <3>1, <3>2 DEF NoneOut
        <3> QED BY <3>2 DEF Fine, Hearing
    <2>13. Fine(T) /\ T.sess[e] = "Dialling"
        <3>1. s[e] = "Dialling"
            BY <1>2, <2>4
        <3> QED BY <2>3, <2>7, <2>8, <2>10, <2>11, <2>12, <3>1, RecHas DEF Fine, Orderly
    <2> QED BY <2>1, <2>2, <2>6, <2>13, WaitsFine
<1> QED BY <1>1, <1>2

-----------------------------------------------------------------------------
(* Datagrams *)

LEMMA sendNetRomPacketFine ==
    ASSUME NEW S, Sound(S), Fine(S), NEW n \in Node, NEW d, NEW flow, NEW opens
    PROVE  Fine(sendNetRomPacket(S, n, Datagram(n, d, MaxTimeToLive, flow, opens)))
<1> DEFINE p      == Datagram(n, d, MaxTimeToLive, flow, opens)
           direct == interlinkForCallsign(S, n, p.dest)
           active == selectActiveRoute(S.table[n], p.dest)
           heard  == {v \in S.table[n].neighbours : v[2] = p.dest}
           first  == {v \in heard : \A w \in heard : PortRank[v[1]] <= PortRank[w[1]]}
           vias   == IF active # {} THEN {r.via : r \in active} ELSE first
           link   == IF direct # {} THEN direct
                     ELSE {EndOf(n, v) : v \in vias} \cap S.links
<1>1. sendNetRomPacket(S, n, p) = IF link = {} THEN S ELSE Send(S, The(link), SentBy(p, n))
    BY DEF sendNetRomPacket
<1>2. SentBy(p, n).kind = "DATA"
    BY FreshOnItsWay
<1>3. link \subseteq S.links
    BY LinkOf
<1> HIDE DEF link, p
<1>4. ASSUME link # {} PROVE Fine(Send(S, The(link), SentBy(p, n)))
    BY <1>2, <1>3, <1>4, ChosenIn, SendFine
<1> QED BY <1>1, <1>4 DEF p

\* A route of n's leads over a link of those used, if over any.
LEMMA RouteUsed ==
    ASSUME NEW S, Fine(S), NEW n \in Node, NEW r \in S.table[n].routes
    PROVE  EndOf(n, r.via) \in End => EndOf(n, r.via) \in Used
    BY ViasPlain, PlainUsed DEF Fine, Orderly, Tabled

LEMMA connectCircuitFine ==
    ASSUME NEW S, Sound(S), Fine(S), Tame, NEW n \in Node, NEW d, NEW attempt
    PROVE  Fine(connectCircuit(S, n, d, attempt))
<1> DEFINE best == selectActiveRoute(S.table[n], d)
           e    == EndOf(n, The(best).via)
           work == [kind |-> "circuit", dest |-> d, attempt |-> attempt]
<1>1. Fine(originateCircuit(S, n, d))
    BY sendNetRomPacketFine DEF originateCircuit
<1>2. \/ connectCircuit(S, n, d, attempt) = S
      \/ connectCircuit(S, n, d, attempt) = originateCircuit(S, n, d)
      \/ /\ connectCircuit(S, n, d, attempt) = Dial(S, e, work)
         /\ best # {} /\ (e \in S.links => S.sess[e] = "Disconnected")
    BY DEF connectCircuit
<1>3. best \subseteq S.table[n].routes
    BY DEF selectActiveRoute, FirstOf, RoutesTo
<1> HIDE DEF best
<1>4. best # {} => (e \in End => e \in Used)
    BY <1>3, ChosenIn, RouteUsed
<1> HIDE DEF e, work
<1> QED BY <1>1, <1>2, <1>4, DialFine

LEMMA forwardDatagramFine ==
    ASSUME NEW S, Sound(S), Fine(S), Tame, NEW n \in Node, NEW from, NEW p, Arrived(n, from, p)
    PROVE  Fine(forwardDatagram(S, n, from, p))
<1> DEFINE onward == decideForward(p, from, n, S.table[n])
           e      == EndOf(n, The(onward).via)
           q      == SentBy(Forwarded(p), n)
           work   == [kind |-> "datagram", packet |-> q]
<1>1. forwardDatagram(S, n, from, p) =
        IF onward = {} THEN S ELSE IF e \in S.links THEN Send(S, e, q) ELSE Dial(S, e, work)
    BY DEF forwardDatagram
<1>2. onward \subseteq S.table[n].routes
    BY DEF decideForward, selectNextHop, selectInp3NextHop, selectWeighted, FirstOf,
           OnwardRoutes, RoutesTo
<1>3. ASSUME onward # {} PROVE q.kind = "DATA"
    <2>1. The(onward) \in onward
        BY <1>3, ChosenIn
    <2> HIDE DEF onward
    <2>2. The(onward).via[2] # from /\ ~(p.ttl <= 1) /\ p.origin # n
        BY <2>1, GoesOn DEF onward
    <2>3. p.ttl \in Nat /\ p.ttl > 1
        BY <2>2 DEF Arrived, Trodden
    <2>4. The(onward).via[2] # from /\ p.ttl \in Nat /\ p.ttl > 1 /\ p.origin # n
        BY <2>2, <2>3
    <2>5. q.kind = "DATA" /\ OnItsWay(n, The(onward).via[2], q)
        BY <2>4, ForwardOnItsWay DEF Arrived
    <2> QED BY <2>5
<1> HIDE DEF onward, q
<1>4. onward # {} => (e \in End => e \in Used)
    BY <1>2, ChosenIn, RouteUsed
<1> HIDE DEF e, work
<1>5. ASSUME onward # {}, e \in S.links PROVE Fine(Send(S, e, q))
    BY <1>3, <1>5, SendFine
<1>6. ASSUME onward # {}, e \notin S.links PROVE Fine(Dial(S, e, work))
    BY <1>4, <1>6, DialFine
<1> QED BY <1>1, <1>5, <1>6

LEMMA onPacketFine ==
    ASSUME NEW S, Sound(S), Fine(S), Tame, NEW n \in Node, NEW from, NEW p, Arrived(n, from, p)
    PROVE  Fine(onPacket(S, n, from, p))
<1>1. Fine(deliverPacket(S, n, p))
    BY sendNetRomPacketFine DEF deliverPacket
<1> QED BY <1>1, forwardDatagramFine DEF onPacket

LEMMA ResolvedFine ==
    ASSUME NEW S, Sound(S), Fine(S), NEW n \in Node, NEW d, Waiting(n, d),
           d.end \in Used, S.sess[d.end] # "Disconnected"
    PROVE  Fine(Resolved(S, n, d))
<1> DEFINE T == [S EXCEPT !.links = @ \cup {d.end}]
<1>1. /\ Sound(T) /\ Fine(T)
      /\ T = Rec(S.table, S.eng, S.links \cup {d.end}, S.sess, S.dials, S.wire)
    BY LinksFine
<1>2. Resolved(S, n, d) = IF d.work.kind = "circuit" THEN originateCircuit(T, n, d.work.dest)
                          ELSE Send(T, d.end, d.work.packet)
    BY DEF Resolved
<1> HIDE DEF T
<1>3. d.end \in T.links
    BY <1>1 DEF Rec
<1>4. Fine(originateCircuit(T, n, d.work.dest))
    BY <1>1, sendNetRomPacketFine DEF originateCircuit
<1>5. ASSUME d.work.kind # "circuit" PROVE Fine(Send(T, d.end, d.work.packet))
    <2>1. d.work.packet.kind = "DATA"
        BY <1>5 DEF Waiting, OnItsWay, Trodden
    <2> QED BY <1>1, <1>3, <2>1, SendFine
<1> QED BY <1>2, <1>4, <1>5

-----------------------------------------------------------------------------
(* Sending to neighbours *)

\* Where every frame of a node's to m is under way once it is sent.
LEMMA sendInp3Reaches ==
    ASSUME NEW S, Sound(S), Orderly(S), NEW n \in Node, NEW frames,
           \A m \in DOMAIN frames : frames[m].kind = "L3RTT" => n \in left.inp3
    PROVE  LET R == sendInp3(S, n, frames)
           IN  /\ R = Rec(S.table, S.eng, S.links, S.sess, S.dials, R.wire)
               /\ Grown(S.wire, R.wire) /\ Carrying(R.wire, S.links, S.sess)
               /\ \A e \in S.links :
                     e[1] = n /\ e[2] \in DOMAIN frames /\ Up(S.sess, e) =>
                        \E i \in DOMAIN R.wire[e] : R.wire[e][i].frame = frames[e[2]]
<1> DEFINE link(m) == interlinkForCallsign(S, n, m)
           all     == {The(link(m)) : m \in {x \in DOMAIN frames : link(x) # {}}}
           x(e)    == [frame |-> frames[e[2]], late |-> FALSE]
           q(e)    == Append(S.wire[e], x(e))
           v       == [e \in End |-> IF e \in all /\ BothUp(S, e) THEN q(e) ELSE S.wire[e]]
           R       == sendInp3(S, n, frames)
<1>1. R = [S EXCEPT !.wire = v]
    BY DEF sendInp3
<1>2. ASSUME NEW e \in all
      PROVE  e \in S.links /\ e[1] = n /\ e[2] \in DOMAIN frames
    <2>1. PICK m \in DOMAIN frames : link(m) # {} /\ e = The(link(m))
        OBVIOUS
    <2>2. e \in link(m)
        BY <2>1, ChosenIn
    <2> QED BY <2>2, LinkOf
<1>3. ASSUME NEW e \in S.links, e[1] = n, e[2] \in DOMAIN frames
      PROVE  e \in all
    <2> DEFINE live   == {g \in S.links : g[1] = n /\ g[2] = e[2]}
               chosen == {g \in live : \E r \in BestRoute(S.table[n], e[2]) :
                                           EndOf(n, r.via) = g}
               first  == {g \in live : \A h \in live : PortRank[g[3]] <= PortRank[h[3]]}
    <2>1. e \in Used /\ e \in End /\ PortRank[e[3]] \in Nat
        BY UsedBothWays, RankAssumption DEF Orderly, Listed, End
    <2>2. \A g \in live : g = e
        BY <1>3, <2>1, OneUsed DEF Orderly, Listed
    <2>3. e \in live
        BY <1>3
    <2>4. link(e[2]) = IF chosen # {} THEN chosen ELSE first
        BY DEF interlinkForCallsign
    <2> HIDE DEF live
    <2>5. first = {e} /\ (chosen # {} => chosen = {e})
        BY <2>1, <2>2, <2>3
    <2>6. link(e[2]) = {e}
        BY <2>4, <2>5
    <2> HIDE DEF link
    <2>7. The(link(e[2])) = e /\ link(e[2]) # {}
        BY <2>6, ChosenIn
    <2> QED BY <1>3, <2>7
<1> HIDE DEF all
<1>4. \A e \in all : x(e).frame = frames[e[2]]
    OBVIOUS
<1> HIDE DEF x
<1>5. ASSUME NEW e \in End
      PROVE  /\ DOMAIN q(e) = DOMAIN S.wire[e] \cup {Len(S.wire[e]) + 1}
             /\ q(e)[Len(S.wire[e]) + 1] = x(e)
             /\ \A i \in DOMAIN S.wire[e] : q(e)[i] = S.wire[e][i]
    BY QueueAppend DEF Sound, Wired
<1>6. \A e \in End : v[e] = IF e \in all /\ BothUp(S, e) THEN q(e) ELSE S.wire[e]
    OBVIOUS
<1> HIDE DEF q
<1>7. Grown(S.wire, v)
    BY <1>5, <1>6 DEF Grown
<1>8. Carrying(v, S.links, S.sess)
    <2> SUFFICES ASSUME NEW e \in End, NEW i \in DOMAIN v[e]
                 PROVE  /\ e \in S.links /\ Up(S.sess, e)
                        /\ v[e][i].frame.kind = "L3RTT" => e[1] \in left.inp3
        BY DEF Carrying
    <2>1. CASE i \in DOMAIN S.wire[e] /\ v[e][i] = S.wire[e][i]
        BY <2>1 DEF Orderly, Carrying
    <2>2. CASE e \in all /\ BothUp(S, e) /\ v[e][i] = x(e)
        BY <1>2, <1>4, <2>2 DEF BothUp, Up
    <2> QED BY <1>5, <1>6, <2>1, <2>2
<1>9. ASSUME NEW e \in S.links, e[1] = n, e[2] \in DOMAIN frames, Up(S.sess, e)
      PROVE  \E i \in DOMAIN v[e] : v[e][i].frame = frames[e[2]]
    <2>1. e \in End /\ e \in all /\ BothUp(S, e)
        BY <1>3, <1>9 DEF Sound, BothUp, Up
    <2>2. v[e] = q(e)
        BY <1>6, <2>1
    <2>3. /\ Len(S.wire[e]) + 1 \in DOMAIN v[e] /\ v[e][Len(S.wire[e]) + 1] = x(e)
          /\ x(e).frame = frames[e[2]]
        BY <1>4, <1>5, <2>1, <2>2
    <2> HIDE DEF v
    <2> QED BY <2>3
<1> HIDE DEF v
<1>10. R = Rec(S.table, S.eng, S.links, S.sess, S.dials, v)
    BY <1>1 DEF Sound, Rec
<1>11. R.wire = v
    BY <1>10 DEF Rec
<1> HIDE DEF R
<1> QED BY <1>7, <1>8, <1>9, <1>10, <1>11 DEF R

-----------------------------------------------------------------------------
(* What arrives *)

\* Hearing, but for what a probe that has just been taken was awaited for.
Expecting(E, w, c, x) ==
    \A n \in Node : \A m \in DOMAIN E[n] :
        m \in left.inp3 /\ E[n][m].awaiting =>
            \/ ~NoneOut(w, n, m)
            \/ IsProbe(x) /\ n = x.frame.origin /\ m = Mate(c, n)

\* A frame that comes over a link: both its ends list it, and it is up.
Over(l, s, c, x) ==
    /\ c \in l /\ Other(c) \in l /\ Up(s, c)
    /\ x.frame.kind = "L3RTT" => c[1] \in left.inp3

LEMMA HeadTakenFine ==
    ASSUME NEW S, Sound(S), Fine(S), NEW c \in End, S.wire[c] # <<>>
    PROVE  LET T == [S EXCEPT !.links = @ \cup {Other(c)}, !.wire[c] = Tail(@)]
               x == Head(S.wire[c])
           IN  /\ T.eng = S.eng /\ Orderly(T) /\ Expecting(T.eng, T.wire, c, x)
               /\ Over(T.links, T.sess, c, x)
<1> DEFINE x == Head(S.wire[c])
           v == [S.wire EXCEPT ![c] = Tail(S.wire[c])]
           l == S.links \cup {Other(c)}
           T == [S EXCEPT !.links = @ \cup {Other(c)}, !.wire[c] = Tail(@)]
<1>1. /\ v[c] = Tail(S.wire[c])
      /\ \A e \in End : e # c => v[e] = S.wire[e]
    BY DEF Sound, Wired
<1>2. \E F : S.wire[c] \in Seq(F)
    BY DEF Sound, Wired, Queue
<1>3. /\ 1 \in DOMAIN S.wire[c] /\ x = S.wire[c][1]
      /\ \A i \in DOMAIN v[c] : i + 1 \in DOMAIN S.wire[c] /\ v[c][i] = S.wire[c][i + 1]
      /\ \A i \in DOMAIN S.wire[c] : i # 1 => i - 1 \in DOMAIN v[c] /\ v[c][i - 1] = S.wire[c][i]
    <2>1. PICK F : S.wire[c] \in Seq(F)
        BY <1>2
    <2> DEFINE w == S.wire[c]
    <2>2. w \in Seq(F) /\ w # <<>> /\ v[c] = Tail(w)
        BY <1>1, <2>1
    <2> HIDE DEF w, v
    <2> QED BY SMTT(60), <2>2 DEF w
<1>4. T = Rec(S.table, S.eng, l, S.sess, S.dials, v)
    <2>1. T = [[S EXCEPT !.links = l] EXCEPT !.wire = v]
        OBVIOUS
    <2> HIDE DEF T, v, l
    <2>2. [S EXCEPT !.links = l] = Rec(S.table, S.eng, l, S.sess, S.dials, S.wire)
        BY DEF Sound, Rec
    <2>3. [Rec(S.table, S.eng, l, S.sess, S.dials, S.wire) EXCEPT !.wire = v]
            = Rec(S.table, S.eng, l, S.sess, S.dials, v)
        BY DEF Rec
    <2> QED BY <2>1, <2>2, <2>3
<1> HIDE DEF v, x, T
<1>5. /\ c \in S.links /\ Up(S.sess, c)
      /\ x.frame.kind = "L3RTT" => c[1] \in left.inp3
    BY <1>3 DEF Fine, Orderly, Carrying
<1>6. Other(c) \in Used /\ Other(Other(c)) = c
    BY <1>5, UsedBothWays, OtherEnd DEF Fine, Orderly, Listed
<1>7. Listed(l, S.sess)
    BY <1>5, <1>6 DEF Fine, Orderly, Listed, Up
<1>8. Meeting(S.eng, l, S.sess)
    BY DEF Fine, Orderly, Meeting
<1>9. Carrying(v, l, S.sess)
    <2> SUFFICES ASSUME NEW e \in End, NEW i \in DOMAIN v[e]
                 PROVE  /\ e \in l /\ Up(S.sess, e)
                        /\ v[e][i].frame.kind = "L3RTT" => e[1] \in left.inp3
        BY DEF Carrying
    <2>1. \E j \in DOMAIN S.wire[e] : v[e][i] = S.wire[e][j]
        <3>1. CASE e = c
            <4>1. i + 1 \in DOMAIN S.wire[e] /\ v[e][i] = S.wire[e][i + 1]
                BY <1>3, <3>1
            <4> QED BY <4>1
        <3>2. CASE e # c
            BY <1>1, <3>2
        <3> QED BY <3>1, <3>2
    <2>2. PICK j \in DOMAIN S.wire[e] : v[e][i] = S.wire[e][j]
        BY <2>1
    <2> QED BY <2>2 DEF Fine, Orderly, Carrying
<1>10. Over(l, S.sess, c, x)
    BY <1>5 DEF Over
<1>11. Expecting(S.eng, v, c, x)
    <2> SUFFICES ASSUME NEW n \in Node, NEW m \in DOMAIN S.eng[n], m \in left.inp3,
                        S.eng[n][m].awaiting, NoneOut(v, n, m)
                 PROVE  IsProbe(x) /\ n = x.frame.origin /\ m = Mate(c, n)
        BY DEF Expecting
    <2>0. ~NoneOut(S.wire, n, m)
        BY DEF Fine, Hearing
    <2>1. PICK e \in End : \E i \in DOMAIN S.wire[e] :
            IsProbe(S.wire[e][i]) /\ S.wire[e][i].frame.origin = n /\ Pair(e) = {n, m}
        BY <2>0 DEF NoneOut
    <2>2. PICK i \in DOMAIN S.wire[e] :
            IsProbe(S.wire[e][i]) /\ S.wire[e][i].frame.origin = n /\ Pair(e) = {n, m}
        BY <2>1
    <2>3. e = c /\ i = 1
        <3>1. CASE e # c
            BY <1>1, <2>2, <3>1 DEF NoneOut
        <3>2. CASE e = c /\ i # 1
            BY <1>3, <2>2, <3>2 DEF NoneOut
        <3> QED BY <3>1, <3>2
    <2>4. IsProbe(x) /\ x.frame.origin = n /\ Pair(c) = {n, m}
        BY <1>3, <2>2, <2>3
    <2>5. m = Mate(c, n)
        BY <2>4 DEF Pair, Mate, End
    <2> QED BY <2>4, <2>5
<1> HIDE DEF l
<1>12. T.eng = S.eng /\ T.links = l /\ T.sess = S.sess /\ T.wire = v
    BY <1>4, RecHas
<1>13. Orderly(T)
    BY <1>4, <1>7, <1>8, <1>9, RecHas DEF Fine, Orderly
<1> QED BY <1>10, <1>11, <1>12, <1>13 DEF T, x

LEMMA UsedPlain ==
    ASSUME NEW e \in Used
    PROVE  Plain(e[1], <<e[3], e[2]>>)
<1>1. e = <<e[1], e[2], e[3]>>
    <2>1. e \in Node \X Node \X Port
        BY UsedBothWays DEF End
    <2> QED BY <2>1
<1>2. EndOf(e[1], <<e[3], e[2]>>) = e
    BY <1>1 DEF EndOf
<1> QED BY <1>2, OneUsed DEF Plain

\* The port selected for a neighbour is that of the one link to it.
LEMMA ChosenPlain ==
    ASSUME NEW t, NEW e \in Used, Along(e[1], t)
    PROVE  ChosenPort(t, e[2]) \subseteq {e[3]}
<1>1. ASSUME NEW v, Plain(e[1], v), v[2] = e[2] PROVE v[1] = e[3]
    BY <1>1 DEF Plain
<1> DEFINE direct == {r.via[1] : r \in {x \in BestRoute(t, e[2]) : x.via[2] = e[2]}}
           heard  == {v[1] : v \in {w \in t.neighbours : w[2] = e[2]}}
<1>2. direct \subseteq {e[3]}
    BY <1>1, ViasPlain DEF BestRoute, RoutesTo
<1>3. heard \subseteq {e[3]}
    BY <1>1, ViasPlain
<1>4. \/ ChosenPort(t, e[2]) \subseteq direct
      \/ ChosenPort(t, e[2]) \subseteq heard
    BY DEF ChosenPort
<1> QED BY <1>2, <1>3, <1>4

\* A State whose engine of n's changes.
LEMMA EngineOrderly ==
    ASSUME NEW S, Sound(S), Orderly(S), NEW n \in Node, NEW F,
           \A m \in DOMAIN F :
              /\ F[m].capable => m \in left.inp3
              /\ \E e \in S.links : e[1] = n /\ e[2] = m /\ Other(e) \in S.links /\ Up(S.sess, e)
    PROVE  LET T == [S EXCEPT !.eng[n] = F]
           IN  Orderly(T) /\ T = Rec(S.table, T.eng, S.links, S.sess, S.dials, S.wire)
<1> DEFINE G == [S.eng EXCEPT ![n] = F]
           T == [S EXCEPT !.eng = G]
<1>1. G = [k \in Node |-> IF k = n THEN F ELSE S.eng[k]]
    BY DEF Sound, Engines
<1>2. Meeting(G, S.links, S.sess)
    BY <1>1 DEF Orderly, Meeting
<1> HIDE DEF G
<1>3. T = Rec(S.table, G, S.links, S.sess, S.dials, S.wire)
    BY DEF Sound, Rec
<1> HIDE DEF T
<1>4. Orderly(T) /\ T.eng = G
    BY <1>2, <1>3, RecHas DEF Orderly
<1> QED BY <1>3, <1>4 DEF T, G

LEMMA onL3RttFine ==
    ASSUME NEW S, Sound(S), Orderly(S), Timely, NEW c \in End, c[2] \in left.inp3, NEW x,
           x.frame.kind = "L3RTT", c[1] \in DOMAIN S.eng[c[2]],
           Over(S.links, S.sess, c, x), Expecting(S.eng, S.wire, c, x),
           Awaited(S.eng, c, x), NoneOut(S.wire, x.frame.origin, Mate(c, x.frame.origin))
    PROVE  Fine(onL3Rtt(S, c[2], c[1], x.frame))
<1> DEFINE n == c[2]
           m == c[1]
           g == Other(c)
           f == x.frame
           E == S.eng[n]
           F == handleL3Rtt(E, n, m, f)
           T == [S EXCEPT !.eng[n] = F]
           frames == [k \in {m} |-> f]
<1>1. /\ n \in Node /\ m \in Node /\ n # m /\ m \in left.inp3 /\ IsProbe(x)
      /\ g[1] = n /\ g[2] = m /\ Other(g) = c /\ g \in S.links /\ c \in S.links
      /\ Up(S.sess, g)
    BY OtherEnd DEF End, Other, Over, Up, IsProbe
<1>2. onL3Rtt(S, n, m, f) = IF Answers(E, n, m, f) THEN T ELSE sendInp3(T, n, frames)
    BY DEF onL3Rtt
<1>3. Engine(n, ticked, E) /\ n \in left.inp3 /\ m \in DOMAIN E
    BY <1>1 DEF Sound, Engines
<1>4. /\ Engine(n, ticked, F) /\ DOMAIN F = DOMAIN E
      /\ \A k \in DOMAIN E \ {m} : F[k] = E[k]
      /\ Answers(E, n, m, f) <=> Ends(E, n, m, f)
      /\ Answers(E, n, m, f) => ~F[m].awaiting
      /\ ~Answers(E, n, m, f) => Same(E[m], F[m])
    BY <1>1, <1>3, handleL3RttEngine
<1>5. ASSUME NEW k \in DOMAIN F
      PROVE  /\ F[k].capable => k \in left.inp3
             /\ \E e \in S.links : e[1] = n /\ e[2] = k /\ Other(e) \in S.links /\ Up(S.sess, e)
    <2>1. CASE k = m
        BY <1>1, <2>1
    <2>2. CASE k # m
        <3>1. k \in DOMAIN E /\ F[k] = E[k]
            BY <1>4, <2>2
        <3> QED BY <1>1, <3>1 DEF Orderly, Meeting
    <2> QED BY <2>1, <2>2
<1> HIDE DEF F
<1>6. Orderly(T) /\ T = Rec(S.table, T.eng, S.links, S.sess, S.dials, S.wire)
    BY ONLY Sound(S), Orderly(S), <1>1, <1>5, EngineOrderly
<1>7. T.eng = [k \in Node |-> IF k = n THEN F ELSE S.eng[k]]
    BY <1>1 DEF Sound, Engines, Rec
<1>8. Sound(T)
    <2>1. Awaits(S.wire, n, E, F)
        <3>1. CASE Answers(E, n, m, f)
            <4>1. f.origin = n /\ Mate(c, n) = m
                BY <1>1, <1>4, <3>1 DEF Mate, Ends
            <4>2. NoneOut(S.wire, n, m)
                BY <4>1
            <4> QED BY <1>4, <4>2 DEF Awaits, Same
        <3>2. CASE ~Answers(E, n, m, f)
            BY <1>3, <1>4, <3>2 DEF Awaits, Same
        <3> QED BY <3>1, <3>2
    <2> QED BY ONLY Sound(S), <1>1, <1>4, <2>1, EngineSound
<1> HIDE DEF T
<1>9. T.wire = S.wire /\ T.links = S.links /\ T.sess = S.sess /\ T.table = S.table
      /\ T.dials = S.dials
    BY <1>6, RecHas
<1>10. ASSUME NEW k \in Node, NEW j \in DOMAIN T.eng[k], T.eng[k][j].awaiting
       PROVE  /\ j \in DOMAIN S.eng[k] /\ S.eng[k][j].awaiting
              /\ k = n /\ j = m => ~Answers(E, n, m, f)
    BY <1>4, <1>7, <1>10 DEF Same
<1>11. CASE f.origin = n
    <2>1. Mate(c, n) = m /\ Answers(E, n, m, f)
        BY <1>1, <1>4, <1>11 DEF Mate, Awaited, Ends
    <2>2. Hearing(T.eng, T.wire)
        BY <1>9, <1>10, <1>11, <2>1 DEF Hearing, Expecting
    <2> QED BY <1>2, <1>6, <2>1, <2>2 DEF Fine
<1>12. CASE f.origin # n
    <2> DEFINE R == sendInp3(T, n, frames)
    <2>1. f.origin = m /\ Mate(c, m) = n /\ ~Answers(E, n, m, f)
        BY <1>1, <1>4, <1>12 DEF Mate, Awaited, Ends
    <2>2. DOMAIN frames = {m} /\ frames[m] = f
        OBVIOUS
    <2> HIDE DEF frames
    <2>3. /\ R = Rec(T.table, T.eng, T.links, T.sess, T.dials, R.wire)
          /\ Grown(T.wire, R.wire) /\ Carrying(R.wire, T.links, T.sess)
          /\ \A e \in T.links :
                e[1] = n /\ e[2] \in DOMAIN frames /\ Up(T.sess, e) =>
                   \E i \in DOMAIN R.wire[e] : R.wire[e][i].frame = frames[e[2]]
        BY <1>1, <1>3, <1>6, <1>8, sendInp3Reaches
    <2> HIDE DEF R
    <2>4. PICK i \in DOMAIN R.wire[g] : R.wire[g][i].frame = f
        BY <1>1, <1>9, <2>2, <2>3
    <2>5. ~NoneOut(R.wire, m, n)
        BY <1>1, <2>1, <2>4, OtherEnd DEF NoneOut, IsProbe, Pair
    <2>6. \A k, j : NoneOut(R.wire, k, j) => NoneOut(S.wire, k, j)
        BY <1>9, <2>3 DEF Grown, NoneOut
    <2>7. Hearing(T.eng, R.wire)
        <3> SUFFICES ASSUME NEW k \in Node, NEW j \in DOMAIN T.eng[k], j \in left.inp3,
                            T.eng[k][j].awaiting
                     PROVE  ~NoneOut(R.wire, k, j)
            BY DEF Hearing
        <3>1. j \in DOMAIN S.eng[k] /\ S.eng[k][j].awaiting
            BY <1>10
        <3>2. ~NoneOut(S.wire, k, j) \/ (k = m /\ j = n)
            BY <2>1, <3>1 DEF Expecting
        <3> QED BY <2>5, <2>6, <3>2
    <2>8. Fine(R)
        BY <1>6, <2>3, <2>7, RecHas DEF Fine, Orderly
    <2> QED BY SMTT(60), <1>2, <2>1, <2>8 DEF R
<1> QED BY <1>11, <1>12

LEMMA dispatchInp3Fine ==
    ASSUME NEW S, Sound(S), Orderly(S), Timely, Tame, NEW c \in End, NEW x, Carried(c, x),
           Over(S.links, S.sess, c, x), Expecting(S.eng, S.wire, c, x),
           IsProbe(x) => /\ Awaited(S.eng, c, x)
                         /\ NoneOut(S.wire, x.frame.origin, Mate(c, x.frame.origin))
    PROVE  Fine(dispatchInp3(S, c[2], c[1], c[3], x.frame))
<1> DEFINE n == c[2]
           m == c[1]
           f == x.frame
           F == observeNeighbour(S.eng[n], m)
           T == [S EXCEPT !.eng[n] = F]
           rif == ingestInp3Rif(T, n, m, c[3], ToSet(parseInp3Rif(f.octets)))
           R == dispatchInp3(S, n, m, c[3], f)
<1>1. /\ n \in Node /\ m \in Node /\ n # m
      /\ Other(c) \in Used /\ Other(c) \in S.links /\ Up(S.sess, Other(c))
      /\ Other(c)[1] = n /\ Other(c)[2] = m /\ Other(c)[3] = c[3]
      /\ c \in S.links /\ Other(Other(c)) = c
    BY OtherEnd DEF End, Other, Over, Up, Orderly, Listed
<1>2. ChosenPort(S.table[n], m) \subseteq {c[3]}
    BY <1>1, ChosenPlain DEF Orderly, Tabled
<1>3. ASSUME f.kind = "DATA" PROVE Arrived(n, m, f)
    BY <1>3, ArrivesOnItsWay DEF Carried
<1>4. /\ f.kind \in {"RIF", "L3RTT", "DATA"}
      /\ \/ /\ n \in left.inp3
            /\ \/ f.kind = "RIF" /\ R = rif
               \/ f.kind = "L3RTT" /\ R = onL3Rtt(T, n, m, f)
               \/ f.kind = "DATA" /\ R = onPacket(T, n, m, f)
         \/ n \notin left.inp3 /\ f.kind = "DATA" /\ R = onPacket(S, n, m, f)
         \/ n \notin left.inp3 /\ R = S
    <2>1. f.kind \in {"RIF", "L3RTT", "DATA"}
        BY DEF Carried
    <2> HIDE DEF n, m, f, F
    <2> QED BY <1>2, <2>1 DEF dispatchInp3, F
<1> HIDE DEF R
<1>5. CASE n \notin left.inp3
    <2>1. DOMAIN S.eng[n] = {}
        BY <1>1, <1>5 DEF Sound, Engines, Engine
    <2>2. Fine(S)
        <3>1. ASSUME NEW k \in Node, NEW j \in DOMAIN S.eng[k], j \in left.inp3,
                     IsProbe(x), k = x.frame.origin, j = Mate(c, k)
              PROVE  FALSE
            BY <1>5, <2>1, <3>1 DEF Awaited, Mate
        <3>2. Hearing(S.eng, S.wire)
            BY <3>1 DEF Hearing, Expecting
        <3> QED BY <3>2 DEF Fine
    <2>3. f.kind = "DATA" => Fine(onPacket(S, n, m, f))
        BY <1>1, <1>3, <2>2, onPacketFine
    <2> QED BY <1>4, <1>5, <2>2, <2>3 DEF R
<1>6. CASE n \in left.inp3
    <2>1. /\ Engine(n, ticked, F) /\ m \in DOMAIN F /\ DOMAIN S.eng[n] \subseteq DOMAIN F
          /\ \A k \in DOMAIN S.eng[n] : F[k] = S.eng[n][k]
        <3>1. Engine(n, ticked, S.eng[n])
            BY <1>1 DEF Sound, Engines
        <3> QED BY <1>6, <3>1, Observes
    <2>2. ASSUME NEW k \in DOMAIN F, k \notin DOMAIN S.eng[n]
          PROVE  k = m /\ ~F[k].capable /\ ~F[k].awaiting
        <3>1. /\ m \notin DOMAIN S.eng[n] /\ DOMAIN F = DOMAIN S.eng[n] \cup {m}
              /\ F[m] = NewNeighbour
            <4> DEFINE E == S.eng[n]
            <4> HIDE DEF E
            <4>1. F = IF m \in DOMAIN E THEN E ELSE Put(E, m, NewNeighbour)
                BY DEF observeNeighbour, E
            <4> HIDE DEF F
            <4>2. m \notin DOMAIN E
                BY <2>2, <4>1 DEF E
            <4>3. DOMAIN F = DOMAIN E \cup {m} /\ F[m] = NewNeighbour
                BY <4>1, <4>2 DEF Put
            <4> QED BY <4>2, <4>3 DEF E
        <3>2. ~NewNeighbour.capable /\ ~NewNeighbour.awaiting
            BY DEF NewNeighbour
        <3> QED BY <2>2, <3>1, <3>2
    <2>3. ASSUME NEW k \in DOMAIN F
          PROVE  /\ F[k].capable => k \in left.inp3
                 /\ \E e \in S.links : e[1] = n /\ e[2] = k /\ Other(e) \in S.links /\ Up(S.sess, e)
        <3>1. CASE k \in DOMAIN S.eng[n]
            BY <1>1, <2>1, <3>1 DEF Orderly, Meeting
        <3>2. CASE k \notin DOMAIN S.eng[n]
            BY <1>1, <2>2, <3>2
        <3> QED BY <3>1, <3>2
    <2> HIDE DEF F
    <2>4. Orderly(T) /\ T = Rec(S.table, T.eng, S.links, S.sess, S.dials, S.wire)
        BY ONLY SMTT(60), Sound(S), Orderly(S), <1>1, <2>3, EngineOrderly
    <2>5. /\ Sound(T) /\ T.eng[n] = F
          /\ \A k \in Node : k # n => T.eng[k] = S.eng[k]
        <3>1. Awaits(S.wire, n, S.eng[n], F)
            BY <2>1 DEF Awaits, Same
        <3> QED BY ONLY Sound(S), <1>1, <2>1, <3>1, EngineSound
    <2> HIDE DEF T
    <2>6. T.wire = S.wire /\ T.links = S.links /\ T.sess = S.sess /\ T.table = S.table
        BY <2>4, RecHas
    <2>7. Expecting(T.eng, T.wire, c, x)
        <3> SUFFICES ASSUME NEW k \in Node, NEW j \in DOMAIN T.eng[k], j \in left.inp3,
                            T.eng[k][j].awaiting
                     PROVE  j \in DOMAIN S.eng[k] /\ S.eng[k][j].awaiting
            BY <2>6 DEF Expecting
        <3> QED BY <2>1, <2>2, <2>5
    <2>8. ASSUME f.kind # "L3RTT" PROVE Fine(T)
        BY <2>4, <2>7, <2>8 DEF Fine, Expecting, Hearing, IsProbe
    <2>9. CASE f.kind = "DATA"
        <3>1. Fine(onPacket(T, n, m, f))
            BY <1>1, <1>3, <2>5, <2>8, <2>9, onPacketFine
        <3> QED BY <1>4, <1>6, <2>9, <3>1 DEF R
    <2>10. CASE f.kind = "RIF"
        <3>1. Fine(T) /\ Sound(T)
            BY <2>5, <2>8, <2>10
        <3>2. Along(n, T.table[n]) /\ Plain(n, <<c[3], m>>)
            BY <1>1, <2>4, UsedPlain DEF Orderly, Tabled
        <3>3. \E sntt, rips, admitted :
                rif = [T EXCEPT !.table[n] = IngestRif(T.table[n], n, <<c[3], m>>, rips, sntt,
                                                       admitted)]
            BY DEF ingestInp3Rif
        <3> HIDE DEF rif
        <3>4. PICK sntt, rips, admitted :
                rif = [T EXCEPT !.table[n] = IngestRif(T.table[n], n, <<c[3], m>>, rips, sntt,
                                                       admitted)]
            BY <3>3
        <3> DEFINE t == IngestRif(T.table[n], n, <<c[3], m>>, rips, sntt, admitted)
        <3>5. Along(n, t)
            BY <3>2, IngestAlong
        <3> HIDE DEF t
        <3>6. Fine([T EXCEPT !.table[n] = t])
            BY <1>1, <3>1, <3>5, TableFine
        <3>7. Fine(rif)
            BY <3>4, <3>6 DEF t
        <3> QED BY <1>4, <1>6, <2>10, <3>7 DEF R
    <2>11. CASE f.kind = "L3RTT"
        <3>1. IsProbe(x)
            BY <2>11 DEF IsProbe
        <3>2. Awaited(T.eng, c, x)
            <4> DEFINE o == x.frame.origin
                       k == Mate(c, o)
            <4>1. /\ o \in {n, m} /\ k \in DOMAIN S.eng[o] /\ S.eng[o][k].awaiting
                  /\ S.eng[o][k].sent <= Under(c, x)
                BY <3>1 DEF Awaited
            <4>2. k \in DOMAIN T.eng[o] /\ T.eng[o][k] = S.eng[o][k]
                <5>1. CASE o = n
                    BY <2>1, <2>5, <4>1, <5>1
                <5>2. CASE o # n
                    BY <1>1, <2>5, <4>1, <5>2
                <5> QED BY <5>1, <5>2
            <4> QED BY <4>1, <4>2 DEF Awaited
        <3>3. NoneOut(T.wire, x.frame.origin, Mate(c, x.frame.origin)) /\ m \in DOMAIN T.eng[n]
              /\ Over(T.links, T.sess, c, x)
            BY <2>1, <2>5, <2>6, <3>1
        <3>4. Fine(onL3Rtt(T, n, m, f))
            BY <1>6, <2>4, <2>5, <2>7, <2>11, <3>2, <3>3, onL3RttFine
        <3> QED BY <1>4, <1>6, <2>11, <3>4 DEF R
    <2> QED BY <1>4, <2>9, <2>10, <2>11
<1> QED BY <1>5, <1>6

LEMMA DeliverFine ==
    ASSUME Inv, Timely, Tame, Fine(State), NEW c \in End, Deliver(c)
    PROVE  \E T : Becomes(T) /\ Fine(T)
<1> DEFINE T == [State EXCEPT !.links = @ \cup {Other(c)}, !.wire[c] = Tail(@)]
           x == Head(State.wire[c])
<1>1. Sound(State) /\ State.wire = wire /\ State.wire[c] # <<>>
    BY StateHas DEF Inv, Deliver
<1>2. Becomes(dispatchInp3(T, c[2], c[1], c[3], x.frame))
    BY <1>1, SMTT(30) DEF Deliver
<1>3. /\ Sound(T) /\ Carried(c, x)
      /\ IsProbe(x) => /\ Awaited(T.eng, c, x)
                       /\ NoneOut(T.wire, x.frame.origin, Mate(c, x.frame.origin))
    BY <1>1, HeadTaken
<1>4. Orderly(T) /\ Expecting(T.eng, T.wire, c, x) /\ Over(T.links, T.sess, c, x)
    BY <1>1, HeadTakenFine
<1> HIDE DEF T, x
<1>5. Fine(dispatchInp3(T, c[2], c[1], c[3], x.frame))
    BY <1>3, <1>4, dispatchInp3Fine
<1> QED BY <1>2, <1>5

-----------------------------------------------------------------------------
(* The steps *)

\* What a mode is stays, and so does what it leaves where no link fails.
LEMMA TameKept ==
    ASSUME {"inp3", "border", "outside", "port", "breaks", "opens", "enters", "changes",
            "fails", "cuts", "detaches"} \subseteq DOMAIN left,
           \/ left' = left
           \/ left' = [left EXCEPT !.opens = @ - 1]
           \/ left' = [left EXCEPT !.enters = @ - 1]
           \/ left' = [left EXCEPT !.changes = @ - 1]
    PROVE  left'.inp3 = left.inp3 /\ (Tame /\ attached' = attached => Tame')
<1>1. /\ left'.inp3 = left.inp3 /\ left'.fails = left.fails /\ left'.cuts = left.cuts
      /\ left'.detaches = left.detaches /\ left'.border = left.border
      /\ left'.outside = left.outside /\ left'.port = left.port
    OBVIOUS
<1> QED BY <1>1 DEF Tame

LEMMA BecomesFine ==
    ASSUME NEW T, Fine(T), Becomes(T), left'.inp3 = left.inp3
    PROVE  Fine(State)'
<1>1. /\ table' = T.table /\ eng' = T.eng /\ links' = T.links
      /\ sess' = T.sess /\ dials' = T.dials /\ wire' = T.wire
    BY DEF Becomes
<1>2. Tabled(table)' /\ Listed(links, sess)' /\ Called(dials, sess)'
    BY <1>1 DEF Fine, Orderly
<1>3. Carrying(wire, links, sess)' /\ Meeting(eng, links, sess)' /\ Hearing(eng, wire)'
    BY <1>1 DEF Fine, Orderly, Carrying, Meeting, Hearing
<1> QED BY <1>2, <1>3 DEF State, Fine, Orderly

LEMMA SettleFine ==
    ASSUME NEW S, Sound(S), Fine(S), NEW e \in End
    PROVE  Fine(Settle(S, e, "up"))
<1> DEFINE n == e[1]
           s == S.dials[n]
           q == [i \in DOMAIN s |-> IF s[i].end = e /\ s[i].outcome = "pending"
                                    THEN [s[i] EXCEPT !.outcome = "up"] ELSE s[i]]
           D == [S.dials EXCEPT ![n] = q]
           T == [S EXCEPT !.dials = D]
<1>1. n \in Node
    BY DEF End
<1>2. Settle(S, e, "up") = T
    BY SMTT(30) DEF Settle
<1>3. D = [m \in Node |-> IF m = n THEN q ELSE S.dials[m]] /\ DOMAIN q = DOMAIN s
    BY DEF Sound, Dialled
<1>4. ASSUME NEW i \in DOMAIN s
      PROVE  q[i].end = s[i].end /\ q[i].outcome \in {s[i].outcome, "up"}
    <2>1. Waiting(n, s[i])
        BY <1>1 DEF Sound, Dialled
    <2>2. s[i] = [end |-> s[i].end, work |-> s[i].work, outcome |-> s[i].outcome]
        BY <2>1 DEF Waiting
    <2> DEFINE d == s[i]
    <2>3. q[i] = d \/ q[i] = [d EXCEPT !.outcome = "up"]
        OBVIOUS
    <2> HIDE DEF d, q
    <2>4. [d EXCEPT !.outcome = "up"].end = d.end /\ [d EXCEPT !.outcome = "up"].outcome = "up"
        BY <2>2 DEF d
    <2> QED BY <2>3, <2>4 DEF d
<1> HIDE DEF q
<1>5. Called(D, S.sess)
    <2> SUFFICES ASSUME NEW k \in Node, NEW i \in DOMAIN D[k]
                 PROVE  /\ D[k][i].outcome \in {"pending", "up"}
                        /\ D[k][i].end \in Used /\ S.sess[D[k][i].end] # "Disconnected"
        BY DEF Called
    <2>1. /\ i \in DOMAIN S.dials[k] /\ D[k][i].end = S.dials[k][i].end
          /\ D[k][i].outcome \in {S.dials[k][i].outcome, "up"}
        BY <1>3, <1>4
    <2> QED BY <2>1 DEF Fine, Orderly, Called
<1> HIDE DEF D
<1>6. T = Rec(S.table, S.eng, S.links, S.sess, D, S.wire)
    BY DEF Sound, Rec
<1> HIDE DEF T
<1>7. Fine(T)
    BY <1>5, <1>6, RecHas DEF Fine, Orderly
<1> QED BY <1>2, <1>7

LEMMA EstablishedFine ==
    ASSUME Inv, Fine(State), NEW e \in End, Established(e)
    PROVE  \E T : Becomes(T) /\ Fine(T)
<1> DEFINE s == [[sess EXCEPT ![e] = "Connected"] EXCEPT ![Other(e)] = "Connected"]
           T == [State EXCEPT !.sess[e] = "Connected", !.sess[Other(e)] = "Connected"]
<1>1. Sound(T) /\ T = Rec(table, eng, links, s, dials, wire)
    BY EstablishedRec
<1>2. Becomes(Settle(Settle(T, e, "up"), Other(e), "up"))
    BY DEF Established
<1> HIDE DEF T
<1>3. Other(e) \in End /\ Other(Other(e)) = e
    BY OtherEnd
<1>4. s = [g \in End |-> IF g = e \/ g = Other(e) THEN "Connected" ELSE sess[g]]
    BY <1>3, StateHas DEF Fine, Orderly, Listed
<1> HIDE DEF s
<1>5. \A g \in End : /\ Other(g) \in End
                     /\ sess[g] = "Connected" => s[g] = "Connected"
                     /\ sess[g] # "Disconnected" => s[g] # "Disconnected"
    BY <1>4, OtherEnd
<1>6. \A g \in End : Up(sess, g) => Up(s, g)
    BY <1>5 DEF Up
<1>7. Listed(links, s)
    <2>1. \A g \in links : s[g] # "Disconnected"
        BY <1>5, StateHas, UsedBothWays DEF Fine, Orderly, Listed
    <2>2. ASSUME NEW g \in End, s[g] = "Connected" PROVE s[Other(g)] # "Disconnected"
        BY <1>3, <1>4, <1>5, <2>2, StateHas DEF Fine, Orderly, Listed
    <2> QED BY <1>4, <2>1, <2>2, StateHas DEF Fine, Orderly, Listed
<1>8. Called(dials, s)
    BY <1>5, StateHas, UsedBothWays DEF Fine, Orderly, Called
<1>9. Carrying(wire, links, s)
    BY <1>6, StateHas DEF Fine, Orderly, Carrying
<1>10. Meeting(eng, links, s)
    BY <1>6, StateHas, UsedBothWays DEF Fine, Orderly, Meeting, Listed
<1>11. Fine(T)
    BY <1>1, <1>7, <1>8, <1>9, <1>10, StateHas, RecHas DEF Fine, Orderly
<1>12. Sound(Settle(T, e, "up")) /\ Fine(Settle(T, e, "up"))
    BY <1>1, <1>11, SettleSound, SettleFine
<1>13. Fine(Settle(Settle(T, e, "up"), Other(e), "up"))
    BY <1>3, <1>12, SettleFine
<1> QED BY <1>2, <1>13

LEMMA ContinueFine ==
    ASSUME Inv, Fine(State), NEW n \in Node, Continue(n)
    PROVE  \E T : Becomes(T) /\ Fine(T)
<1>1. PICK i \in Settled(n) :
        LET S == [State EXCEPT !.dials[n] = RemoveAt(@, i)]
        IN  Becomes(IF dials[n][i].outcome = "up" THEN Resolved(S, n, dials[n][i])
                    ELSE Rejected(S, n, dials[n][i]))
    BY DEF Continue
<1> DEFINE S == [State EXCEPT !.dials[n] = RemoveAt(@, i)]
           d == dials[n][i]
<1>2. i \in DOMAIN dials[n] /\ d.outcome # "pending"
    BY DEF Settled
<1>3. d.outcome = "up" /\ d.end \in Used /\ sess[d.end] # "Disconnected"
    BY <1>2, StateHas DEF Fine, Orderly, Called
<1>4. /\ Sound(S) /\ Waiting(n, State.dials[n][i])
      /\ S = Rec(State.table, State.eng, State.links, State.sess, S.dials, State.wire)
      /\ \A k \in Node : \A a \in DOMAIN S.dials[k] :
            \E b \in DOMAIN State.dials[k] : S.dials[k][a] = State.dials[k][b]
    <2>1. Sound(State) /\ n \in Node /\ i \in DOMAIN State.dials[n]
        BY <1>2, StateHas DEF Inv
    <2> QED BY ONLY <2>1, DialTaken
<1>5. Becomes(Resolved(S, n, d))
    BY <1>1, <1>3
<1> HIDE DEF S
<1>6. Called(S.dials, State.sess)
    BY <1>4 DEF Fine, Orderly, Called
<1>7. Fine(S) /\ S.sess = sess
    BY <1>4, <1>6, StateHas, RecHas DEF Fine, Orderly
<1>8. Waiting(n, d)
    BY <1>4, StateHas
<1> HIDE DEF d
<1>9. Fine(Resolved(S, n, d))
    BY <1>3, <1>4, <1>7, <1>8, ResolvedFine
<1> QED BY <1>5, <1>9

LEMMA EnterFine ==
    ASSUME Inv, Tame, Fine(State), NEW n \in Node, NEW x \in Node, Open(n, x) \/ Enter(n, x)
    PROVE  \E T : Becomes(T) /\ Fine(T)
<1>1. CASE Open(n, x)
    <2>1. Becomes(connectCircuit(State, n, x, 1))
        BY <1>1 DEF Open
    <2> QED BY <2>1, connectCircuitFine DEF Inv
<1>2. CASE Enter(n, x)
    <2>1. PICK ttl \in 1 .. MaxTimeToLive + 2, flow \in Flows, d \in left.dests :
            Becomes(onPacket(State, n, x, SentBy(Datagram(x, d, ttl, flow, FALSE), x)))
        BY <1>2 DEF Enter
    <2> DEFINE p == SentBy(Datagram(x, d, ttl, flow, FALSE), x)
    <2>2. Arrived(n, x, p)
        BY EnteredArrives
    <2> HIDE DEF p
    <2>3. Fine(onPacket(State, n, x, p))
        BY <2>2, onPacketFine DEF Inv
    <2> QED BY <2>1, <2>3 DEF p
<1> QED BY <1>1, <1>2

LEMMA LearnFine ==
    ASSUME Inv, Tame, Fine(State), NEW n \in Node, NEW x \in Node, Learn(n, x) \/ Lose(n, x)
    PROVE  \E T : Becomes(T) /\ Fine(T)
<1>1. Along(n, table[n]) /\ Sound(State)
    BY StateHas DEF Inv, Fine, Orderly, Tabled
<1>2. \E t : Along(n, t) /\ Becomes([State EXCEPT !.table[n] = t])
    <2>1. CASE Learn(n, x)
        <3> DEFINE rips == {[dest |-> x, time |-> 0, hops |-> 0]}
                   t    == IngestRif(table[n], n, Outside(x), rips, 0,
                                     NewFromRif(table[n], n, rips, 0))
        <3>1. Plain(n, Outside(x))
            BY <2>1 DEF Learn, Tame, Outside
        <3>2. Becomes([State EXCEPT !.table[n] = t])
            BY <2>1 DEF Learn
        <3>3. Along(n, t)
            BY <1>1, <3>1, IngestAlong
        <3> QED BY <3>2, <3>3
    <2>2. CASE Lose(n, x)
        <3> DEFINE t == MarkNeighbourDown(table[n], Outside(x))
        <3>1. Becomes([State EXCEPT !.table[n] = t])
            BY <2>2, StateHas DEF Lose
        <3>2. Along(n, t)
            BY <1>1, WithoutAlong DEF MarkNeighbourDown
        <3> QED BY <3>1, <3>2
    <2> QED BY <2>1, <2>2
<1>3. PICK t : Along(n, t) /\ Becomes([State EXCEPT !.table[n] = t])
    BY <1>2
<1>4. Fine([State EXCEPT !.table[n] = t])
    BY <1>1, <1>3, TableFine
<1> QED BY <1>3, <1>4

\* What a tick leaves of a neighbour: one it has not known, it does not know now,
\* and what it awaits it awaited or has just probed.
LEMMA TickKeeps ==
    ASSUME NEW n, NEW ticks, NEW E, Engine(n, ticks, E), n \in left.inp3
    PROVE  \A m \in DOMAIN engineTick(E) :
              /\ m \in DOMAIN E
              /\ engineTick(E)[m].capable = E[m].capable
              /\ engineTick(E)[m].awaiting => E[m].awaiting \/ m \in Probed(E)
<1> DEFINE F == engineTick(E)
           M == {x \in DOMAIN E : ~Expired(E[x])}
<1>1. F = [m \in M |-> Kept(E[m])]
    BY DEF engineTick, Kept
<1> HIDE DEF F
<1>2. DOMAIN F = M /\ \A m \in M : F[m] = Kept(E[m])
    BY <1>1
<1>3. ASSUME NEW m \in M
      PROVE  F[m].capable = E[m].capable /\ (F[m].awaiting => E[m].awaiting \/ m \in Probed(E))
    <2>1. CASE Due(E[m])
        <3> DEFINE r == E[m]
        <3>1. F[m] = [r EXCEPT !.sent = 0, !.awaiting = TRUE]
            BY <1>2, <2>1 DEF Kept
        <3>2. F[m].capable = r.capable
            <4> HIDE DEF r
            <4> QED BY <3>1
        <3>3. m \in Probed(E)
            BY <2>1 DEF Probed
        <3> QED BY <3>2, <3>3
    <2>2. CASE ~Due(E[m])
        BY <1>2, <2>2 DEF Kept
    <2> QED BY <2>1, <2>2
<1> QED BY <1>2, <1>3 DEF F

\* A tick: what is awaited from then on has just been sent.
LEMMA TickFine ==
    ASSUME Inv, Timely, Fine(State), NEW n \in Node, Tick(n)
    PROVE  \E T : Becomes(T) /\ Fine(T)
<1>1. n \in left.inp3 /\ Sound(State) /\ Engine(n, ticked, eng[n])
    BY TickParts
<1>2. PICK gone, away, updates :
        /\ Sound(Prepared(n, gone, away))
        /\ \A m \in DOMAIN updates : updates[m].kind = "RIF"
        /\ Becomes(sendInp3(Prepared(n, gone, away), n, updates))
    BY TickParts
<1> DEFINE F == engineTick(eng[n])
           G == [eng EXCEPT ![n] = F]
           t == [Without(table[n], gone, away) EXCEPT !.withdrawn = {}]
           u == [table EXCEPT ![n] = t]
           A == sendInp3(State, n, Probes(n))
           D == Prepared(n, gone, away)
           T == sendInp3(D, n, updates)
<1>3. /\ Orderly(State) /\ Hearing(eng, wire) /\ Meeting(eng, links, sess)
      /\ Tabled(table) /\ Listed(links, sess) /\ Called(dials, sess)
    BY StateHas DEF Fine, Orderly
<1>4. /\ Grown(wire, A.wire) /\ Carrying(A.wire, links, sess)
      /\ \A e \in links :
            e[1] = n /\ e[2] \in Probed(eng[n]) /\ Up(sess, e) =>
               \E i \in DOMAIN A.wire[e] : A.wire[e][i].frame = build(n)
    <2> DEFINE frames == Probes(n)
    <2>1. DOMAIN frames = Probed(eng[n]) /\ \A m \in DOMAIN frames : frames[m] = build(n)
        BY DEF Probes
    <2> HIDE DEF frames
    <2>2. LET R == sendInp3(State, n, frames)
          IN  /\ Grown(State.wire, R.wire) /\ Carrying(R.wire, State.links, State.sess)
              /\ \A e \in State.links :
                     e[1] = n /\ e[2] \in DOMAIN frames /\ Up(State.sess, e) =>
                        \E i \in DOMAIN R.wire[e] : R.wire[e][i].frame = frames[e[2]]
        BY <1>1, <1>3, sendInp3Reaches
    <2> QED BY <2>1, <2>2, StateHas DEF frames
<1>5. D = Rec(u, G, links, sess, dials, A.wire)
    BY DEF Prepared
<1> HIDE DEF A, D
<1>6. /\ \A m \in DOMAIN F : /\ m \in DOMAIN eng[n] /\ F[m].capable = eng[n][m].capable
                             /\ F[m].awaiting => eng[n][m].awaiting \/ m \in Probed(eng[n])
    BY <1>1, TickKeeps
<1>7. Tabled(u)
    <2>1. Along(n, t)
        BY <1>3, WithoutAlong DEF Tabled
    <2> HIDE DEF t
    <2> QED BY <1>3, <2>1 DEF Tabled
<1> HIDE DEF u, F
<1>8. G = [k \in Node |-> IF k = n THEN F ELSE eng[k]]
    BY <1>1, StateHas DEF Sound, Engines
<1> HIDE DEF G
<1>9. Meeting(G, links, sess)
    BY <1>3, <1>6, <1>8 DEF Meeting
<1>10. Hearing(G, A.wire)
    <2> SUFFICES ASSUME NEW k \in Node, NEW m \in DOMAIN G[k], m \in left.inp3, G[k][m].awaiting
                 PROVE  ~NoneOut(A.wire, k, m)
        BY DEF Hearing
    <2>1. CASE m \in DOMAIN eng[k] /\ eng[k][m].awaiting
        <3>1. Hearing(eng, A.wire)
            BY <1>3, <1>4, GrownHears
        <3> QED BY <2>1, <3>1 DEF Hearing
    <2>2. CASE k = n /\ m \in Probed(eng[n]) /\ m \in DOMAIN eng[n]
        <3>1. PICK e \in links : e[1] = n /\ e[2] = m /\ Up(sess, e)
            BY <1>3, <2>2 DEF Meeting
        <3>2. PICK i \in DOMAIN A.wire[e] : A.wire[e][i].frame = build(n)
            BY <1>4, <2>2, <3>1
        <3>3. e \in End
            BY <1>1, StateHas DEF Sound
        <3>4. A.wire[e][i].frame.kind = "L3RTT" /\ A.wire[e][i].frame.origin = n
            BY <3>2 DEF build
        <3> QED BY <2>2, <3>1, <3>3, <3>4 DEF NoneOut, IsProbe, Pair
    <2> QED BY <1>6, <1>8, <2>1, <2>2
<1>11. Orderly(D) /\ D.wire = A.wire /\ D.eng = G /\ D.links = links /\ D.sess = sess
       /\ D.table = u /\ D.dials = dials
    BY <1>3, <1>4, <1>5, <1>7, <1>9, RecHas DEF Orderly
<1>12. /\ T = Rec(D.table, D.eng, D.links, D.sess, D.dials, T.wire)
       /\ Grown(D.wire, T.wire) /\ Carrying(T.wire, D.links, D.sess)
    <2>1. \A m \in DOMAIN updates : updates[m].kind = "L3RTT" => n \in left.inp3
        BY <1>1
    <2>2. Sound(D)
        BY <1>2 DEF D
    <2> QED BY <1>11, <2>1, <2>2, sendInp3Reaches
<1>13. Becomes(T)
    BY <1>2 DEF D
<1> HIDE DEF T
<1>14. Hearing(G, T.wire)
    BY <1>10, <1>11, <1>12, GrownHears
<1>15. Fine(T)
    BY <1>11, <1>12, <1>14, RecHas DEF Fine, Orderly
<1> QED BY <1>13, <1>15

\* A unit of time ages what is known and what is under way.
LEMMA PassFine ==
    ASSUME Inv, Fine(State), Pass
    PROVE  Fine(State)'
<1>1. /\ table' = table /\ links' = links /\ sess' = sess /\ dials' = dials /\ left' = left
      /\ eng' = [n \in Node |-> Elapse(eng[n])]
      /\ wire' = [e \in End |-> [i \in DOMAIN wire[e] |-> [wire[e][i] EXCEPT !.late = TRUE]]]
    BY DEF Pass
<1>2. /\ Tabled(table) /\ Listed(links, sess) /\ Called(dials, sess)
      /\ Carrying(wire, links, sess) /\ Meeting(eng, links, sess) /\ Hearing(eng, wire)
    BY StateHas DEF Fine, Orderly
<1>3. ASSUME NEW n \in Node
      PROVE  /\ DOMAIN eng'[n] = DOMAIN eng[n]
             /\ \A m \in DOMAIN eng[n] : /\ eng'[n][m].capable = eng[n][m].capable
                                         /\ eng'[n][m].awaiting = eng[n][m].awaiting
    <2>1. eng'[n] = [m \in DOMAIN eng[n] |-> Older(eng[n][m])]
        BY <1>1 DEF Elapse, Older
    <2>2. ASSUME NEW m \in DOMAIN eng[n]
          PROVE  /\ eng'[n][m].capable = eng[n][m].capable
                 /\ eng'[n][m].awaiting = eng[n][m].awaiting
        <3> DEFINE r == eng[n][m]
        <3>1. eng'[n][m] = Older(r)
            BY <2>1
        <3> HIDE DEF r
        <3>2. Older(r).capable = r.capable /\ Older(r).awaiting = r.awaiting
            BY DEF Older
        <3> QED BY <3>1, <3>2 DEF r
    <2> QED BY <2>1, <2>2
<1>4. ASSUME NEW e \in End
      PROVE  /\ DOMAIN wire'[e] = DOMAIN wire[e]
             /\ \A i \in DOMAIN wire[e] : wire'[e][i].frame = wire[e][i].frame
    <2>1. wire'[e] = [i \in DOMAIN wire[e] |-> [wire[e][i] EXCEPT !.late = TRUE]]
        BY <1>1
    <2>2. ASSUME NEW x PROVE [x EXCEPT !.late = TRUE].frame = x.frame
        OBVIOUS
    <2> QED BY <2>1, <2>2
<1>5. Carrying(wire, links, sess)'
    BY <1>1, <1>2, <1>4 DEF Carrying
<1>6. Meeting(eng, links, sess)'
    BY <1>1, <1>2, <1>3 DEF Meeting
<1>7. Hearing(eng, wire)'
    <2>1. \A n, m : NoneOut(wire', n, m) => NoneOut(wire, n, m)
        BY <1>4 DEF NoneOut, IsProbe
    <2> QED BY <1>1, <1>2, <1>3, <2>1 DEF Hearing
<1>8. Tabled(table)' /\ Listed(links, sess)' /\ Called(dials, sess)'
    BY <1>1, <1>2
<1> QED BY <1>5, <1>6, <1>7, <1>8 DEF State, Fine, Orderly

-----------------------------------------------------------------------------
(* The invariant *)

Fields == {"inp3", "border", "outside", "port", "breaks", "opens", "enters", "changes",
           "fails", "cuts", "detaches"}

AliveInv ==
    /\ Inv /\ Fields \subseteq DOMAIN left
    /\ Timely /\ ~left.breaks => Tame /\ Fine(State)

LEMMA InitAlive == Init => AliveInv
<1> SUFFICES ASSUME Init PROVE AliveInv
    OBVIOUS
<1>1. PICK mode \in Modes :
        /\ left = mode /\ table = mode.tables /\ eng = [n \in Node |-> <<>>]
        /\ links = {} /\ attached = Node \X Port
        /\ sess = [e \in End |-> "Disconnected"] /\ dials = [n \in Node |-> <<>>]
        /\ wire = [e \in End |-> <<>>]
    BY DEF Init
<1>2. Fields \subseteq DOMAIN left /\ table \in [Node -> Table]
    BY <1>1, ModeAssumption DEF Mode, Fields
<1>3. ASSUME ~left.breaks PROVE Tame
    BY <1>1, <1>3, CalmAssumption DEF Tame
<1>4. ASSUME ~left.breaks PROVE Fine(State)
    <2>1. Tabled(table)
        <3>1. ASSUME NEW n \in Node PROVE Along(n, table[n])
            <4>1. /\ {"routes", "neighbours", "withdrawn"} \subseteq DOMAIN table[n]
                  /\ \A r \in table[n].routes : "via" \in DOMAIN r
                BY <1>2 DEF Table, Route
            <4>2. \A v \in Vias(table[n]) : Plain(n, v)
                BY <1>1, <1>4, CalmAssumption
            <4> QED BY <4>1, <4>2 DEF Along
        <3> QED BY <1>2, <3>1 DEF Tabled
    <2>2. Listed(links, sess)
        BY <1>1 DEF Listed
    <2>3. Called(dials, sess) /\ Carrying(wire, links, sess)
        BY <1>1, QueueEmpty DEF Called, Carrying
    <2>4. Meeting(eng, links, sess) /\ Hearing(eng, wire)
        BY <1>1, QueueEmpty DEF Meeting, Hearing
    <2> QED BY <2>1, <2>2, <2>3, <2>4, StateHas DEF Fine, Orderly
<1> QED BY <1>2, <1>3, <1>4, InitInv DEF AliveInv

\* No step changes what its mode is.
LEMMA LeftKept ==
    ASSUME Fields \subseteq DOMAIN left, [Next]_vars
    PROVE  Fields \subseteq DOMAIN left' /\ left'.breaks = left.breaks
<1>1. \/ left' = left
      \/ left' = [left EXCEPT !.opens = @ - 1]
      \/ left' = [left EXCEPT !.enters = @ - 1]
      \/ left' = [left EXCEPT !.changes = @ - 1]
      \/ left' = [left EXCEPT !.fails = @ - 1]
      \/ left' = [left EXCEPT !.cuts = @ - 1]
      \/ left' = [left EXCEPT !.detaches = @ - 1]
    BY ZenonT(60) DEF Next, vars, Deliver, Established, DialFails, EndDown, Continue, Tick, Open,
           Enter, Learn, Lose, detachPort, attachPort, Pass
<1> QED BY <1>1, SMTT(30) DEF Fields

LEMMA NextAlive == AliveInv /\ [Next]_vars => AliveInv'
<1> SUFFICES ASSUME AliveInv, [Next]_vars PROVE AliveInv'
    OBVIOUS
<1>1. Inv' /\ (Fields \subseteq DOMAIN left') /\ left'.breaks = left.breaks
    BY NextInv, LeftKept DEF AliveInv
<1>2. ASSUME Timely, ~left.breaks PROVE (Tame /\ Fine(State))'
    <2>1. Inv /\ Tame /\ Fine(State) /\ Fields \subseteq DOMAIN left
        BY <1>2 DEF AliveInv
    <2>2. ASSUME NEW T, Becomes(T), Fine(T), attached' = attached,
                 \/ left' = left
                 \/ left' = [left EXCEPT !.opens = @ - 1]
                 \/ left' = [left EXCEPT !.enters = @ - 1]
                 \/ left' = [left EXCEPT !.changes = @ - 1]
          PROVE  (Tame /\ Fine(State))'
        <3>1. left'.inp3 = left.inp3 /\ Tame'
            BY <2>1, <2>2, TameKept DEF Fields
        <3> QED BY <2>2, <3>1, BecomesFine
    <2>3. ASSUME NEW e \in End, Deliver(e) PROVE (Tame /\ Fine(State))'
        BY <1>2, <2>1, <2>2, <2>3, DeliverFine DEF Deliver
    <2>4. ASSUME NEW e \in End, Established(e) PROVE (Tame /\ Fine(State))'
        BY <2>1, <2>2, <2>4, EstablishedFine DEF Established
    <2>5. ASSUME NEW e \in End, DialFails(e) \/ EndDown(e) PROVE FALSE
        BY <2>1, <2>5, StateHas DEF Tame, DialFails, EndDown, Fine, Orderly, Listed
    <2>6. ASSUME NEW n \in Node, Continue(n) PROVE (Tame /\ Fine(State))'
        BY SMTT(60), <2>1, <2>2, <2>6, ContinueFine DEF Continue
    <2>7. ASSUME NEW n \in Node, Tick(n) PROVE (Tame /\ Fine(State))'
        BY <1>2, <2>1, <2>2, <2>7, TickFine DEF Tick
    <2>8. ASSUME NEW n \in Node, NEW x \in Node, Open(n, x) \/ Enter(n, x)
          PROVE  (Tame /\ Fine(State))'
        BY <2>1, <2>2, <2>8, EnterFine DEF Open, Enter
    <2>9. ASSUME NEW n \in Node, NEW x \in Node, Learn(n, x) \/ Lose(n, x)
          PROVE  (Tame /\ Fine(State))'
        BY <2>1, <2>2, <2>9, LearnFine DEF Learn, Lose
    <2>10. ASSUME NEW n \in Node, NEW p \in Port, detachPort(n, p) \/ attachPort(n, p)
           PROVE  FALSE
        BY <2>1, <2>10 DEF Tame, detachPort, attachPort
    <2>11. ASSUME attached' = attached, left' = left, Fine(State)' PROVE (Tame /\ Fine(State))'
        BY <2>1, <2>11 DEF Tame
    <2>12. CASE Pass
        BY <2>1, <2>11, <2>12, PassFine DEF Pass
    <2>13. CASE UNCHANGED vars
        <3>1. Becomes(State) /\ attached' = attached /\ left' = left
            BY <2>13, StateHas DEF vars, Becomes
        <3> QED BY <2>1, <2>2, <3>1
    <2> QED BY <2>3, <2>4, <2>5, <2>6, <2>7, <2>8, <2>9, <2>10, <2>12, <2>13 DEF Next
<1> QED BY <1>1, <1>2 DEF AliveInv, Timely

\* A neighbour that speaks INP3 is given up only when its answer to a probe was
\* lost: never while the probe or the answer is on its way, and never where no
\* link fails (tick, handleL3Rtt, inp3Tick), whatever the nodes, the links and the
\* tables, where the reset window leaves a probe the time there and back and every
\* neighbour is probed.
THEOREM AliveAlwaysKept ==
    ASSUME ProbeUnknown, ResetWindow >= Interval + 2
    PROVE  Spec => AliveIsKept
<1>1. AliveInv /\ [Next]_vars =>
        [\A n, m \in Node :
            m \in CapableNeighbours(eng[n]) /\ m \notin DOMAIN eng'[n]
               => eng[n][m].awaiting /\ ProbesOut(n, m) = {} /\ left.breaks]_vars
    <2> SUFFICES ASSUME AliveInv, [Next]_vars, NEW n \in Node, NEW m \in Node,
                        m \in CapableNeighbours(eng[n]), m \notin DOMAIN eng'[n]
                 PROVE  eng[n][m].awaiting /\ ProbesOut(n, m) = {} /\ left.breaks
        OBVIOUS
    <2>1. Inv /\ Timely /\ m \in DOMAIN eng[n] /\ eng[n][m].capable
        BY DEF AliveInv, Timely, CapableNeighbours
    <2>2. eng[n][m].awaiting /\ NoneOut(wire, n, m)
        BY <2>1, ForgottenUnheard
    <2>3. ProbesOut(n, m) = {}
        BY <2>1, <2>2 DEF ProbesOut, NoneOut, IsProbe, Pair
    <2>4. ASSUME ~left.breaks PROVE FALSE
        <3>1. Meeting(eng, links, sess) /\ Hearing(eng, wire)
            BY <2>1, <2>4, StateHas DEF AliveInv, Fine, Orderly
        <3> QED BY <2>1, <2>2, <3>1 DEF Meeting, Hearing
    <2> QED BY <2>2, <2>3, <2>4
<1>2. Spec => []AliveInv
    BY InitAlive, NextAlive, PTL DEF Spec
<1> QED BY <1>1, <1>2, PTL DEF Spec, AliveIsKept

=============================================================================
