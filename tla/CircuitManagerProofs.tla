------------------------ MODULE CircuitManagerProofs ------------------------
(*****************************************************************************)
(* The inductive invariant of CircuitManager and the theorems that follow.   *)
(* One lemma per action; those about the tables are UpdateInv (a circuit     *)
(* changes or closes) and RegisterInv (a circuit is added under a free key). *)
(*****************************************************************************)
EXTENDS CircuitManager, NetRomCircuitProofs, SequenceTheorems

-----------------------------------------------------------------------------
(* The inductive invariant *)

\* A circuit is its index in "circuit", and a minted one has a peer key.
Identified ==
    \A i \in DOMAIN circuit :
        /\ circuit[i].inc = i
        /\ circuit[i].mintedFor # 0 => circuit[i].peerKey # NoPeerKey

TableTypes ==
    /\ circuit \in Seq(Circuit)
    /\ byLocalKey \in [Node -> [Key -> 0 .. Len(circuit)]]
    /\ byPeerKey \in [Node -> [Node \X Key -> 0 .. Len(circuit)]]
    /\ nextKey \in [Node -> Key]

NetTypes ==
    /\ net \in [Link -> Seq(Packet)]
    /\ lossesLeft \in Nat \cup {Unlimited}

TableInv == TableTypes /\ EndsAreSound /\ Identified /\ TablesAgree /\ LiveIsRegistered

\* The type invariant, split into the tables and the network.
LEMMA TypeParts == TypeOK <=> TableTypes /\ NetTypes
BY DEF TypeOK, TableTypes, NetTypes

-----------------------------------------------------------------------------
(* The network *)

\* A subsequence of a sequence has the same element type.
LEMMA SubSeqType ==
    ASSUME NEW S, NEW s \in Seq(S), NEW m \in Nat \ {0}, NEW n \in Nat, n <= Len(s)
    PROVE  SubSeq(s, m, n) \in Seq(S)
OBVIOUS

\* What a link holds after a send, cut at its capacity, is still a queue of packets.
LEMMA QueueType ==
    ASSUME NEW q \in Seq(Packet), NEW ps \in Seq(Packet)
    PROVE  SubSeq(q \o ps, 1, Lesser(NetCap, Len(q) + Len(ps))) \in Seq(Packet)
<1>1. q \o ps \in Seq(Packet) /\ Len(q \o ps) = Len(q) + Len(ps)  OBVIOUS
<1>2. Len(q) \in Nat /\ Len(ps) \in Nat /\ NetCap \in Nat  BY NetworkAssumption
<1>3. /\ Lesser(NetCap, Len(q) + Len(ps)) \in Nat
      /\ Lesser(NetCap, Len(q) + Len(ps)) <= Len(q \o ps)
  BY <1>1, <1>2 DEF Lesser
<1> QED  BY <1>1, <1>3, SubSeqType, 1 \in Nat \ {0}

\* Sending packets on a link keeps the network well-typed.
LEMMA ShipType ==
    ASSUME NetTypes, NEW from, NEW to, NEW ps \in Seq(Packet), Ship(from, to, ps)
    PROVE  NetTypes'
<1>1. ASSUME <<from, to>> \in Link
      PROVE  SubSeq(net[<<from, to>>] \o ps, 1,
                    Lesser(NetCap, Len(net[<<from, to>>]) + Len(ps))) \in Seq(Packet)
  BY <1>1, QueueType DEF NetTypes
<1> QED  BY <1>1 DEF NetTypes, Ship

\* Taking one packet and sending the replies keeps the network well-typed.
LEMMA ExchangeType ==
    ASSUME NetTypes, NEW from, NEW to, <<from, to>> \in Link, NEW back,
           NEW i \in DOMAIN net[<<from, to>>], NEW ps \in Seq(Packet),
           Exchange(from, to, i, back, ps)
    PROVE  NetTypes'
<1> DEFINE q    == net[<<from, to>>]
           less == SubSeq(q, 1, i - 1) \o SubSeq(q, i + 1, Len(q))
           rest == [net EXCEPT ![<<from, to>>] = less]
           full == SubSeq(rest[<<to, back>>] \o ps, 1,
                          Lesser(NetCap, Len(rest[<<to, back>>]) + Len(ps)))
<1>1. q \in Seq(Packet) /\ i \in 1 .. Len(q)  BY DEF NetTypes
<1>2. less \in Seq(Packet)
  <2>1. SubSeq(q, 1, i - 1) \in Seq(Packet)  BY <1>1, SubSeqType
  <2>2. SubSeq(q, i + 1, Len(q)) \in Seq(Packet)  BY <1>1, SubSeqType
  <2> HIDE DEF q
  <2> QED  BY <2>1, <2>2, CatType
<1>3. net' = [rest EXCEPT ![<<to, back>>] = full] /\ UNCHANGED lossesLeft
  BY DEF Exchange
<1> HIDE DEF less
<1>4. rest \in [Link -> Seq(Packet)]  BY <1>2 DEF NetTypes
<1> HIDE DEF rest
<1>5. <<to, back>> \in Link => full \in Seq(Packet)  BY <1>4, QueueType
<1> HIDE DEF full
<1> QED  BY <1>3, <1>4, <1>5 DEF NetTypes

-----------------------------------------------------------------------------
(* The tables *)

\* A circuit between handlers has handed over everything it emitted.
LEMMA AtRestType ==
    ASSUME NEW c \in Sound
    PROVE  /\ AtRest(c) \in DataSteps(c)
           /\ c.out \in Seq(Packet)
<1>1. c \in Circuit  BY DEF Sound
<1>2. <<>> \in Seq(Packet)  OBVIOUS
<1>3. AtRest(c) \in Circuit  BY <1>1, <1>2 DEF AtRest, Circuit
<1>4. AtRest(c) = [c EXCEPT !.out = AtRest(c).out]  BY <1>1 DEF AtRest, Circuit
<1>5. AtRest(c) \in Emissions(c)  BY <1>3, <1>4 DEF Emissions
<1>6. c.out \in Seq(Packet)  BY <1>1 DEF Circuit
<1>7. AtRest(c) \in SameState(c)  BY <1>5, EmissionKeepsState
<1>8. Chats(c, AtRest(c))  BY <1>1 DEF AtRest, Chats, Circuit
<1> QED  BY <1>6, <1>7, <1>8 DEF DataSteps

\* Every circuit of the table is sound.
LEMMA CircuitIsSound ==
    ASSUME TableInv, NEW i \in DOMAIN circuit
    PROVE  /\ circuit[i] \in Sound /\ i \in Nat \ {0} /\ i <= Len(circuit)
           /\ circuit[i].node \in Node /\ circuit[i].localKey \in Key
           /\ circuit[i].inc = i
<1>1. circuit[i] \in Circuit /\ EndIsSound(circuit[i]) /\ circuit[i].inc = i
  BY DEF TableInv, TableTypes, EndsAreSound, Identified
<1>2. i \in 1 .. Len(circuit) /\ Len(circuit) \in Nat  BY DEF TableInv, TableTypes
<1>3. circuit[i].node \in Node /\ circuit[i].localKey \in Key  BY <1>1 DEF Circuit
<1> QED  BY <1>1, <1>2, <1>3 DEF Sound

\* The domains and ranges of the tables.
LEMMA TableFacts ==
    ASSUME TableInv
    PROVE  /\ circuit \in Seq(Circuit) /\ Len(circuit) \in Nat
           /\ DOMAIN circuit = 1 .. Len(circuit)
           /\ byLocalKey \in [Node -> [Key -> 0 .. Len(circuit)]]
           /\ byPeerKey \in [Node -> [Node \X Key -> 0 .. Len(circuit)]]
           /\ nextKey \in [Node -> Key]
<1>1. circuit \in Seq(Circuit)  BY DEF TableInv, TableTypes
<1>2. Len(circuit) \in Nat /\ DOMAIN circuit = 1 .. Len(circuit)  BY <1>1
<1>3. /\ byLocalKey \in [Node -> [Key -> 0 .. Len(circuit)]]
      /\ byPeerKey \in [Node -> [Node \X Key -> 0 .. Len(circuit)]]
      /\ nextKey \in [Node -> Key]
  BY DEF TableInv, TableTypes
<1> QED  BY <1>1, <1>2, <1>3

\* What TablesAgree says of an entry of byLocalKey.
LEMMA LocalEntry ==
    ASSUME TableInv, NEW m \in Node, NEW x \in Key, NEW j, j = byLocalKey[m][x], j # 0
    PROVE  /\ j \in DOMAIN circuit /\ j \in Nat \ {0}
           /\ circuit[j].node = m /\ circuit[j].localKey = x /\ circuit[j].inc = j
           /\ circuit[j].reason = "None"
           /\ circuit[j].peerKey # NoPeerKey => byPeerKey[m][circuit[j].peerKey] = j
<1>1. j \in DOMAIN circuit /\ j \in Nat \ {0}  BY TableFacts
<1>2. circuit[j].inc = j  BY <1>1, CircuitIsSound
<1> QED  BY <1>1, <1>2 DEF TableInv, TablesAgree

\* What TablesAgree says of an entry of byPeerKey.
LEMMA PeerEntry ==
    ASSUME TableInv, NEW m \in Node, NEW pk \in Node \X Key,
           NEW j, j = byPeerKey[m][pk], j # 0
    PROVE  /\ j \in DOMAIN circuit /\ j \in Nat \ {0}
           /\ circuit[j].peerKey = pk /\ circuit[j].inc = j
           /\ byLocalKey[m][circuit[j].localKey] = j
<1>1. j \in DOMAIN circuit /\ j \in Nat \ {0}  BY TableFacts
<1>2. circuit[j].inc = j  BY <1>1, CircuitIsSound
<1> QED  BY <1>1, <1>2 DEF TableInv, TablesAgree

\* What LiveIsRegistered says of a live circuit.
LEMMA LiveEntry ==
    ASSUME TableInv, NEW j \in DOMAIN circuit, circuit[j].state # "Disconnected"
    PROVE  byLocalKey[circuit[j].node][circuit[j].localKey] = j
BY DEF TableInv, LiveIsRegistered, Registered

\* No peer's key is the mark of a circuit that has none.
LEMMA PeerKeysDiffer == \A pk \in Node \X Key : pk # NoPeerKey
BY DEF NoPeerKey

\* A two-level table update changes exactly one entry.
LEMMA UpdateTwice ==
    ASSUME NEW A, NEW B, NEW S, NEW f \in [A -> [B -> S]],
           NEW a \in A, NEW b \in B, NEW v \in S,
           NEW g, g = [f EXCEPT ![a][b] = v]
    PROVE  /\ g \in [A -> [B -> S]]
           /\ \A x \in A, y \in B : g[x][y] = IF x = a /\ y = b THEN v ELSE f[x][y]
OBVIOUS

\* A table over the indices of a shorter sequence is one over a longer one's.
LEMMA WidenTwice ==
    ASSUME NEW A, NEW B, NEW m \in Nat, NEW n \in Nat, m <= n, NEW f \in [A -> [B -> 0 .. m]]
    PROVE  f \in [A -> [B -> 0 .. n]]
<1>1. ASSUME NEW a \in A PROVE f[a] \in [B -> 0 .. n]
  <2>1. f[a] \in [B -> 0 .. m]  OBVIOUS
  <2>2. \A b \in B : f[a][b] \in 0 .. n  BY <2>1
  <2> QED  BY <2>1, <2>2
<1> QED  BY <1>1

\* Replacing a registered circuit by what a handler made of it, with the
\* deregistration when that closed it, preserves the tables' invariant.
LEMMA UpdateInv ==
    ASSUME TableInv, NEW i \in DOMAIN circuit, NEW c \in Evolutions(circuit[i]),
           \/ Registered(i)
           \/ c.state = circuit[i].state /\ c.reason = circuit[i].reason,
           Update(i, c), UNCHANGED nextKey
    PROVE  TableInv'
<1> DEFINE o == circuit[i]
           d == AtRest(c)
           n == o.node
           k == o.localKey
<1>1. /\ o \in Sound /\ i \in Nat \ {0} /\ i <= Len(circuit)
      /\ n \in Node /\ k \in Key /\ o.inc = i
  BY CircuitIsSound
<1>2. /\ circuit \in Seq(Circuit) /\ Len(circuit) \in Nat
      /\ DOMAIN circuit = 1 .. Len(circuit)
      /\ byLocalKey \in [Node -> [Key -> 0 .. Len(circuit)]]
      /\ byPeerKey \in [Node -> [Node \X Key -> 0 .. Len(circuit)]]
      /\ nextKey \in [Node -> Key]
  BY TableFacts
<1>3. /\ d \in Circuit /\ EndIsSound(d) /\ SameIdentity(o, d) /\ SameIdentity(o, c)
      /\ d.state = c.state /\ d.reason = c.reason
  BY AtRestType, Transitivity DEF DataSteps, SameState, Evolutions, Sound
<1>4. /\ d.node = n /\ d.localKey = k /\ d.peerKey = o.peerKey /\ d.inc = i
      /\ d.mintedFor = o.mintedFor
      /\ c.node = n /\ c.localKey = k /\ c.peerKey = o.peerKey
  BY <1>1, <1>3 DEF SameIdentity
<1>5. /\ circuit' = [circuit EXCEPT ![i] = d]
      /\ ~Closes(i, c) => byLocalKey' = byLocalKey /\ byPeerKey' = byPeerKey
      /\ Closes(i, c) =>
           /\ byLocalKey' = [byLocalKey EXCEPT ![n][k] = 0]
           /\ byPeerKey' = IF o.peerKey = NoPeerKey THEN byPeerKey
                           ELSE [byPeerKey EXCEPT ![n][o.peerKey] = 0]
  BY <1>4 DEF Update
<1>6. /\ circuit' \in Seq(Circuit) /\ Len(circuit') = Len(circuit)
      /\ DOMAIN circuit' = DOMAIN circuit
      /\ circuit'[i] = d
      /\ \A j \in DOMAIN circuit \ {i} : circuit'[j] = circuit[j]
  <2>1. d \in Circuit /\ i \in 1 .. Len(circuit) /\ circuit' = [circuit EXCEPT ![i] = d]
    BY <1>2, <1>3, <1>5
  <2> HIDE DEF d
  <2>2. /\ circuit' \in Seq(Circuit) /\ Len(circuit') = Len(circuit)
        /\ \A j \in 1 .. Len(circuit) : circuit'[j] = IF j = i THEN d ELSE circuit[j]
    BY <1>2, <2>1, ExceptSeq
  <2> QED  BY <1>2, <2>1, <2>2
<1> HIDE DEF d
<1>7. TableTypes'
  <2>1. 0 \in 0 .. Len(circuit)  BY <1>2
  <2>2. byLocalKey' \in [Node -> [Key -> 0 .. Len(circuit)]]
    <3>1. [byLocalKey EXCEPT ![n][k] = 0] \in [Node -> [Key -> 0 .. Len(circuit)]]
      BY <1>1, <1>2, <2>1, UpdateTwice
    <3> QED  BY <1>2, <1>5, <3>1
  <2>3. byPeerKey' \in [Node -> [Node \X Key -> 0 .. Len(circuit)]]
    <3>1. o.peerKey # NoPeerKey => o.peerKey \in Node \X Key
      BY <1>1 DEF Sound, Circuit
    <3>2. o.peerKey # NoPeerKey =>
            [byPeerKey EXCEPT ![n][o.peerKey] = 0] \in [Node -> [Node \X Key -> 0 .. Len(circuit)]]
      BY <1>1, <1>2, <2>1, <3>1, UpdateTwice
    <3> QED  BY <1>2, <1>5, <3>2
  <2> QED  BY <1>2, <1>6, <2>2, <2>3 DEF TableTypes
<1>8. EndsAreSound'
  BY <1>3, <1>6 DEF EndsAreSound, TableInv
<1>9. Identified'
  BY <1>4, <1>6 DEF Identified, TableInv
<1>10. /\ Closes(i, c) => byLocalKey[n][k] = i
       /\ Registered(i) => byLocalKey[n][k] = i
  BY DEF Closes, Registered
<1>11. \A m \in Node, x \in Key :
         byLocalKey'[m][x] = IF Closes(i, c) /\ m = n /\ x = k THEN 0 ELSE byLocalKey[m][x]
  <2> DEFINE g == [byLocalKey EXCEPT ![n][k] = 0]
  <2>1. 0 \in 0 .. Len(circuit)  BY <1>2
  <2>2. \A m \in Node, x \in Key :
           g[m][x] = IF m = n /\ x = k THEN 0 ELSE byLocalKey[m][x]
    BY <1>1, <1>2, <2>1, UpdateTwice
  <2> HIDE DEF g
  <2>3. byLocalKey' = IF Closes(i, c) THEN g ELSE byLocalKey  BY <1>5 DEF g
  <2> QED  BY <2>2, <2>3
<1>12. \A m \in Node, pk \in Node \X Key :
         byPeerKey'[m][pk] = IF Closes(i, c) /\ m = n /\ pk = o.peerKey THEN 0
                             ELSE byPeerKey[m][pk]
  <2> DEFINE g == [byPeerKey EXCEPT ![n][o.peerKey] = 0]
  <2>1. 0 \in 0 .. Len(circuit)  BY <1>2
  <2>2. \A pk \in Node \X Key : pk # NoPeerKey  BY PeerKeysDiffer
  <2>3. o.peerKey \in (Node \X Key) \cup {NoPeerKey}  BY <1>1 DEF Sound, Circuit
  <2>4. o.peerKey # NoPeerKey =>
          \A m \in Node, pk \in Node \X Key :
             g[m][pk] = IF m = n /\ pk = o.peerKey THEN 0 ELSE byPeerKey[m][pk]
    BY <1>1, <1>2, <2>1, <2>3, UpdateTwice, ZenonT(60)
  <2> HIDE DEF g
  <2>5. byPeerKey' = IF Closes(i, c) /\ o.peerKey # NoPeerKey THEN g ELSE byPeerKey
    BY <1>5 DEF g
  <2> QED  BY <2>2, <2>4, <2>5
<1>13. \A j \in DOMAIN circuit :
         /\ circuit'[j].node = circuit[j].node /\ circuit'[j].localKey = circuit[j].localKey
         /\ circuit'[j].peerKey = circuit[j].peerKey /\ circuit'[j].inc = circuit[j].inc
  BY <1>1, <1>4, <1>6
<1>14. TablesAgree'
  <2>1. ASSUME NEW m \in Node, NEW x \in Key, byLocalKey'[m][x] # 0
        PROVE  LET j == byLocalKey'[m][x] IN
               /\ circuit'[j].node = m /\ circuit'[j].localKey = x
               /\ circuit'[j].reason = "None"
               /\ circuit'[j].peerKey # NoPeerKey =>
                      byPeerKey'[m][circuit'[j].peerKey] = circuit'[j].inc
    <3> DEFINE j == byLocalKey[m][x]
    <3>1. byLocalKey'[m][x] = j /\ j # 0 /\ ~(Closes(i, c) /\ m = n /\ x = k)
      BY <1>11, <2>1
    <3> HIDE DEF j
    <3>2. /\ j \in DOMAIN circuit /\ j \in Nat \ {0}
          /\ circuit[j].node = m /\ circuit[j].localKey = x /\ circuit[j].inc = j
          /\ circuit[j].reason = "None"
          /\ circuit[j].peerKey # NoPeerKey => byPeerKey[m][circuit[j].peerKey] = j
      BY <3>1, LocalEntry DEF j
    <3>3. circuit'[j].reason = "None"
      <4>1. CASE j = i
        BY <1>1, <1>3, <1>6, <3>1, <3>2, <4>1 DEF Closes
      <4>2. CASE j # i  BY <1>6, <3>2, <4>2
      <4> QED  BY <4>1, <4>2
    <3>4. ASSUME circuit[j].peerKey # NoPeerKey
          PROVE  byPeerKey'[m][circuit[j].peerKey] = j
      <4>1. circuit[j].peerKey \in Node \X Key
        BY <3>2, <3>4, CircuitIsSound DEF Sound, Circuit
      <4>2. SUFFICES ASSUME Closes(i, c), m = n, circuit[j].peerKey = o.peerKey PROVE FALSE
        BY <1>12, <3>2, <3>4, <4>1
      <4>3. byLocalKey[n][k] = i /\ i # 0  BY <1>1, <1>10, <4>2
      <4>4. byPeerKey[n][o.peerKey] = i  BY <1>1, <3>4, <4>2, <4>3, LocalEntry
      <4> QED  BY <3>1, <3>2, <3>4, <4>2, <4>4
    <3> QED  BY <1>13, <3>1, <3>2, <3>3, <3>4
  <2>2. ASSUME NEW m \in Node, NEW pk \in Node \X Key, byPeerKey'[m][pk] # 0
        PROVE  LET j == byPeerKey'[m][pk] IN
               /\ circuit'[j].peerKey = pk
               /\ byLocalKey'[m][circuit'[j].localKey] = circuit'[j].inc
    <3> DEFINE j == byPeerKey[m][pk]
    <3>1. byPeerKey'[m][pk] = j /\ j # 0 /\ ~(Closes(i, c) /\ m = n /\ pk = o.peerKey)
      BY <1>12, <2>2
    <3> HIDE DEF j
    <3>2. /\ j \in DOMAIN circuit /\ circuit[j].peerKey = pk /\ circuit[j].inc = j
          /\ byLocalKey[m][circuit[j].localKey] = j
      BY <3>1, PeerEntry DEF j
    <3>3. circuit[j].localKey \in Key  BY <3>2, CircuitIsSound
    <3>4. byLocalKey'[m][circuit[j].localKey] = j
      <4>1. SUFFICES ASSUME Closes(i, c), m = n, circuit[j].localKey = k PROVE FALSE
        BY <1>11, <3>2, <3>3
      <4> QED  BY <1>10, <3>1, <3>2, <4>1
    <3> QED  BY <1>13, <3>1, <3>2, <3>4
  <2> QED  BY <2>1, <2>2 DEF TablesAgree
<1>15. LiveIsRegistered'
  <2>1. SUFFICES ASSUME NEW j \in DOMAIN circuit, circuit'[j].state # "Disconnected"
                 PROVE  byLocalKey'[circuit[j].node][circuit[j].localKey] = j
    BY <1>6, <1>13 DEF LiveIsRegistered, Registered
  <2>2. circuit[j].node \in Node /\ circuit[j].localKey \in Key  BY CircuitIsSound
  <2>3. CASE j = i
    <3>1. d.reason = "None"  BY <1>3, <1>6, <2>1, <2>3 DEF EndIsSound
    <3>2. ~Closes(i, c)  BY <1>3, <3>1 DEF Closes
    <3>3. byLocalKey[n][k] = i
      BY <1>3, <1>6, <1>10, <2>1, <2>3, LiveEntry
    <3> QED  BY <1>11, <2>2, <2>3, <3>2, <3>3
  <2>4. CASE j # i
    <3>1. byLocalKey[circuit[j].node][circuit[j].localKey] = j
      BY <1>6, <2>1, <2>4, LiveEntry
    <3> QED  BY <1>10, <1>11, <2>2, <2>4, <3>1
  <2> QED  BY <2>3, <2>4
<1> QED  BY <1>7, <1>8, <1>9, <1>14, <1>15 DEF TableInv

-----------------------------------------------------------------------------
(* A new circuit *)

\* allocateKey returns a key nothing live holds, when there is one.
LEMMA AllocateKeyType ==
    ASSUME TableInv, NEW n \in Node, FreeKeys(n) # {}
    PROVE  AllocateKey(n) \in Key /\ byLocalKey[n][AllocateKey(n)] = 0
<1> DEFINE far(k) == (k - nextKey[n]) % NumKeys
           D == {far(k) : k \in FreeKeys(n)}
<1>1. NumKeys \in Nat \ {0} /\ nextKey[n] \in Nat /\ FreeKeys(n) \subseteq Nat
  BY NumKeysAssumption, TableFacts DEF Key, FreeKeys
<1>2. \A k \in FreeKeys(n) : far(k) \in Nat  BY <1>1
<1>3. \E x \in D : \A y \in D : x <= y
  <2>1. D \subseteq Nat /\ D # {}  BY <1>2
  <2> HIDE DEF D
  <2> QED  BY <2>1, NatMinimum
<1>4. \E k \in FreeKeys(n) : \A j \in FreeKeys(n) : far(k) <= far(j)
  BY <1>3
<1>5. AllocateKey(n) \in FreeKeys(n)  BY <1>4 DEF AllocateKey
<1> QED  BY <1>5 DEF FreeKeys

\* The key counter wraps within the key space.
LEMMA NextKeyType ==
    ASSUME NEW k \in Key PROVE (k + 1) % NumKeys \in Key
BY NumKeysAssumption DEF Key

\* What a table update needs of a circuit object it appends.
Fresh(c) == /\ c \in Sound
            /\ c.inc = Len(circuit) + 1
            /\ c.mintedFor # 0 => c.peerKey # NoPeerKey

\* What a circuit appended to the table leaves alone.
LEMMA AppendFacts ==
    ASSUME TableInv, NEW c, Fresh(c), circuit' = Append(circuit, AtRest(c)),
           NEW L, L = Len(circuit) + 1
    PROVE  /\ L \in Nat \ {0} /\ circuit' \in Seq(Circuit) /\ Len(circuit') = L
           /\ DOMAIN circuit' = DOMAIN circuit \cup {L} /\ L \notin DOMAIN circuit
           /\ circuit'[L] = AtRest(c)
           /\ \A j \in DOMAIN circuit : circuit'[j] = circuit[j]
           /\ EndIsSound(AtRest(c)) /\ SameIdentity(c, AtRest(c))
           /\ AtRest(c).state = c.state /\ AtRest(c).reason = c.reason
           /\ EndsAreSound' /\ Identified'
<1> DEFINE d == AtRest(c)
<1>1. /\ d \in Circuit /\ EndIsSound(d) /\ SameIdentity(c, d)
      /\ d.state = c.state /\ d.reason = c.reason
  BY AtRestType, Transitivity DEF DataSteps, SameState, Evolutions, Sound, Fresh
<1>2. /\ circuit \in Seq(Circuit) /\ Len(circuit) \in Nat
      /\ DOMAIN circuit = 1 .. Len(circuit)
  BY TableFacts
<1> HIDE DEF d
<1>3. circuit' = Append(circuit, d)  BY DEF d
<1>4. /\ circuit' \in Seq(Circuit) /\ Len(circuit') = L
      /\ circuit'[L] = d
      /\ \A j \in DOMAIN circuit : circuit'[j] = circuit[j]
  BY <1>1, <1>2, <1>3, AppendProperties
<1>5. /\ DOMAIN circuit' = DOMAIN circuit \cup {L} /\ L \notin DOMAIN circuit
      /\ L \in Nat \ {0}
  <2>1. DOMAIN circuit' = 1 .. L  BY <1>4
  <2> QED  BY <1>2, <2>1
<1>6. EndsAreSound'  BY <1>1, <1>4, <1>5 DEF EndsAreSound, TableInv
<1>7. Identified'
  <2>1. d.inc = L /\ (d.mintedFor # 0 => d.peerKey # NoPeerKey)
    BY <1>1 DEF SameIdentity, Fresh
  <2> QED  BY <1>4, <1>5, <2>1 DEF Identified, TableInv
<1> QED  BY <1>1, <1>4, <1>5, <1>6, <1>7 DEF d

\* mintInbound of a circuit the listener refuses: kept nowhere.
LEMMA AppendClosedInv ==
    ASSUME TableInv, NEW c, Fresh(c), c.reason # "None",
           circuit' = Append(circuit, AtRest(c)),
           UNCHANGED <<byLocalKey, byPeerKey>>, nextKey' \in [Node -> Key]
    PROVE  TableInv'
<1> DEFINE L == Len(circuit) + 1
<1>1. /\ L \in Nat \ {0} /\ circuit' \in Seq(Circuit) /\ Len(circuit') = L
      /\ DOMAIN circuit' = DOMAIN circuit \cup {L}
      /\ circuit'[L] = AtRest(c)
      /\ \A j \in DOMAIN circuit : circuit'[j] = circuit[j]
      /\ EndIsSound(AtRest(c)) /\ AtRest(c).reason = c.reason
      /\ EndsAreSound' /\ Identified'
  BY AppendFacts
<1>2. AtRest(c).state = "Disconnected"  BY <1>1 DEF EndIsSound
<1>3. TableTypes'
  <2>1. Len(circuit) \in Nat /\ L \in Nat /\ Len(circuit) <= L  BY TableFacts
  <2>2. /\ byLocalKey' \in [Node -> [Key -> 0 .. Len(circuit)]]
        /\ byPeerKey' \in [Node -> [Node \X Key -> 0 .. Len(circuit)]]
    BY TableFacts
  <2> HIDE DEF L
  <2>3. byLocalKey' \in [Node -> [Key -> 0 .. L]]  BY <2>1, <2>2, WidenTwice
  <2>4. byPeerKey' \in [Node -> [Node \X Key -> 0 .. L]]  BY <2>1, <2>2, WidenTwice
  <2> QED  BY <1>1, <2>3, <2>4 DEF TableTypes
<1> HIDE DEF L
<1>4. TablesAgree'
  <2>1. ASSUME NEW m \in Node, NEW x \in Key, byLocalKey[m][x] # 0
        PROVE  byLocalKey[m][x] \in DOMAIN circuit
    BY <2>1, LocalEntry
  <2>2. ASSUME NEW m \in Node, NEW pk \in Node \X Key, byPeerKey[m][pk] # 0
        PROVE  byPeerKey[m][pk] \in DOMAIN circuit
    BY <2>2, PeerEntry
  <2> QED  BY <1>1, <2>1, <2>2 DEF TablesAgree, TableInv
<1>5. LiveIsRegistered'
  BY <1>1, <1>2 DEF LiveIsRegistered, Registered, TableInv
<1> QED  BY <1>1, <1>3, <1>4, <1>5 DEF TableInv

\* openCircuit, and mintInbound of a circuit that stays: registered under a
\* free key, and under its peer key if it has one.
RegisterStep(c, L) ==
    /\ circuit' = Append(circuit, AtRest(c))
    /\ byLocalKey' = [byLocalKey EXCEPT ![c.node][c.localKey] = L]
    /\ byPeerKey' = IF c.peerKey = NoPeerKey THEN byPeerKey
                    ELSE [byPeerKey EXCEPT ![c.node][c.peerKey] = L]
    /\ nextKey' \in [Node -> Key]

\* register of a fresh circuit under a free key preserves the tables' invariant.
LEMMA RegisterInv ==
    ASSUME TableInv, NEW c, Fresh(c), c.reason = "None",
           byLocalKey[c.node][c.localKey] = 0,
           c.peerKey # NoPeerKey => byPeerKey[c.node][c.peerKey] = 0,
           NEW L, L = Len(circuit) + 1, RegisterStep(c, L)
    PROVE  TableInv'
<1> DEFINE d == AtRest(c)
<1>1. /\ L \in Nat \ {0} /\ circuit' \in Seq(Circuit) /\ Len(circuit') = L
      /\ DOMAIN circuit' = DOMAIN circuit \cup {L} /\ L \notin DOMAIN circuit
      /\ circuit'[L] = d
      /\ \A j \in DOMAIN circuit : circuit'[j] = circuit[j]
      /\ SameIdentity(c, d) /\ d.reason = c.reason
      /\ EndsAreSound' /\ Identified'
  BY AppendFacts DEF RegisterStep
<1>2. /\ c.node \in Node /\ c.localKey \in Key /\ c.inc = L
      /\ c.peerKey \in (Node \X Key) \cup {NoPeerKey}
  BY DEF Fresh, Sound, Circuit
<1>3. /\ d.node = c.node /\ d.localKey = c.localKey /\ d.peerKey = c.peerKey /\ d.inc = L
      /\ d.reason = "None"
  BY <1>1, <1>2 DEF SameIdentity
<1>4. /\ byLocalKey \in [Node -> [Key -> 0 .. L]]
      /\ byPeerKey \in [Node -> [Node \X Key -> 0 .. L]]
      /\ L \in 0 .. L
  <2>1. Len(circuit) \in Nat /\ L \in Nat /\ Len(circuit) <= L  BY TableFacts
  <2>2. /\ byLocalKey \in [Node -> [Key -> 0 .. Len(circuit)]]
        /\ byPeerKey \in [Node -> [Node \X Key -> 0 .. Len(circuit)]]
    BY TableFacts
  <2>3. byLocalKey \in [Node -> [Key -> 0 .. L]]  BY <2>1, <2>2, WidenTwice
  <2>4. byPeerKey \in [Node -> [Node \X Key -> 0 .. L]]  BY ZenonT(60), <2>1, <2>2, WidenTwice
  <2>5. L \in 0 .. L  BY <2>1
  <2> QED  BY <2>3, <2>4, <2>5
<1>5. /\ byLocalKey' = [byLocalKey EXCEPT ![c.node][c.localKey] = L]
      /\ byPeerKey' = IF c.peerKey = NoPeerKey THEN byPeerKey
                      ELSE [byPeerKey EXCEPT ![c.node][c.peerKey] = L]
  BY DEF RegisterStep
<1> HIDE DEF d
<1>6. /\ byLocalKey' \in [Node -> [Key -> 0 .. L]]
      /\ \A m \in Node, x \in Key :
           byLocalKey'[m][x] = IF m = c.node /\ x = c.localKey THEN L ELSE byLocalKey[m][x]
  <2> DEFINE g == [byLocalKey EXCEPT ![c.node][c.localKey] = L]
  <2>1. /\ g \in [Node -> [Key -> 0 .. L]]
        /\ \A m \in Node, x \in Key :
             g[m][x] = IF m = c.node /\ x = c.localKey THEN L ELSE byLocalKey[m][x]
    BY <1>2, <1>4, UpdateTwice
  <2> QED  BY <1>5, <2>1
<1>7. /\ byPeerKey' \in [Node -> [Node \X Key -> 0 .. L]]
      /\ \A m \in Node, pk \in Node \X Key :
           byPeerKey'[m][pk] = IF m = c.node /\ pk = c.peerKey THEN L ELSE byPeerKey[m][pk]
  <2>1. \A pk \in Node \X Key : pk # NoPeerKey  BY PeerKeysDiffer
  <2>2. CASE c.peerKey = NoPeerKey
    <3>1. byPeerKey' = byPeerKey  BY <1>5, <2>2
    <3> QED  BY <1>4, <2>1, <2>2, <3>1
  <2>3. CASE c.peerKey # NoPeerKey
    <3> DEFINE g == [byPeerKey EXCEPT ![c.node][c.peerKey] = L]
    <3>1. c.peerKey \in Node \X Key /\ byPeerKey' = g  BY <1>2, <1>5, <2>3
    <3>2. /\ g \in [Node -> [Node \X Key -> 0 .. L]]
          /\ \A m \in Node, pk \in Node \X Key :
               g[m][pk] = IF m = c.node /\ pk = c.peerKey THEN L ELSE byPeerKey[m][pk]
      BY ZenonT(60), <1>2, <1>4, <3>1, UpdateTwice
    <3> QED  BY <3>1, <3>2
  <2> QED  BY <2>2, <2>3
<1>8. TableTypes'  BY <1>1, <1>6, <1>7 DEF TableTypes, RegisterStep
<1>9. TablesAgree'
  <2>1. ASSUME NEW m \in Node, NEW x \in Key, byLocalKey'[m][x] # 0
        PROVE  LET j == byLocalKey'[m][x] IN
               /\ circuit'[j].node = m /\ circuit'[j].localKey = x
               /\ circuit'[j].reason = "None"
               /\ circuit'[j].peerKey # NoPeerKey =>
                      byPeerKey'[m][circuit'[j].peerKey] = circuit'[j].inc
    <3>1. CASE m = c.node /\ x = c.localKey
      <4>1. byLocalKey'[m][x] = L  BY <1>6, <3>1
      <4> QED  BY <1>1, <1>2, <1>3, <1>7, <3>1, <4>1
    <3>2. CASE ~(m = c.node /\ x = c.localKey)
      <4> DEFINE j == byLocalKey[m][x]
      <4>1. byLocalKey'[m][x] = j /\ j # 0  BY <1>6, <2>1, <3>2
      <4> HIDE DEF j
      <4>2. /\ j \in DOMAIN circuit
            /\ circuit[j].node = m /\ circuit[j].localKey = x /\ circuit[j].inc = j
            /\ circuit[j].reason = "None"
            /\ circuit[j].peerKey # NoPeerKey => byPeerKey[m][circuit[j].peerKey] = j
        BY <4>1, LocalEntry DEF j
      <4>3. circuit[j].peerKey \in (Node \X Key) \cup {NoPeerKey} /\ j # 0
        BY <4>2, CircuitIsSound DEF Sound, Circuit
      <4> QED  BY SMTT(60), <1>1, <1>7, <4>1, <4>2, <4>3
    <3> QED  BY <3>1, <3>2
  <2>2. ASSUME NEW m \in Node, NEW pk \in Node \X Key, byPeerKey'[m][pk] # 0
        PROVE  LET j == byPeerKey'[m][pk] IN
               /\ circuit'[j].peerKey = pk
               /\ byLocalKey'[m][circuit'[j].localKey] = circuit'[j].inc
    <3>1. CASE m = c.node /\ pk = c.peerKey
      <4>1. byPeerKey'[m][pk] = L  BY <1>7, <3>1
      <4>2. circuit'[L].peerKey = pk /\ circuit'[L].localKey = c.localKey /\ circuit'[L].inc = L
        BY <1>1, <1>3, <3>1
      <4>3. byLocalKey'[m][c.localKey] = L  BY <1>2, <1>6, <3>1
      <4> QED  BY <4>1, <4>2, <4>3
    <3>2. CASE ~(m = c.node /\ pk = c.peerKey)
      <4> DEFINE j == byPeerKey[m][pk]
      <4>1. byPeerKey'[m][pk] = j /\ j # 0  BY <1>7, <2>2, <3>2
      <4> HIDE DEF j
      <4>2. /\ j \in DOMAIN circuit /\ circuit[j].peerKey = pk /\ circuit[j].inc = j
            /\ byLocalKey[m][circuit[j].localKey] = j /\ j # 0
        BY <4>1, PeerEntry DEF j
      <4>3. circuit[j].localKey \in Key  BY <4>2, CircuitIsSound
      <4> QED  BY <1>1, <1>6, <4>1, <4>2, <4>3
    <3> QED  BY <3>1, <3>2
  <2> QED  BY <2>1, <2>2 DEF TablesAgree
<1>10. LiveIsRegistered'
  <2>1. SUFFICES ASSUME NEW j \in DOMAIN circuit', circuit'[j].state # "Disconnected"
                 PROVE  byLocalKey'[circuit'[j].node][circuit'[j].localKey] = j
    BY DEF LiveIsRegistered, Registered
  <2>2. CASE j = L  BY <1>1, <1>2, <1>3, <1>6, <2>2
  <2>3. CASE j # L
    <3>1. j \in DOMAIN circuit /\ circuit'[j] = circuit[j]  BY <1>1, <2>3
    <3>2. byLocalKey[circuit[j].node][circuit[j].localKey] = j  BY <2>1, <3>1, LiveEntry
    <3>3. circuit[j].node \in Node /\ circuit[j].localKey \in Key /\ j # 0
      BY <3>1, CircuitIsSound
    <3> QED  BY <1>6, <3>1, <3>2, <3>3
  <2> QED  BY <2>2, <2>3
<1> QED  BY <1>1, <1>8, <1>9, <1>10 DEF TableInv

-----------------------------------------------------------------------------
(* Every action preserves the invariant *)

Inv == TableInv /\ NetTypes

\* The empty tables satisfy the invariant.
LEMMA InitInv == ASSUME Init PROVE Inv
<1>1. DOMAIN circuit = {} /\ circuit \in Seq(Circuit) /\ Len(circuit) = 0
  BY DEF Init
<1>2. byLocalKey \in [Node -> [Key -> 0 .. Len(circuit)]]  BY <1>1 DEF Init
<1>3. byPeerKey \in [Node -> [Node \X Key -> 0 .. Len(circuit)]]  BY <1>1 DEF Init
<1>4. nextKey \in [Node -> Key]  BY NetworkAssumption DEF Init
<1>5. TablesAgree  BY DEF Init, TablesAgree
<1>6. EndsAreSound /\ Identified /\ LiveIsRegistered
  BY <1>1 DEF EndsAreSound, Identified, LiveIsRegistered
<1>7. NetTypes
  <2>1. net \in [Link -> Seq(Packet)]  BY DEF Init
  <2>2. lossesLeft \in Nat \cup {Unlimited}  BY NetworkAssumption DEF Init, Unlimited
  <2> QED  BY <2>1, <2>2 DEF NetTypes
<1> QED  BY <1>1, <1>2, <1>3, <1>4, <1>5, <1>6, <1>7 DEF Inv, TableInv, TableTypes

\* A step of one live circuit, with the packets it sends, preserves the invariant.
LEMMA LocalStepInv ==
    ASSUME Inv, NEW i \in DOMAIN circuit, NEW after \in Evolutions(circuit[i]),
           \/ Registered(i)
           \/ after.state = circuit[i].state /\ after.reason = circuit[i].reason,
           LocalStep(i, after)
    PROVE  Inv'
<1>1. Update(i, after) /\ Ship(after.node, after.remoteNode, after.out) /\ UNCHANGED nextKey
  BY DEF LocalStep
<1>2. TableInv'  BY <1>1, UpdateInv DEF Inv
<1>3. after.out \in Seq(Packet)  BY AtRestType, Transitivity
<1>4. NetTypes'  BY <1>1, <1>3, ShipType DEF Inv
<1> QED  BY <1>2, <1>4 DEF Inv

\* A live circuit is the one its local key finds.
LEMMA LiveIsFound ==
    ASSUME Inv, NEW i \in DOMAIN circuit, circuit[i].state # "Disconnected"
    PROVE  Registered(i)
BY DEF Inv, TableInv, LiveIsRegistered

\* A registered circuit is sound.
LEMMA SoundCircuit ==
    ASSUME Inv, NEW i \in DOMAIN circuit PROVE circuit[i] \in Sound
BY CircuitIsSound DEF Inv

\* An application write preserves the invariant.
LEMMA AppSendInv ==
    ASSUME Inv, NEW i \in DOMAIN circuit, NEW size \in FrameSizes, AppSend(i, size)
    PROVE  Inv'
<1>1. size \in Nat  BY NetworkAssumption
<1>2. Send(circuit[i], size) \in Evolutions(circuit[i])
  BY <1>1, SoundCircuit, SendType, Transitivity
<1>3. Registered(i)  BY LiveIsFound DEF AppSend
<1> QED  BY <1>2, <1>3, LocalStepInv DEF AppSend

\* An application disconnect preserves the invariant.
LEMMA AppDisconnectInv ==
    ASSUME Inv, NEW i \in DOMAIN circuit, AppDisconnect(i) PROVE Inv'
<1>1. Disconnect(circuit[i]) \in Evolutions(circuit[i])  BY SoundCircuit, DisconnectType
<1>2. Registered(i)  BY LiveIsFound, NetworkAssumption DEF AppDisconnect
<1> QED  BY <1>1, <1>2, LocalStepInv DEF AppDisconnect

\* An application read preserves the invariant.
LEMMA AppDrainInv ==
    ASSUME Inv, NEW i \in DOMAIN circuit, AppDrain(i) PROVE Inv'
<1> DEFINE c == OnDeliveryDrained(circuit[i])
<1>1. c \in DataSteps(circuit[i])  BY SoundCircuit, OnDeliveryDrainedType
<1>2. LocalStep(i, c)  BY DEF AppDrain
<1> HIDE DEF c
<1>3. c \in Evolutions(circuit[i])  BY <1>1, Transitivity
<1>4. c.state = circuit[i].state /\ c.reason = circuit[i].reason
  BY <1>1 DEF DataSteps, SameState
<1> QED  BY <1>2, <1>3, <1>4, LocalStepInv

\* An inbound circuit still awaiting its decision is registered and closed.
LEMMA DeferredFacts ==
    ASSUME Inv, NEW i \in DOMAIN circuit, Deferred(i)
    PROVE  /\ Registered(i) /\ circuit[i] \in Sound
           /\ circuit[i].state = "Disconnected" /\ circuit[i].reason = "None"
           /\ circuit[i].peerKey[2] \in Key
           /\ circuit[i].remoteNode \in Node
<1>1. Registered(i) /\ circuit[i].state = "Disconnected"  BY DEF Deferred
<1>2. circuit[i] \in Sound /\ circuit[i].node \in Node /\ circuit[i].localKey \in Key /\ i # 0
  BY CircuitIsSound DEF Inv
<1>3. circuit[i].reason = "None"
  BY <1>1, <1>2, LocalEntry DEF Registered, Inv
<1>4. circuit[i].peerKey \in Node \X Key /\ circuit[i].remoteNode \in Node
  BY <1>2 DEF Deferred, Inv, TableInv, Identified, Sound, Circuit
<1> QED  BY <1>1, <1>2, <1>3, <1>4

\* acceptIncoming preserves the invariant.
LEMMA AcceptIncomingInv ==
    ASSUME Inv, NEW i \in DOMAIN circuit, AcceptIncoming(i) PROVE Inv'
<1> DEFINE w == Clamp(WindowSize[circuit[i].remoteNode], 1, MaxWindow)
           c == AcceptInbound(circuit[i], circuit[i].peerKey[2], w)
<1>1. Deferred(i) /\ LocalStep(i, c)  BY DEF AcceptIncoming
<1>2. /\ Registered(i) /\ circuit[i] \in Sound
      /\ circuit[i].state = "Disconnected" /\ circuit[i].reason = "None"
      /\ circuit[i].peerKey[2] \in Key /\ circuit[i].remoteNode \in Node
  BY <1>1, DeferredFacts
<1>3. w \in Nat
  <2>1. WindowSize[circuit[i].remoteNode] \in Nat  BY <1>2, NetworkAssumption
  <2> QED  BY <2>1, HorizonFacts DEF Clamp
<1> HIDE DEF w
<1>4. c \in Evolutions(circuit[i])  BY <1>2, <1>3, AcceptInboundType
<1> HIDE DEF c
<1> QED  BY <1>1, <1>2, <1>4, LocalStepInv

\* refuseIncoming preserves the invariant.
LEMMA RefuseIncomingInv ==
    ASSUME Inv, NEW i \in DOMAIN circuit, RefuseIncoming(i) PROVE Inv'
<1> DEFINE c == [RefuseInbound(circuit[i], circuit[i].peerKey[2]) EXCEPT !.reason = "Refused"]
<1>1. Deferred(i) /\ LocalStep(i, c)  BY DEF RefuseIncoming
<1>2. /\ Registered(i) /\ circuit[i] \in Sound
      /\ circuit[i].state = "Disconnected" /\ circuit[i].peerKey[2] \in Key
  BY <1>1, DeferredFacts
<1>3. c \in Evolutions(circuit[i])  BY <1>2, RefuseInboundType
<1> HIDE DEF c
<1> QED  BY <1>1, <1>2, <1>3, LocalStepInv

\* A timer tick preserves the invariant.
LEMMA TickCircuitInv ==
    ASSUME Inv, NEW i \in DOMAIN circuit, TickCircuit(i) PROVE Inv'
<1>1. TimerRunning(circuit[i]) /\ LocalStep(i, Tick(circuit[i]))  BY DEF TickCircuit
<1>2. circuit[i] \in Sound  BY SoundCircuit
<1>3. Tick(circuit[i]) \in Evolutions(circuit[i])  BY <1>1, <1>2, TickType
<1>4. circuit[i].state # "Disconnected"
  BY <1>1, <1>2 DEF TimerRunning, Sound, EndIsSound
<1>5. Registered(i)  BY <1>4, LiveIsFound
<1> QED  BY <1>1, <1>3, <1>5, LocalStepInv

\* What openCircuit constructs.
LEMMA OpenedType ==
    ASSUME NEW n \in Node, NEW m \in Node, NEW k \in Key, NEW w \in Nat, NEW inc \in Nat
    PROVE  LET b == NewCircuit(n, m, k, NoPeerKey, w, inc, 0)
           IN  /\ b \in Sound /\ b.state = "Disconnected" /\ b.reason = "None"
               /\ b.node = n /\ b.localKey = k /\ b.peerKey = NoPeerKey /\ b.inc = inc
               /\ b.mintedFor = 0
<1>1. NoPeerKey \in (Node \X Key) \cup {NoPeerKey} /\ 0 \in Nat  OBVIOUS
<1> QED  BY SMTT(60), <1>1, NewCircuitType

\* openCircuit preserves the invariant.
LEMMA OpenCircuitInv ==
    ASSUME Inv, NEW n \in Node, NEW m \in Node, OpenCircuit(n, m) PROVE Inv'
<1> DEFINE k == AllocateKey(n)
           L == Len(circuit) + 1
           b == NewCircuit(n, m, k, NoPeerKey, WindowSize[n], L, 0)
           c == Connect(b)
<1>1. /\ FreeKeys(n) # {}
      /\ circuit' = Append(circuit, AtRest(c))
      /\ byLocalKey' = [byLocalKey EXCEPT ![n][k] = L]
      /\ nextKey' = [nextKey EXCEPT ![n] = (k + 1) % NumKeys]
      /\ Ship(n, m, c.out)
      /\ UNCHANGED byPeerKey
  BY DEF OpenCircuit
<1>2. TableInv /\ NetTypes  BY DEF Inv
<1>3. k \in Key /\ byLocalKey[n][k] = 0  BY <1>1, <1>2, AllocateKeyType
<1>4. L \in Nat /\ L # 0  BY <1>2, TableFacts
<1> HIDE DEF k, L
<1>5. /\ b \in Sound /\ b.state = "Disconnected" /\ b.reason = "None"
      /\ b.node = n /\ b.localKey = k /\ b.peerKey = NoPeerKey /\ b.inc = L
      /\ b.mintedFor = 0
  <2>1. WindowSize[n] \in Nat  BY NetworkAssumption
  <2>2. k \in Key /\ L \in Nat  BY <1>3, <1>4
  <2> QED  BY <2>1, <2>2, OpenedType
<1>6. c.reason = "None"
  <2>1. b \in Circuit  BY <1>5 DEF Sound
  <2> HIDE DEF b
  <2>2. SendConnectRequest(b).reason = "None" /\ SendConnectRequest(b) \in Circuit
    BY <1>5, <2>1, SendConnectRequestType, EmissionKeepsState, Transitivity
    DEF SameState, Sound
  <2> QED  BY <1>5, <2>2 DEF Connect, Circuit
<1> HIDE DEF b
<1>7. c \in Evolutions(b)  BY <1>5, ConnectType
<1> HIDE DEF c
<1>8. /\ c \in Sound /\ c.node = n /\ c.localKey = k /\ c.peerKey = NoPeerKey
      /\ c.inc = L /\ c.mintedFor = 0
  BY <1>5, <1>7, Transitivity DEF Evolutions, SameIdentity
<1>9. Fresh(c)  BY <1>8 DEF Fresh, L
<1>10. nextKey' \in [Node -> Key]
  <2>1. nextKey \in [Node -> Key]  BY <1>2, TableFacts
  <2>2. (k + 1) % NumKeys \in Key  BY <1>3, NextKeyType
  <2> QED  BY <1>1, <2>1, <2>2
<1>11. RegisterStep(c, L)  BY <1>1, <1>8, <1>10 DEF RegisterStep
<1>12. TableInv'
  <2>1. L = Len(circuit) + 1  BY DEF L
  <2> QED  BY <1>2, <1>3, <1>6, <1>8, <1>9, <1>11, <2>1, RegisterInv
<1>13. NetTypes'  BY <1>1, <1>2, <1>8, AtRestType, ShipType
<1> QED  BY <1>12, <1>13 DEF Inv

Minted(b, n, m, k, p, L) ==
    /\ b \in Sound /\ b.state = "Disconnected" /\ b.reason = "None"
    /\ b.node = n /\ b.localKey = k /\ b.peerKey = <<m, p.key>> /\ b.inc = L

\* What mintInbound constructs.
LEMMA MintedType ==
    \A n, m \in Node, k \in Key, p \in Packet, L \in Nat :
       Minted(NewCircuit(n, m, k, <<m, p.key>>, WindowSize[n], L, p.inc), n, m, k, p, L)
<1> SUFFICES ASSUME NEW n \in Node, NEW m \in Node, NEW k \in Key, NEW p \in Packet,
                    NEW L \in Nat
             PROVE  Minted(NewCircuit(n, m, k, <<m, p.key>>, WindowSize[n], L, p.inc),
                           n, m, k, p, L)
  OBVIOUS
<1> DEFINE b == NewCircuit(n, m, k, <<m, p.key>>, WindowSize[n], L, p.inc)
<1>1. p.key \in Key /\ p.inc \in Nat  BY PacketFields
<1>2. WindowSize[n] \in Nat  BY NetworkAssumption
<1>3. b \in Circuit
  BY <1>1, <1>2, ZeroIsKeyAndSeqno DEF NewCircuit, Circuit, State, Reason
<1>4. EndIsSound(b)  BY DEF NewCircuit, EndIsSound
<1>5. /\ b.state = "Disconnected" /\ b.reason = "None"
      /\ b.node = n /\ b.localKey = k /\ b.peerKey = <<m, p.key>> /\ b.inc = L
  BY DEF NewCircuit
<1> HIDE DEF b
<1>6. Minted(b, n, m, k, p, L)  BY <1>3, <1>4, <1>5 DEF Sound, Minted
<1> QED  BY <1>6 DEF b

\* The listener's answer to a minted circuit: accept, refuse or defer.
LEMMA AnsweredType ==
    ASSUME NEW c \in Sound, c.state = "Disconnected", c.reason = "None",
           NEW p \in Packet, NEW disposition \in {"accept", "refuse", "defer"}
    PROVE  Answered(c, p, disposition) \in Evolutions(c)
<1>1. p.key \in Key /\ p.win \in Nat  BY PacketFields
<1>2. AcceptInbound(c, p.key, p.win) \in Evolutions(c)  BY <1>1, AcceptInboundType
<1>3. [RefuseInbound(c, p.key) EXCEPT !.reason = "Refused"] \in Evolutions(c)
  BY <1>1, RefuseInboundType
<1>4. c \in Evolutions(c)  BY Reflexivity, Transitivity
<1> QED  BY <1>2, <1>3, <1>4 DEF Answered

\* mintInbound preserves the invariant, whatever the listener answers.
LEMMA MintInboundInv ==
    ASSUME Inv, NEW n \in Node, NEW from \in Node, <<from, n>> \in Link,
           NEW i \in DOMAIN net[<<from, n>>], NEW p \in Packet,
           NEW disposition \in {"accept", "refuse", "defer"},
           byPeerKey[n][<<from, p.key>>] = 0, FreeKeys(n) # {},
           MintInbound(n, from, i, p, disposition)
    PROVE  Inv'
<1> DEFINE k == AllocateKey(n)
           L == Len(circuit) + 1
           b == NewCircuit(n, from, k, <<from, p.key>>, WindowSize[n], L, p.inc)
           c == Answered(b, p, disposition)
<1>1. /\ circuit' = Append(circuit, AtRest(c))
      /\ IF c.reason # "None" THEN UNCHANGED <<byLocalKey, byPeerKey>>
         ELSE /\ byLocalKey' = [byLocalKey EXCEPT ![n][k] = L]
              /\ byPeerKey' = [byPeerKey EXCEPT ![n][c.peerKey] = L]
      /\ nextKey' = [nextKey EXCEPT ![n] = (k + 1) % NumKeys]
      /\ Exchange(from, n, i, from, c.out)
  <2>1. PICK k0 \in {k}, j0 \in {L} :
          \E c0 \in {Answered(NewCircuit(n, from, k0, <<from, p.key>>, WindowSize[n], j0, p.inc),
                              p, disposition)} :
            /\ circuit' = Append(circuit, AtRest(c0))
            /\ IF c0.reason # "None" THEN UNCHANGED <<byLocalKey, byPeerKey>>
               ELSE /\ byLocalKey' = [byLocalKey EXCEPT ![n][k0] = j0]
                    /\ byPeerKey' = [byPeerKey EXCEPT ![n][c0.peerKey] = j0]
            /\ nextKey' = [nextKey EXCEPT ![n] = (k0 + 1) % NumKeys]
            /\ Exchange(from, n, i, from, c0.out)
    BY Zenon DEF MintInbound
  <2>2. k0 = k /\ j0 = L  OBVIOUS
  <2> HIDE DEF k, L
  <2> QED  BY Zenon, <2>1, <2>2
<1>2. TableInv /\ NetTypes  BY DEF Inv
<1>3. k \in Key /\ byLocalKey[n][k] = 0  BY <1>2, AllocateKeyType
<1>4. L \in Nat /\ L # 0  BY <1>2, TableFacts
<1>5. p \in Packet /\ p.key \in Key /\ p.inc \in Nat  BY PacketFields
<1> HIDE DEF k, L
<1>6. /\ b \in Sound /\ b.state = "Disconnected" /\ b.reason = "None"
      /\ b.node = n /\ b.localKey = k /\ b.peerKey = <<from, p.key>> /\ b.inc = L
  <2>1. Minted(b, n, from, k, p, L)  BY Zenon, <1>3, <1>4, <1>5, MintedType
  <2> HIDE DEF b
  <2> QED  BY <2>1 DEF Minted
<1> HIDE DEF b
<1>7. c \in Evolutions(b)  BY <1>5, <1>6, AnsweredType
<1> HIDE DEF c
<1>8. /\ c \in Sound /\ c.node = n /\ c.localKey = k /\ c.peerKey = <<from, p.key>>
      /\ c.inc = L
  BY <1>6, <1>7, Transitivity DEF Evolutions, SameIdentity
<1>9. c.peerKey \in Node \X Key /\ c.peerKey # NoPeerKey
  BY <1>5, <1>8, PeerKeysDiffer
<1>10. Fresh(c)  BY <1>8, <1>9 DEF Fresh, L
<1>11. nextKey' \in [Node -> Key]
  <2>1. nextKey \in [Node -> Key]  BY <1>2, TableFacts
  <2>2. (k + 1) % NumKeys \in Key  BY <1>3, NextKeyType
  <2> QED  BY <1>1, <2>1, <2>2
<1>12. TableInv'
  <2>1. CASE c.reason # "None"
    BY <1>1, <1>2, <1>10, <1>11, <2>1, AppendClosedInv
  <2>2. CASE c.reason = "None"
    <3>1. RegisterStep(c, L)  BY <1>1, <1>8, <1>9, <1>11, <2>2 DEF RegisterStep
    <3>2. L = Len(circuit) + 1  BY DEF L
    <3> QED  BY <1>2, <1>3, <1>8, <1>10, <2>2, <3>1, <3>2, RegisterInv
  <2> QED  BY <2>1, <2>2
<1>13. NetTypes'
  <2>1. c.out \in Seq(Packet)  BY <1>8, AtRestType
  <2> QED  BY <1>1, <1>2, <2>1, ExchangeType
<1> QED  BY <1>12, <1>13 DEF Inv

\* A packet routed to a registered circuit preserves the invariant.
LEMMA HandleInv ==
    ASSUME Inv, NEW n \in Node, NEW from \in Node, <<from, n>> \in Link,
           NEW i \in DOMAIN net[<<from, n>>], NEW p, p = net[<<from, n>>][i],
           NEW j \in DOMAIN circuit, Registered(j), NEW reaction \in Reaction,
           Handle(n, from, i, p, j, reaction)
    PROVE  Inv'
<1> DEFINE c == OnPacket(circuit[j], p, reaction)
<1>1. Update(j, c) /\ Exchange(from, n, i, c.remoteNode, c.out) /\ UNCHANGED nextKey
  BY DEF Handle
<1>2. p \in Packet
  <2>1. net[<<from, n>>] \in Seq(Packet)  BY DEF Inv, NetTypes
  <2> QED  BY <2>1
<1>3. c \in Evolutions(circuit[j])  BY <1>2, SoundCircuit, OnPacketType
<1> HIDE DEF c
<1>4. TableInv'  BY <1>1, <1>3, UpdateInv DEF Inv
<1>5. c.out \in Seq(Packet)  BY <1>3, AtRestType, Transitivity
<1>6. NetTypes'  BY <1>1, <1>5, ExchangeType DEF Inv
<1> QED  BY <1>4, <1>6 DEF Inv

\* A step that leaves the tables alone preserves what is said of them.
LEMMA TablesStay ==
    ASSUME Inv, UNCHANGED tables, NetTypes' PROVE Inv'
<1>1. UNCHANGED <<circuit, byLocalKey, byPeerKey, nextKey>>  BY DEF tables
<1>2. TableTypes'  BY <1>1 DEF Inv, TableInv, TableTypes
<1>3. EndsAreSound' /\ Identified'
  BY <1>1 DEF Inv, TableInv, EndsAreSound, Identified
<1>4. TablesAgree'  BY <1>1 DEF Inv, TableInv, TablesAgree
<1>5. LiveIsRegistered'  BY <1>1 DEF Inv, TableInv, LiveIsRegistered, Registered
<1> QED  BY <1>2, <1>3, <1>4, <1>5 DEF Inv, TableInv

\* A packet answered without any circuit preserves the invariant.
LEMMA AnswerInv ==
    ASSUME Inv, NEW n \in Node, NEW from \in Node, <<from, n>> \in Link,
           NEW i \in DOMAIN net[<<from, n>>], NEW ps \in Seq(Packet), Answer(n, from, i, ps)
    PROVE  Inv'
<1>1. Exchange(from, n, i, from, ps) /\ UNCHANGED tables  BY DEF Answer
<1>2. NetTypes'  BY <1>1, ExchangeType DEF Inv
<1> QED  BY <1>1, <1>2, TablesStay

\* The receipt of any deliverable packet preserves the invariant: the
\* manager's onPacket, branch by branch.
LEMMA ReceiveInv ==
    ASSUME Inv, NEW from \in Node, NEW n \in Node, <<from, n>> \in Link, Receive(from, n)
    PROVE  Inv'
<1>1. PICK i \in Deliverable(<<from, n>>) :
          \/ \E d \in {"accept", "refuse", "defer"} : ReceiveConnectRequest(from, n, i, d)
          \/ \E r \in Reactions : ReceiveOther(from, n, i, r)
  BY DEF Receive
<1> DEFINE p == net[<<from, n>>][i]
<1>2. net[<<from, n>>] \in Seq(Packet)  BY DEF Inv, NetTypes
<1>3. i \in DOMAIN net[<<from, n>>]
  <2>1. Len(net[<<from, n>>]) \in Nat /\ ReorderDepth \in Nat
    BY <1>2, NetworkAssumption
  <2>2. i \in 1 .. Len(net[<<from, n>>])
    BY <1>1, <2>1 DEF Deliverable, Lesser
  <2> QED  BY <1>2, <2>2
<1>4. p \in Packet  BY <1>2, <1>3
<1>5. p.key \in Key /\ p.inc \in Nat  BY <1>4, PacketFields
<1> HIDE DEF p
<1>6. CASE \E d \in {"accept", "refuse", "defer"} : ReceiveConnectRequest(from, n, i, d)
  <2>1. PICK d \in {"accept", "refuse", "defer"} : ReceiveConnectRequest(from, n, i, d)
    BY <1>6
  <2> DEFINE j == byPeerKey[n][<<from, p.key>>]
  <2>2. \/ j # 0 /\ Handle(n, from, i, p, j, "drain")
        \/ j = 0 /\ FreeKeys(n) = {} /\ Drop(n, from, i)
        \/ j = 0 /\ FreeKeys(n) # {} /\ MintInbound(n, from, i, p, d)
    BY <2>1 DEF ReceiveConnectRequest, p
  <2>3. ASSUME j # 0, Handle(n, from, i, p, j, "drain") PROVE Inv'
    <3>1. <<from, p.key>> \in Node \X Key  BY <1>5
    <3> HIDE DEF j
    <3>2. /\ j \in DOMAIN circuit /\ circuit[j].peerKey = <<from, p.key>>
          /\ byLocalKey[n][circuit[j].localKey] = j
      BY <2>3, <3>1, PeerEntry DEF Inv, j
    <3>3. circuit[j].localKey \in Key  BY <3>2, CircuitIsSound DEF Inv
    <3>4. circuit[j].node = n  BY <2>3, <3>2, <3>3, LocalEntry DEF Inv
    <3>5. Registered(j)  BY <3>2, <3>4 DEF Registered
    <3>6. "drain" \in Reaction /\ p = net[<<from, n>>][i]  BY DEF Reaction, p
    <3> QED  BY <1>3, <2>3, <3>2, <3>5, <3>6, HandleInv
  <2>4. ASSUME Drop(n, from, i) PROVE Inv'
    <3>1. <<>> \in Seq(Packet)  OBVIOUS
    <3> QED  BY <1>3, <2>4, <3>1, AnswerInv DEF Drop
  <2>5. ASSUME j = 0, FreeKeys(n) # {}, MintInbound(n, from, i, p, d) PROVE Inv'
    BY <1>3, <1>4, <2>1, <2>5, MintInboundInv
  <2> QED  BY <2>2, <2>3, <2>4, <2>5
<1>7. CASE \E r \in Reactions : ReceiveOther(from, n, i, r)
  <2>1. PICK r \in Reactions : ReceiveOther(from, n, i, r)  BY <1>7
  <2> DEFINE j == byLocalKey[n][p.key]
  <2>2. \/ j # 0 /\ Handle(n, from, i, p, j, r)
        \/ Reflect(n, from, i, p)
    BY <2>1 DEF ReceiveOther, p
  <2>3. ASSUME j # 0, Handle(n, from, i, p, j, r) PROVE Inv'
    <3> HIDE DEF j
    <3>1. /\ j \in DOMAIN circuit /\ circuit[j].node = n /\ circuit[j].localKey = p.key
      BY <1>5, <2>3, LocalEntry DEF Inv, j
    <3>2. Registered(j)  BY <3>1 DEF Registered, j
    <3>3. r \in Reaction /\ p = net[<<from, n>>][i]
      BY NetworkAssumption DEF Reaction, p
    <3> QED  BY <1>3, <2>3, <3>1, <3>2, <3>3, HandleInv
  <2>4. ASSUME Reflect(n, from, i, p) PROVE Inv'
    <3> DEFINE ps == IF p.op # "DisconnectRequest" THEN <<>>
                     ELSE <<Blank("DisconnectAcknowledge", p.key, p.inc)>>
    <3>1. Blank("DisconnectAcknowledge", p.key, p.inc) \in Packet
      BY <1>5, BlankType DEF Opcode
    <3>2. ps \in Seq(Packet)  BY <3>1
    <3>3. Answer(n, from, i, ps)  BY <2>4 DEF Reflect
    <3> HIDE DEF ps
    <3> QED  BY <1>3, <3>2, <3>3, AnswerInv
  <2> QED  BY <2>2, <2>3, <2>4
<1> QED  BY <1>1, <1>6, <1>7

\* The loss of a packet preserves the invariant.
LEMMA LoseInv ==
    ASSUME Inv, NEW l \in Link, Lose(l) PROVE Inv'
<1>1. /\ lossesLeft # 0 /\ net[l] # <<>>
      /\ net' = [net EXCEPT ![l] = Tail(net[l])]
      /\ lossesLeft' = IF lossesLeft = Unlimited THEN Unlimited ELSE lossesLeft - 1
      /\ UNCHANGED tables
  BY DEF Lose
<1>2. net \in [Link -> Seq(Packet)] /\ lossesLeft \in Nat \cup {Unlimited}
  BY DEF Inv, NetTypes
<1>3. Tail(net[l]) \in Seq(Packet)
  <2>1. net[l] \in Seq(Packet) /\ net[l] # <<>>  BY <1>1, <1>2
  <2> QED  BY <2>1
<1>4. net' \in [Link -> Seq(Packet)]  BY <1>1, <1>2, <1>3
<1>5. lossesLeft' \in Nat \cup {Unlimited}  BY <1>1, <1>2 DEF Unlimited
<1> QED  BY <1>1, <1>4, <1>5, TablesStay DEF NetTypes

\* Nothing changes, nothing breaks.
LEMMA StutterInv == ASSUME Inv, UNCHANGED vars PROVE Inv'
BY TablesStay DEF vars, tables, Inv, NetTypes

\* Every step preserves the invariant, action by action.
LEMMA NextInv == ASSUME Inv, [Next]_vars PROVE Inv'
<1>1. ASSUME NEW l \in Link, OpenCircuit(l[1], l[2]) PROVE Inv'
  BY <1>1, OpenCircuitInv DEF Link
<1>2. ASSUME NEW l \in Link, Receive(l[1], l[2]) PROVE Inv'
  <2>1. l[1] \in Node /\ l[2] \in Node /\ <<l[1], l[2]>> \in Link  BY DEF Link
  <2> QED  BY <1>2, <2>1, ReceiveInv
<1>3. ASSUME NEW l \in Link, Lose(l) PROVE Inv'
  BY <1>3, LoseInv
<1>4. ASSUME NEW i \in DOMAIN circuit, AppStep(i) PROVE Inv'
  BY <1>4, AppSendInv, AppDisconnectInv, AppDrainInv, AcceptIncomingInv, RefuseIncomingInv
  DEF AppStep
<1>5. ASSUME NEW i \in DOMAIN circuit, TickCircuit(i) PROVE Inv'
  BY <1>5, TickCircuitInv
<1>6. CASE UNCHANGED vars  BY <1>6, StutterInv
<1> QED  BY <1>1, <1>2, <1>3, <1>4, <1>5, <1>6 DEF Next

\* The inductive invariant holds in every reachable state, for any number of
\* nodes, keys, window sizes, losses and any reordering.
THEOREM Invariance == Spec => []Inv
<1>1. Init => Inv  BY InitInv
<1>2. Inv /\ [Next]_vars => Inv'  BY NextInv
<1> QED  BY <1>1, <1>2, PTL DEF Spec

\* Every circuit field, table and packet keeps its type: in particular V(s),
\* V(r) and V(a) stay in the sequence space and no queue entry is malformed.
THEOREM TypeCorrect == Spec => []TypeOK
<1>1. Inv => TypeOK  BY TypeParts DEF Inv, TableInv
<1> QED  BY <1>1, Invariance, PTL

\* circuit.ts: the control timer is armed exactly while a Connect or Disconnect
\* is unanswered, a closed or connecting end holds no data, and what is in
\* flight stays within the window, through every handler, reaction of the
\* application and timer tick.
THEOREM EndsStaySound == Spec => []EndsAreSound
<1>1. Inv => EndsAreSound  BY DEF Inv, TableInv
<1> QED  BY <1>1, Invariance, PTL

\* circuit-manager.ts: byLocalKey and byPeerKey name only circuits that carry
\* those very keys, so a datagram is never routed to a circuit it does not
\* belong to by a stale entry, however keys are reused.
THEOREM TablesStayInAgreement == Spec => []TablesAgree
<1>1. Inv => TablesAgree  BY DEF Inv, TableInv
<1> QED  BY <1>1, Invariance, PTL

\* circuit-manager.ts: a circuit that is not closed is found under its own
\* local key, so a late close never deregisters its successor on that key.
THEOREM LiveStaysRegistered == Spec => []LiveIsRegistered
<1>1. Inv => LiveIsRegistered  BY DEF Inv, TableInv
<1> QED  BY <1>1, Invariance, PTL

=============================================================================
