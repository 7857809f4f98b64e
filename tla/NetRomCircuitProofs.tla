------------------------ MODULE NetRomCircuitProofs ------------------------
(*****************************************************************************)
(* What every handler of one circuit end preserves, whatever end it is       *)
(* called on: types, the end's identity and EndIsSound.  Each lemma is about *)
(* the operator of NetRomCircuit it names.                                   *)
(*****************************************************************************)
EXTENDS NetRomCircuit, FiniteSetTheorems, WellFoundedInduction, TLAPS

-----------------------------------------------------------------------------
(* Numbers *)

\* Sequence arithmetic stays in the sequence space, also going backwards.
LEMMA NextSeqType ==
    ASSUME NEW s \in Nat, NEW n \in Int PROVE NextSeq(s, n) \in Seqno
<1>1. s + n \in Int  OBVIOUS
<1>2. Modulus \in Nat \ {0}  BY ModulusAssumption
<1> QED  BY <1>1, <1>2 DEF NextSeq, Seqno

\* The window bound is a positive natural.
LEMMA HorizonFacts == Horizon \in Nat /\ MaxWindow \in Nat /\ MaxWindow >= 1
BY ModulusAssumption DEF Horizon, MaxWindow

\* The initial keys and sequence numbers are legal.
LEMMA ZeroIsKeyAndSeqno == 0 \in Key /\ 0 \in Seqno
BY NumKeysAssumption, ModulusAssumption DEF Key, Seqno

\* Concatenation preserves the element type.
LEMMA CatType == ASSUME NEW S, NEW a \in Seq(S), NEW b \in Seq(S) PROVE a \o b \in Seq(S)
OBVIOUS

\* A non-empty set of naturals has a least element.
LEMMA NatMinimum ==
    ASSUME NEW T \in SUBSET Nat, T # {} PROVE \E x \in T : \A y \in T : x <= y
<1> DEFINE R == {ss \in Nat \X Nat : ss[1] < ss[2]}
<1>1. IsWellFoundedOn(R, Nat)
  <2>1. OpToRel(<, Nat) = R  BY DEF OpToRel
  <2> QED  BY <2>1, NatLessThanWellFounded
<1>2. \A x, y \in Nat : y < x => <<y, x>> \in R  OBVIOUS
<1> HIDE DEF R
<1>3. \E x \in T : \A y \in T : ~(<<y, x>> \in R)  BY <1>1, WFMin, Zenon
<1>4. \A x, y \in Nat : ~(y < x) => x <= y  OBVIOUS
<1> QED  BY <1>2, <1>3, <1>4, Zenon

-----------------------------------------------------------------------------
(* What the handlers leave alone *)

SameIdentity(c, d) ==
    /\ d.node = c.node /\ d.remoteNode = c.remoteNode /\ d.localKey = c.localKey
    /\ d.peerKey = c.peerKey /\ d.inc = c.inc /\ d.mintedFor = c.mintedFor
    /\ d.windowSize = c.windowSize

Sound == {c \in Circuit : EndIsSound(c)}

\* What a circuit may become while it runs.
Evolutions(c) == {d \in Sound : SameIdentity(c, d)}

\* What it may become in the state it is in.
SameState(c) ==
    {d \in Evolutions(c) : /\ d.state = c.state /\ d.reason = c.reason
                           /\ d.armed = c.armed /\ d.window = c.window}

IsAck(p) == p.op \in {"Information", "InformationAcknowledge"}

\* The peer's key stays, and what joins the packets to send is data and its
\* acknowledgements.
Chats(c, d) ==
    /\ d.remoteKey = c.remoteKey
    /\ \A k \in DOMAIN d.out : \/ IsAck(d.out[k])
                               \/ \E j \in DOMAIN c.out : d.out[k] = c.out[j]

\* What data, acknowledgements and choke may make of it.
DataSteps(c) == {d \in SameState(c) : Chats(c, d)}

\* Handlers compose: what two steps in a row keep, the whole handler keeps.
LEMMA Transitivity ==
    ASSUME NEW c, NEW d, NEW e
    PROVE  /\ d \in Evolutions(c) /\ e \in Evolutions(d) => e \in Evolutions(c)
           /\ d \in DataSteps(c) /\ e \in DataSteps(d) => e \in DataSteps(c)
           /\ d \in DataSteps(c) => d \in SameState(c)
           /\ d \in SameState(c) => d \in Evolutions(c) /\ d \in Sound
           /\ d \in DataSteps(c) => d \in Evolutions(c) /\ d \in Sound
           /\ d \in Evolutions(c) => d \in Sound
<1>1. Chats(c, d) /\ Chats(d, e) => Chats(c, e)  BY DEF Chats
<1>2. d \in SameState(c) /\ e \in SameState(d) => e \in SameState(c)
  BY DEF Evolutions, SameState, SameIdentity
<1>3. d \in Evolutions(c) /\ e \in Evolutions(d) => e \in Evolutions(c)
  BY DEF Evolutions, SameIdentity
<1> QED  BY <1>1, <1>2, <1>3 DEF Evolutions, SameState, DataSteps

\* A handler that returns early is a data step.
LEMMA Reflexivity == ASSUME NEW c \in Sound PROVE c \in DataSteps(c)
BY DEF Evolutions, SameState, DataSteps, SameIdentity, Chats

-----------------------------------------------------------------------------
(* Emission *)

\* A packet with only its addressing filled in is a packet.
LEMMA BlankType ==
    ASSUME NEW op \in Opcode, NEW key \in Key, NEW inc \in Nat
    PROVE  Blank(op, key, inc) \in Packet
BY ZeroIsKeyAndSeqno DEF Blank, Packet, Body, NoBody

\* emit appends packets to what the handler has to send and nothing else.
LEMMA EmitType ==
    ASSUME NEW c \in Circuit, NEW ps \in Seq(Packet)
    PROVE  /\ Emit(c, ps) \in Circuit
           /\ Emit(c, ps) = [c EXCEPT !.out = Emit(c, ps).out]
<1>1. c.out \o ps \in Seq(Packet)  BY CatType DEF Circuit
<1>2. Emit(c, ps) \in Circuit BY ZenonT(60), <1>1 DEF Emit, Circuit
<1>3. Emit(c, ps).out = c.out \o ps  BY DEF Emit, Circuit
<1> QED  BY <1>2, <1>3 DEF Emit

\* Emitting changes nothing but "out".
Emissions(c) == {d \in Circuit : d = [c EXCEPT !.out = d.out]}

\* Emitting keeps the end sound and its state.
LEMMA EmissionKeepsState ==
    ASSUME NEW c \in Sound, NEW d \in Emissions(c) PROVE d \in SameState(c)
<1>1. c \in Circuit /\ d \in Circuit /\ d = [c EXCEPT !.out = d.out]  BY DEF Sound, Emissions
<1>2. EndIsSound(d)  BY ZenonT(60), <1>1 DEF Circuit, EndIsSound, Sound
<1>3. /\ SameIdentity(c, d) /\ d.state = c.state /\ d.reason = c.reason
      /\ d.armed = c.armed /\ d.window = c.window
  BY ZenonT(60), <1>1 DEF Circuit, SameIdentity
<1> QED  BY <1>1, <1>2, <1>3 DEF SameState, Evolutions, Sound

\* An element of a concatenation is one of either part.
LEMMA CatAt ==
    ASSUME NEW S, NEW a \in Seq(S), NEW b \in Seq(S), NEW k \in DOMAIN (a \o b)
    PROVE  /\ k \in Nat /\ k >= 1
           /\ \/ k \in DOMAIN a /\ k <= Len(a) /\ (a \o b)[k] = a[k]
              \/ /\ k > Len(a) /\ k - Len(a) \in DOMAIN b
                 /\ (a \o b)[k] = b[k - Len(a)]
OBVIOUS

\* Emitting data or its acknowledgements is a data step.
LEMMA EmissionIsDataStep ==
    ASSUME NEW c \in Sound, NEW ps \in Seq(Packet), \A k \in DOMAIN ps : IsAck(ps[k])
    PROVE  Emit(c, ps) \in DataSteps(c)
<1> DEFINE d == Emit(c, ps)
<1>1. c \in Circuit /\ c.out \in Seq(Packet)  BY DEF Sound, Circuit
<1>2. d \in SameState(c)  BY <1>1, EmitType, EmissionKeepsState DEF Emissions
<1>3. d.out = c.out \o ps /\ d.remoteKey = c.remoteKey  BY <1>1 DEF Emit, Circuit
<1>4. \A k \in DOMAIN (c.out \o ps) :
         \/ IsAck((c.out \o ps)[k])
         \/ \E j \in DOMAIN c.out : (c.out \o ps)[k] = c.out[j]
  BY <1>1, CatAt
<1>5. Chats(c, d)  BY <1>3, <1>4 DEF Chats
<1> QED  BY <1>2, <1>5 DEF DataSteps

\* A single well-typed packet may be emitted.
LEMMA EmitOne ==
    ASSUME NEW c \in Circuit, NEW p \in Packet PROVE Emit(c, <<p>>) \in Emissions(c)
<1>1. <<p>> \in Seq(Packet)  OBVIOUS
<1> QED  BY <1>1, EmitType DEF Emissions

\* sendConnectRequest emits one well-typed packet.
LEMMA SendConnectRequestType ==
    ASSUME NEW c \in Circuit PROVE SendConnectRequest(c) \in Emissions(c)
<1> DEFINE b == Blank("ConnectRequest", c.localKey, c.inc)
           w == Clamp(c.windowSize, 1, MaxWindow)
           p == [b EXCEPT !.win = w]
<1> HIDE DEF b, w, p
<1>1. c.localKey \in Key /\ c.inc \in Nat /\ c.windowSize \in Nat  BY DEF Circuit
<1>2. b \in Packet  BY <1>1, BlankType DEF Opcode, b
<1>3. w \in Nat  BY <1>1, HorizonFacts DEF Clamp, w
<1>4. p \in Packet  BY <1>2, <1>3 DEF Packet, p
<1>5. SendConnectRequest(c) = Emit(c, <<p>>)  BY DEF SendConnectRequest, b, w, p
<1> QED  BY <1>4, <1>5, EmitOne

\* sendConnectAcknowledge emits one packet, once the peer's key is known.
LEMMA SendConnectAcknowledgeType ==
    ASSUME NEW c \in Circuit, NEW refused \in BOOLEAN
    PROVE  SendConnectAcknowledge(c, refused) \in Emissions(c)
<1> DEFINE b == Blank("ConnectAcknowledge", c.remoteKey, c.inc)
           w == IF refused THEN 0 ELSE c.window
           p == [b EXCEPT !.own = c.localKey, !.choke = refused, !.win = w]
<1> HIDE DEF b, w, p
<1>1. c.remoteKey \in Key /\ c.localKey \in Key /\ c.inc \in Nat /\ c.window \in Nat
  BY DEF Circuit
<1>2. b \in Packet  BY <1>1, BlankType DEF Opcode, b
<1>3. w \in Nat  BY <1>1 DEF w
<1>4. p \in Packet  BY <1>1, <1>2, <1>3 DEF Packet, p
<1>5. SendConnectAcknowledge(c, refused) = Emit(c, <<p>>)
  BY DEF SendConnectAcknowledge, b, w, p
<1> QED  BY <1>4, <1>5, EmitOne

\* Both disconnect packets are well-typed.
LEMMA SendDisconnectType ==
    ASSUME NEW c \in Circuit, NEW asker \in Nat
    PROVE  /\ SendDisconnectRequest(c) \in Emissions(c)
           /\ SendDisconnectAcknowledge(c, asker) \in Emissions(c)
<1>1. c.remoteKey \in Key /\ c.inc \in Nat  BY DEF Circuit
<1>2. /\ Blank("DisconnectRequest", c.remoteKey, c.inc) \in Packet
      /\ Blank("DisconnectAcknowledge", c.remoteKey, asker) \in Packet
  BY <1>1, BlankType DEF Opcode
<1> QED  BY <1>2, EmitOne DEF SendDisconnectRequest, SendDisconnectAcknowledge

\* sendInformation emits a packet that carries V(r) as its acknowledgement.
LEMMA SendInformationType ==
    ASSUME NEW c \in Sound, NEW us \in Seq(Unacked)
    PROVE  /\ SendInformation(c, us) \in Emissions(c)
           /\ SendInformation(c, us) \in DataSteps(c)
<1> DEFINE ps == [i \in DOMAIN us |-> InformationOf(c, us[i])]
<1>0. c \in Circuit  BY DEF Sound
<1>1. ASSUME NEW u \in Unacked PROVE InformationOf(c, u) \in Packet
  <2> DEFINE b == Blank("Information", c.remoteKey, c.inc)
  <2> HIDE DEF b
  <2>1. c.remoteKey \in Key /\ c.inc \in Nat /\ c.vr \in Seqno /\ c.localChoked \in BOOLEAN
    BY <1>0 DEF Circuit
  <2>2. b \in Packet  BY <2>1, BlankType DEF Opcode, b
  <2>3. u.seq \in Seqno /\ u.body \in Body /\ u.more \in BOOLEAN  BY DEF Unacked
  <2>4. [b EXCEPT !.tx = u.seq, !.rx = c.vr, !.more = u.more, !.body = u.body,
                  !.choke = c.localChoked] \in Packet
    BY <2>1, <2>2, <2>3 DEF Packet
  <2> QED  BY <2>4 DEF InformationOf, b
<1>2. \A i \in DOMAIN us : us[i] \in Unacked  OBVIOUS
<1>3. \A i \in DOMAIN us : InformationOf(c, us[i]) \in Packet  BY <1>1, <1>2
<1>4. ps \in Seq(Packet)  BY <1>3
<1>5. SendInformation(c, us) = Emit(c, ps)  BY DEF SendInformation
<1>6. \A k \in DOMAIN ps : IsAck(ps[k])  BY DEF InformationOf, Blank, IsAck
<1> HIDE DEF ps
<1>7. SendInformation(c, us) \in Emissions(c)  BY <1>0, <1>4, <1>5, EmitType DEF Emissions
<1> QED  BY <1>4, <1>5, <1>6, <1>7, EmissionIsDataStep

\* sendInformationAcknowledge emits V(r) and the choke and NAK flags.
LEMMA SendInformationAcknowledgeType ==
    ASSUME NEW c \in Sound, NEW nak \in BOOLEAN
    PROVE  /\ SendInformationAcknowledge(c, nak) \in Emissions(c)
           /\ SendInformationAcknowledge(c, nak) \in DataSteps(c)
<1> DEFINE b == Blank("InformationAcknowledge", c.remoteKey, c.inc)
           p == [b EXCEPT !.rx = c.vr, !.nak = nak, !.choke = c.localChoked]
<1> HIDE DEF b, p
<1>1. c.remoteKey \in Key /\ c.inc \in Nat /\ c.vr \in Seqno /\ c.localChoked \in BOOLEAN
  BY DEF Sound, Circuit
<1>2. b \in Packet  BY <1>1, BlankType DEF Opcode, b
<1>3. p \in Packet  BY <1>1, <1>2 DEF Packet, p
<1>4. SendInformationAcknowledge(c, nak) = Emit(c, <<p>>)
  BY DEF SendInformationAcknowledge, b, p
<1>5. p.op = "InformationAcknowledge"
  <2>1. b.op = "InformationAcknowledge"  BY DEF b, Blank
  <2> QED  BY <1>2, <2>1 DEF p, Packet
<1>6. <<p>> \in Seq(Packet) /\ \A k \in DOMAIN <<p>> : IsAck(<<p>>[k])
  BY <1>3, <1>5 DEF IsAck
<1>7. c \in Circuit  BY DEF Sound
<1> QED  BY <1>3, <1>4, <1>6, <1>7, EmitOne, EmissionIsDataStep

-----------------------------------------------------------------------------
(* Filtering a sequence *)

\* Induction over the naturals, in the form the provers can use: a set that
\* holds 0 and is closed under successor holds them all.
LEMMA NatSetInduction ==
    ASSUME NEW S, 0 \in S, \A n \in Nat : n \in S => n + 1 \in S
    PROVE  Nat \subseteq S
<1> SUFFICES ASSUME Nat \ S # {} PROVE FALSE  OBVIOUS
<1>1. PICK x \in Nat \ S : \A y \in Nat \ S : x <= y  BY NatMinimum
<1>2. x # 0  OBVIOUS
<1>3. x - 1 \in Nat /\ x - 1 \in S  BY <1>1, <1>2
<1> QED  BY <1>1, <1>3

Increasing(I) ==
    {f \in [1 .. Cardinality(I) -> I] :
        \A i, j \in 1 .. Cardinality(I) : i < j => f[i] < f[j]}

\* The positions in I can be listed in order.
LEMMA IncreasingExists ==
    ASSUME NEW n \in Nat, NEW I \in SUBSET (1 .. n)
    PROVE  Increasing(I) # {}
<1> DEFINE S == {m \in Nat : \A J \in SUBSET (1 .. m) : Increasing(J) # {}}
<1>1. 0 \in S
  <2>1. SUFFICES ASSUME NEW J \in SUBSET (1 .. 0) PROVE Increasing(J) # {}  OBVIOUS
  <2>3. 1 .. 0 = {}  OBVIOUS
  <2>2. J = {} /\ Cardinality(J) = 0
    <3>1. J = {}  BY <2>3
    <3> QED  BY <3>1, FS_EmptySet, Zenon
  <2>4. [i \in {} |-> 0] \in [1 .. Cardinality(J) -> J]  BY <2>2, <2>3
  <2> QED  BY <2>2, <2>3, <2>4 DEF Increasing
<1>2. ASSUME NEW m \in S PROVE m + 1 \in S
  <2>0. m \in Nat  OBVIOUS
  <2>1. SUFFICES ASSUME NEW J \in SUBSET (1 .. m + 1) PROVE Increasing(J) # {}  OBVIOUS
  <2>2. CASE m + 1 \notin J
    BY <2>2, J \in SUBSET (1 .. m)
  <2>3. CASE m + 1 \in J
    <3> DEFINE K == J \ {m + 1}
               k == Cardinality(K)
    <3>1. K \in SUBSET (1 .. m)  OBVIOUS
    <3>2. IsFiniteSet(K)  BY <3>1, FS_Interval, FS_Subset, 1 \in Int, m \in Int
    <3>3. k \in Nat /\ Cardinality(J) = k + 1
      <4>1. J = K \cup {m + 1}  BY <2>3
      <4> QED  BY <3>2, <4>1, FS_AddElement, FS_CardinalityType
    <3>4. PICK f \in Increasing(K) : TRUE  BY <3>1
    <3> DEFINE g == [i \in 1 .. k + 1 |-> IF i = k + 1 THEN m + 1 ELSE f[i]]
    <3>5. f \in [1 .. k -> K] /\ \A i, j \in 1 .. k : i < j => f[i] < f[j]
      BY <3>4 DEF Increasing
    <3> HIDE DEF k
    <3>6. g \in [1 .. k + 1 -> J]
      <4> SUFFICES ASSUME NEW i \in 1 .. k + 1 PROVE g[i] \in J  OBVIOUS
      <4> QED  BY <2>3, <3>3, <3>5
    <3>7. ASSUME NEW i \in 1 .. k + 1, NEW j \in 1 .. k + 1, i < j PROVE g[i] < g[j]
      <4> HIDE DEF g, K, S
      <4>1. i \in 1 .. k  BY <3>3, <3>7
      <4>4. f[i] \in K  BY <3>5, <4>1
      <4>5. f[i] \in 1 .. m  BY <3>1, <4>4
      <4>6. g[i] = f[i]  BY <3>3, <4>1 DEF g
      <4>7. g[j] = IF j = k + 1 THEN m + 1 ELSE f[j]  BY <3>3 DEF g
      <4>2. CASE j = k + 1  BY <2>0, <4>2, <4>5, <4>6, <4>7
      <4>3. CASE j # k + 1  BY <3>3, <3>5, <3>7, <4>1, <4>3, <4>6, <4>7
      <4> QED  BY <4>2, <4>3
    <3> QED  BY <3>3, <3>6, <3>7 DEF Increasing
  <2> QED  BY <2>2, <2>3
<1> HIDE DEF S
<1>3. Nat \subseteq S  BY <1>1, <1>2, NatSetInduction
<1>4. n \in S  BY <1>3
<1> QED  BY <1>4 DEF S

\* Picking the elements at given positions gives a sequence of the same elements.
LEMMA PickType ==
    ASSUME NEW S, NEW q \in Seq(S), NEW I \in SUBSET DOMAIN q
    PROVE  Pick(q, I) \in Seq(S) /\ Len(Pick(q, I)) \in Nat /\ Len(Pick(q, I)) <= Len(q)
<1>1. Len(q) \in Nat /\ DOMAIN q = 1 .. Len(q)  OBVIOUS
<1> DEFINE n == Cardinality(I)
           at == CHOOSE f \in [1 .. n -> I] : \A i, j \in 1 .. n : i < j => f[i] < f[j]
<1>2. at \in [1 .. n -> I]  BY <1>1, IncreasingExists DEF Increasing
<1>3. n \in Nat /\ n <= Len(q)
  <2>1. IsFiniteSet(1 .. Len(q)) /\ Cardinality(1 .. Len(q)) = Len(q)
    <3>1. ASSUME NEW m \in Nat
          PROVE  IsFiniteSet(1 .. m) /\ Cardinality(1 .. m) = m
      <4>1. /\ IsFiniteSet(1 .. m)
            /\ Cardinality(1 .. m) = IF 1 > m THEN 0 ELSE m - 1 + 1
        BY 1 \in Int, m \in Int, FS_Interval, Zenon
      <4> QED  BY <4>1
    <3> QED  BY <1>1, <3>1
  <2> QED  BY <1>1, <2>1, FS_Subset, FS_CardinalityType
<1>4. Pick(q, I) = [i \in 1 .. n |-> q[at[i]]]  BY DEF Pick
<1> HIDE DEF n, at
<1>5. \A i \in 1 .. n : q[at[i]] \in S  BY <1>1, <1>2
<1>6. Pick(q, I) \in Seq(S) /\ Len(Pick(q, I)) = n  BY <1>3, <1>4, <1>5
<1> QED  BY <1>3, <1>6

-----------------------------------------------------------------------------
(* Window and acknowledgement mechanics *)

\* The types of the fields the handlers do arithmetic on.
LEMMA SoundFields ==
    ASSUME NEW c \in Sound
    PROVE  /\ c \in Circuit
           /\ c.vs \in Seqno /\ c.window \in Nat
           /\ c.sendQueue \in Seq(Fragment) /\ c.unacked \in Seq(Unacked)
           /\ Len(c.unacked) \in Nat /\ (Len(c.unacked) <= c.window \/ c.unacked = <<>>)
           /\ c.state \in {"Disconnected", "Connecting"} =>
                  c.unacked = <<>> /\ c.sendQueue = <<>>
BY SMTT(60) DEF Sound, Circuit, EndIsSound

\* Replacing what is in flight, with V(s) and V(a), on an end that may hold data.
LEMMA FlightType ==
    ASSUME NEW c \in Sound, c.state \in {"Connected", "Disconnecting"},
           NEW vs \in Seqno, NEW va \in Seqno, NEW us \in Seq(Unacked),
           NEW q \in Seq(Fragment), us = <<>> \/ Len(us) <= c.window
    PROVE  /\ [c EXCEPT !.vs = vs, !.unacked = us, !.sendQueue = q] \in DataSteps(c)
           /\ [c EXCEPT !.va = va, !.unacked = us] \in DataSteps(c)
           /\ [c EXCEPT !.unacked = us] \in DataSteps(c)
<1>1. c \in Circuit /\ EndIsSound(c)  BY DEF Sound
<1>2. /\ [c EXCEPT !.vs = vs, !.unacked = us, !.sendQueue = q] \in Circuit
      /\ [c EXCEPT !.va = va, !.unacked = us] \in Circuit
      /\ [c EXCEPT !.unacked = us] \in Circuit
  BY <1>1, ZenonT(60) DEF Circuit
<1>3. /\ EndIsSound([c EXCEPT !.vs = vs, !.unacked = us, !.sendQueue = q])
      /\ EndIsSound([c EXCEPT !.va = va, !.unacked = us])
      /\ EndIsSound([c EXCEPT !.unacked = us])
  BY SMTT(60), <1>1 DEF Circuit, EndIsSound
<1> QED
  BY <1>1, <1>2, <1>3, ZenonT(60)
  DEF DataSteps, SameState, Chats, Evolutions, SameIdentity, Sound, Circuit

\* One round of the pump moves the head of the send queue into flight.
LEMMA FillType ==
    ASSUME NEW c \in Sound, c.state \in {"Connected", "Disconnecting"},
           NEW n \in Nat, n <= Len(c.sendQueue), Len(c.unacked) + n <= c.window
    PROVE  Fill(c, n) \in DataSteps(c)
<1> DEFINE fresh == [i \in 1 .. n |->
                        [seq |-> NextSeq(c.vs, i - 1), retries |-> 0,
                         body |-> c.sendQueue[i].body, more |-> c.sendQueue[i].more]]
           us == c.unacked \o fresh
           q  == SubSeq(c.sendQueue, n + 1, Len(c.sendQueue))
           vs == NextSeq(c.vs, n)
           d  == [c EXCEPT !.vs = vs, !.unacked = us, !.sendQueue = q]
<1>1. c.vs \in Nat /\ c.sendQueue \in Seq(Fragment) /\ c.unacked \in Seq(Unacked)
  BY SoundFields DEF Seqno
<1>2. \A i \in 1 .. n : fresh[i] \in Unacked
  <2> SUFFICES ASSUME NEW i \in 1 .. n
               PROVE  [seq |-> NextSeq(c.vs, i - 1), retries |-> 0,
                       body |-> c.sendQueue[i].body, more |-> c.sendQueue[i].more] \in Unacked
    OBVIOUS
  <2>1. NextSeq(c.vs, i - 1) \in Seqno  BY <1>1, NextSeqType
  <2>2. c.sendQueue[i] \in Fragment  BY <1>1
  <2>3. c.sendQueue[i].body \in Body /\ c.sendQueue[i].more \in BOOLEAN
    BY <2>2 DEF Fragment
  <2> QED  BY <2>1, <2>3 DEF Unacked
<1>3. fresh \in Seq(Unacked) /\ Len(fresh) = n
  <2>1. fresh \in [1 .. n -> Unacked]  BY <1>2
  <2> HIDE DEF fresh
  <2> QED  BY <2>1
<1> HIDE DEF fresh
<1>4. us \in Seq(Unacked) /\ Len(us) <= c.window  BY <1>1, <1>3, SMTT(30)
<1>5. q \in Seq(Fragment)  BY <1>1
<1>6. vs \in Seqno  BY <1>1, NextSeqType
<1> HIDE DEF us, q, vs
<1>7. d \in DataSteps(c)  BY <1>4, <1>5, <1>6, FlightType, ZeroIsKeyAndSeqno
<1>8. Fill(c, n) = SendInformation(d, fresh)  BY DEF Fill, d, fresh, us, q, vs
<1> HIDE DEF d
<1>9. d \in Sound /\ d \in Circuit  BY <1>7, Transitivity DEF Sound
<1>10. Fill(c, n) \in DataSteps(d)
  BY <1>3, <1>8, <1>9, SendInformationType
<1> QED  BY <1>7, <1>10, Transitivity

\* pumpSendQueue, whole: everything it moves and sends is well-typed.
LEMMA PumpType == ASSUME NEW c \in Sound PROVE Pump(c) \in DataSteps(c)
<1>1. CASE c.state # "Connected" \/ c.peerChoked \/ Len(c.unacked) >= c.window
  BY <1>1, Reflexivity DEF Pump
<1>2. CASE ~(c.state # "Connected" \/ c.peerChoked \/ Len(c.unacked) >= c.window)
  <2> DEFINE n == Lesser(Len(c.sendQueue), c.window - Len(c.unacked))
  <2>1. /\ Len(c.unacked) \in Nat /\ c.window \in Nat /\ Len(c.sendQueue) \in Nat
        /\ Len(c.unacked) < c.window
    BY <1>2, SoundFields
  <2>2. n \in Nat /\ n <= Len(c.sendQueue) /\ Len(c.unacked) + n <= c.window
    BY SMTT(60), <2>1 DEF Lesser
  <2>3. Pump(c) = Fill(c, n)  BY <1>2 DEF Pump
  <2> HIDE DEF n
  <2> QED  BY <1>2, <2>2, <2>3, FillType
<1> QED  BY <1>1, <1>2

\* absorbAck removes acknowledged frames and advances V(a).
LEMMA AbsorbAckType ==
    ASSUME NEW c \in Sound, c.state \in {"Connected", "Disconnecting"},
           NEW expected \in Seqno
    PROVE  AbsorbAck(c, expected) \in DataSteps(c)
<1>1. CASE c.unacked = <<>>
  <2>1. [c EXCEPT !.va = expected, !.unacked = <<>>] = [c EXCEPT !.va = expected]
    BY <1>1, SoundFields DEF Circuit
  <2> QED  BY <1>1, <2>1, SoundFields, FlightType DEF AbsorbAck
<1>2. CASE c.unacked # <<>>
  <2> DEFINE I  == StillHeld(c, expected)
             us == Pick(c.unacked, I)
             d  == [c EXCEPT !.va = expected, !.unacked = us]
  <2>1. c.unacked \in Seq(Unacked) /\ Len(c.unacked) <= c.window /\ c.window \in Nat
    BY <1>2, SoundFields
  <2>2. I \in SUBSET DOMAIN c.unacked  BY DEF StillHeld
  <2>3. us \in Seq(Unacked) /\ Len(us) <= c.window
    <3> HIDE DEF I
    <3> QED  BY <2>1, <2>2, PickType
  <2>4. AbsorbAck(c, expected) = Pump(d)  BY SMTT(60), <1>2 DEF AbsorbAck
  <2> HIDE DEF us, I
  <2>5. d \in DataSteps(c)  BY <2>3, FlightType, SoundFields
  <2> HIDE DEF d
  <2> QED  BY <2>4, <2>5, PumpType, Transitivity
<1> QED  BY <1>1, <1>2

\* Resending what is in flight changes nothing but what is emitted and its times.
LEMMA ResendType ==
    ASSUME NEW c \in Sound, c.state \in {"Connected", "Disconnecting"},
           NEW I \in SUBSET DOMAIN c.unacked
    PROVE  Resend(c, I) \in DataSteps(c)
<1> DEFINE us == [i \in DOMAIN c.unacked |->
                    IF i \in I THEN Again(c.unacked[i]) ELSE c.unacked[i]]
           d  == [c EXCEPT !.unacked = us]
           ps == Pick(c.unacked, I)
<1>1. c.unacked \in Seq(Unacked) /\ (c.unacked = <<>> \/ Len(c.unacked) <= c.window)
  BY SoundFields
<1>2. \A i \in DOMAIN c.unacked : us[i] \in Unacked
  <2> SUFFICES ASSUME NEW i \in DOMAIN c.unacked PROVE us[i] \in Unacked  OBVIOUS
  <2>1. c.unacked[i] \in Unacked  BY <1>1
  <2>2. Lesser(c.unacked[i].retries + 1, MaxRetries + 1) \in Nat
    BY <2>1, OptionsAssumption DEF Unacked, Lesser
  <2>3. Again(c.unacked[i]) \in Unacked  BY <2>1, <2>2 DEF Unacked, Again
  <2> QED  BY <2>1, <2>3
<1>3. us \in Seq(Unacked) /\ Len(us) = Len(c.unacked)
  <2>1. Len(c.unacked) \in Nat /\ DOMAIN c.unacked = 1 .. Len(c.unacked)  BY <1>1
  <2>2. us \in [1 .. Len(c.unacked) -> Unacked]  BY <1>2, <2>1
  <2> HIDE DEF us
  <2> QED  BY <2>1, <2>2
<1>4. us = <<>> \/ Len(us) <= c.window  BY <1>1, <1>3
<1>5. ps \in Seq(Unacked)  BY <1>1, PickType
<1>6. Resend(c, I) = SendInformation(d, ps)  BY DEF Resend
<1> HIDE DEF us, ps
<1>7. d \in DataSteps(c)  BY <1>3, <1>4, FlightType, SoundFields, ZeroIsKeyAndSeqno
<1> HIDE DEF d
<1>8. d \in Sound /\ d \in Circuit  BY <1>7, Transitivity DEF Sound
<1>9. Resend(c, I) \in DataSteps(d)
  BY <1>5, <1>6, <1>8, SendInformationType
<1> QED  BY <1>7, <1>9, Transitivity

\* retransmitFrom is a data step, whatever sequence number the NAK names.
LEMMA RetransmitFromType ==
    ASSUME NEW c \in Sound, c.state \in {"Connected", "Disconnecting"}, NEW seq
    PROVE  RetransmitFrom(c, seq) \in DataSteps(c)
BY ResendType DEF RetransmitFrom

-----------------------------------------------------------------------------
(* Choke *)

\* A field that no part of EndIsSound reads may change.
LEMMA QuietFieldType ==
    ASSUME NEW c \in Sound, NEW b \in BOOLEAN, NEW n \in Nat
    PROVE  /\ [c EXCEPT !.peerChoked = b] \in DataSteps(c)
           /\ [c EXCEPT !.localChoked = b] \in DataSteps(c)
           /\ [c EXCEPT !.pending = n] \in DataSteps(c)
<1>1. c \in Circuit /\ EndIsSound(c)  BY DEF Sound
<1>2. /\ [c EXCEPT !.peerChoked = b] \in Circuit
      /\ [c EXCEPT !.localChoked = b] \in Circuit
      /\ [c EXCEPT !.pending = n] \in Circuit
  BY <1>1, ZenonT(60) DEF Circuit
<1>3. /\ EndIsSound([c EXCEPT !.peerChoked = b])
      /\ EndIsSound([c EXCEPT !.localChoked = b])
      /\ EndIsSound([c EXCEPT !.pending = n])
  BY <1>1 DEF Circuit, EndIsSound
<1> QED
  BY <1>1, <1>2, <1>3, ZenonT(60)
  DEF DataSteps, SameState, Chats, Evolutions, SameIdentity, Sound, Circuit

\* A peer's choke flag, set or cleared with the pump that follows.
LEMMA ApplyPeerChokeType ==
    ASSUME NEW c \in Sound, NEW choke \in BOOLEAN
    PROVE  ApplyPeerChoke(c, choke) \in DataSteps(c)
<1> DEFINE d == [c EXCEPT !.peerChoked = FALSE]
<1>1. d \in DataSteps(c) /\ [c EXCEPT !.peerChoked = TRUE] \in DataSteps(c)
  BY QuietFieldType, 0 \in Nat
<1>2. c \in DataSteps(c)  BY Reflexivity
<1>3. ApplyPeerChoke(c, choke) \in {[c EXCEPT !.peerChoked = TRUE], Pump(d), c}
  BY DEF ApplyPeerChoke
<1> HIDE DEF d
<1>4. Pump(d) \in DataSteps(c)  BY <1>1, PumpType, Transitivity
<1> QED  BY <1>1, <1>2, <1>3, <1>4

\* maybeAssertChoke only sets localChoke.
LEMMA MaybeAssertChokeType ==
    ASSUME NEW c \in Sound PROVE MaybeAssertChoke(c) \in DataSteps(c)
BY QuietFieldType, Reflexivity, 0 \in Nat DEF MaybeAssertChoke

\* onDeliveryDrained, with the release of the choke.
LEMMA OnDeliveryDrainedType ==
    ASSUME NEW c \in Sound PROVE OnDeliveryDrained(c) \in DataSteps(c)
<1> DEFINE n == IF c.pending > 0 THEN c.pending - 1 ELSE 0
           d == [c EXCEPT !.pending = n]
           r == [d EXCEPT !.localChoked = FALSE]
<1>1. n \in Nat  BY SMTT(60) DEF Sound, Circuit
<1>2. OnDeliveryDrained(c) \in {d, r, SendInformationAcknowledge(r, FALSE)}
  BY DEF OnDeliveryDrained
<1> HIDE DEF n
<1>3. d \in DataSteps(c)  BY <1>1, QuietFieldType
<1> HIDE DEF d
<1>4. d \in Sound  BY <1>3, Transitivity
<1>5. r \in DataSteps(d)  BY <1>4, QuietFieldType, 0 \in Nat
<1> HIDE DEF r
<1>6. r \in DataSteps(c) /\ r \in Sound  BY <1>3, <1>5, Transitivity
<1>7. SendInformationAcknowledge(r, FALSE) \in DataSteps(r)
  BY <1>6, SendInformationAcknowledgeType
<1>8. SendInformationAcknowledge(r, FALSE) \in DataSteps(c)
  BY <1>6, <1>7, Transitivity
<1> QED  BY <1>2, <1>3, <1>6, <1>8

-----------------------------------------------------------------------------
(* Lifecycle and the application's calls *)

\* The constructor makes a closed end with no reason, with the identity it is given.
LEMMA NewCircuitType ==
    ASSUME NEW node \in Node, NEW remoteNode \in Node, NEW localKey \in Key,
           NEW peerKey \in (Node \X Key) \cup {NoPeerKey}, NEW windowSize \in Nat,
           NEW inc \in Nat, NEW mintedFor \in Nat
    PROVE  LET c == NewCircuit(node, remoteNode, localKey, peerKey, windowSize, inc, mintedFor)
           IN  /\ c \in Sound
               /\ c.state = "Disconnected" /\ c.reason = "None"
               /\ c.node = node /\ c.localKey = localKey /\ c.peerKey = peerKey
               /\ c.inc = inc /\ c.mintedFor = mintedFor
<1> DEFINE c == NewCircuit(node, remoteNode, localKey, peerKey, windowSize, inc, mintedFor)
<1>1. c \in Circuit
  BY ZeroIsKeyAndSeqno DEF NewCircuit, Circuit, State, Reason
<1>2. EndIsSound(c)  BY DEF NewCircuit, EndIsSound
<1>3. /\ c.state = "Disconnected" /\ c.reason = "None"
      /\ c.node = node /\ c.localKey = localKey /\ c.peerKey = peerKey /\ c.inc = inc
      /\ c.mintedFor = mintedFor
  BY DEF NewCircuit
<1> QED  BY <1>1, <1>2, <1>3 DEF Sound

\* close leaves nothing in flight, no queue and no armed timer behind.
LEMMA CloseType ==
    ASSUME NEW c \in Circuit, NEW reason \in Reason, c.state # "Disconnected"
    PROVE  Close(c, reason) \in Evolutions(c)
<1> DEFINE d == [c EXCEPT !.state = "Disconnected", !.armed = FALSE, !.unacked = <<>>,
                          !.sendQueue = <<>>, !.reassembly = <<>>, !.reason = reason]
<1>1. Close(c, reason) = d  BY DEF Close
<1>2. d \in Circuit
  <2>1. ASSUME NEW state \in State, NEW us \in Seq(Unacked), NEW q \in Seq(Fragment),
               NEW b \in Seq(Body)
        PROVE  [c EXCEPT !.state = state, !.armed = FALSE, !.unacked = us,
                         !.sendQueue = q, !.reassembly = b, !.reason = reason] \in Circuit
    BY ZenonT(60) DEF Circuit
  <2>2. /\ "Disconnected" \in State
        /\ <<>> \in Seq(Unacked) /\ <<>> \in Seq(Fragment) /\ <<>> \in Seq(Body)
    BY DEF State
  <2> QED  BY <2>1, <2>2
<1>3. EndIsSound(d)  BY DEF Circuit, EndIsSound
<1>4. SameIdentity(c, d)  BY DEF Circuit, SameIdentity
<1> QED  BY <1>1, <1>2, <1>3, <1>4 DEF Evolutions, Sound

\* close is a no-op on an end that is closed already.
LEMMA CloseAnyType ==
    ASSUME NEW c \in Sound, NEW reason \in Reason PROVE Close(c, reason) \in Evolutions(c)
<1>1. CASE c.state = "Disconnected"
  BY <1>1, Reflexivity, Transitivity DEF Close
<1>2. CASE c.state # "Disconnected"
  BY <1>2, CloseType DEF Sound
<1> QED  BY <1>1, <1>2

\* Starting a control exchange: the state and its timer change together.
LEMMA AwaitType ==
    ASSUME NEW c \in Sound, NEW state \in {"Connecting", "Disconnecting"},
           c.reason = "None", state = "Connecting" => c.state = "Disconnected",
           NEW n \in Nat
    PROVE  [c EXCEPT !.state = state, !.retries = n, !.armed = TRUE] \in Evolutions(c)
<1> DEFINE d == [c EXCEPT !.state = state, !.retries = n, !.armed = TRUE]
<1>1. c \in Circuit /\ EndIsSound(c)  BY DEF Sound
<1>2. d \in Circuit  BY ZenonT(60), <1>1 DEF Circuit, State
<1>3. EndIsSound(d)  BY <1>1 DEF Circuit, EndIsSound
<1>4. SameIdentity(c, d)  BY <1>1 DEF Circuit, SameIdentity
<1> QED  BY <1>2, <1>3, <1>4 DEF Evolutions, Sound

\* connect from a fresh end arms the control timer and keeps the identity.
LEMMA ConnectType ==
    ASSUME NEW c \in Sound, c.reason = "None" PROVE Connect(c) \in Evolutions(c)
<1>1. CASE c.state # "Disconnected"
  BY <1>1, Reflexivity, Transitivity DEF Connect
<1>2. CASE c.state = "Disconnected"
  <2> DEFINE s == SendConnectRequest(c)
             d == [s EXCEPT !.state = "Connecting", !.retries = 0, !.armed = TRUE]
  <2>1. s \in SameState(c)  BY SendConnectRequestType, EmissionKeepsState DEF Sound
  <2>2. Connect(c) = d  BY <1>2 DEF Connect
  <2> HIDE DEF s
  <2>3. s \in Sound /\ s.state = "Disconnected" /\ s.reason = "None"
    BY <1>2, <2>1, Transitivity DEF SameState
  <2>4. d \in Evolutions(s)  BY <2>3, AwaitType, 0 \in Nat
  <2> QED  BY <2>1, <2>2, <2>4, Transitivity
<1> QED  BY <1>1, <1>2

\* send, in every state, including the ones where it throws.
LEMMA SendType ==
    ASSUME NEW c \in Sound, NEW size \in Nat PROVE Send(c, size) \in DataSteps(c)
<1>1. CASE c.state # "Connected"  BY <1>1, Reflexivity DEF Send
<1>2. CASE c.state = "Connected"
  <2> DEFINE more  == [i \in 1 .. size |-> i < size]
             frame == [i \in 1 .. size |->
                         [body |-> <<c.inc, Len(c.sent) + i>>, more |-> more[i]]]
             q == c.sendQueue \o frame
             s == c.sent \o more
             d == [c EXCEPT !.sendQueue = q, !.sent = s]
  <2>1. /\ c \in Circuit /\ EndIsSound(c) /\ c.inc \in Nat
        /\ c.sendQueue \in Seq(Fragment) /\ c.sent \in Seq(BOOLEAN)
    BY DEF Sound, Circuit
  <2>2. more \in Seq(BOOLEAN)  OBVIOUS
  <2>3. \A i \in 1 .. size : frame[i] \in Fragment
    <3> SUFFICES ASSUME NEW i \in 1 .. size
                 PROVE  [body |-> <<c.inc, Len(c.sent) + i>>, more |-> more[i]] \in Fragment
      OBVIOUS
    <3>1. Len(c.sent) + i \in Nat /\ more[i] \in BOOLEAN  BY <2>1
    <3> QED  BY <2>1, <3>1 DEF Fragment, Body
  <2>4. frame \in Seq(Fragment)
    <3>1. frame \in [1 .. size -> Fragment]  BY <2>3
    <3> HIDE DEF frame
    <3> QED  BY <3>1
  <2>5. Send(c, size) = Pump(d)  BY <1>2 DEF Send
  <2> HIDE DEF more, frame
  <2>6. q \in Seq(Fragment) /\ s \in Seq(BOOLEAN)  BY <2>1, <2>2, <2>4
  <2> HIDE DEF q, s
  <2>7. d \in Circuit  BY ZenonT(60), <2>1, <2>6 DEF Circuit
  <2>8. EndIsSound(d)  BY <1>2, <2>1 DEF Circuit, EndIsSound
  <2>9. d \in DataSteps(c)
    BY ZenonT(60), <2>1, <2>7, <2>8
    DEF DataSteps, SameState, Chats, Evolutions, SameIdentity, Sound, Circuit
  <2> HIDE DEF d
  <2> QED  BY <2>5, <2>9, PumpType, Transitivity
<1> QED  BY <1>1, <1>2

\* disconnect, in every state.
LEMMA DisconnectType ==
    ASSUME NEW c \in Sound PROVE Disconnect(c) \in Evolutions(c)
<1>1. CASE c.state = "Connecting"
  BY <1>1, CloseAnyType DEF Disconnect, Reason
<1>2. CASE c.state = "Connected"
  <2> DEFINE s == SendDisconnectRequest(c)
             d == [s EXCEPT !.state = "Disconnecting", !.retries = 0, !.armed = TRUE]
  <2>1. s \in SameState(c)
    BY SendDisconnectType, EmissionKeepsState, 0 \in Nat DEF Sound
  <2>2. Disconnect(c) = d  BY <1>2 DEF Disconnect
  <2> HIDE DEF s
  <2>3. c.reason = "None"  BY <1>2 DEF Sound, EndIsSound
  <2>4. s \in Sound /\ s.reason = "None"  BY <2>1, <2>3, Transitivity DEF SameState
  <2>5. d \in Evolutions(s)  BY <2>4, AwaitType, 0 \in Nat
  <2> QED  BY <2>1, <2>2, <2>5, Transitivity
<1>3. CASE c.state \notin {"Connecting", "Connected"}
  BY <1>3, Reflexivity, Transitivity DEF Disconnect
<1> QED  BY <1>1, <1>2, <1>3

\* Learning the peer's key and the window, on an end that holds no data.
LEMMA EstablishType ==
    ASSUME NEW c \in Sound, c.state \in {"Disconnected", "Connecting"},
           c.reason = "None", NEW key \in Key, NEW w \in Nat
    PROVE  [c EXCEPT !.remoteKey = key, !.state = "Connected", !.window = w,
                     !.armed = FALSE] \in Evolutions(c)
<1> DEFINE d == [c EXCEPT !.remoteKey = key, !.state = "Connected", !.window = w,
                          !.armed = FALSE]
<1>1. c \in Circuit /\ EndIsSound(c)  BY DEF Sound
<1>2. d \in Circuit  BY ZenonT(60), <1>1 DEF Circuit, State
<1>3. EndIsSound(d)  BY <1>1 DEF Circuit, EndIsSound
<1>4. SameIdentity(c, d)  BY <1>1 DEF Circuit, SameIdentity
<1> QED  BY <1>2, <1>3, <1>4 DEF Evolutions, Sound

\* acceptInbound establishes a fresh end with the peer's key and window.
LEMMA AcceptInboundType ==
    ASSUME NEW c \in Sound, c.state = "Disconnected", c.reason = "None",
           NEW peerKey \in Key, NEW proposed \in Nat
    PROVE  AcceptInbound(c, peerKey, proposed) \in Evolutions(c)
<1> DEFINE asked == IF proposed <= 0 THEN c.windowSize ELSE proposed
           w == Clamp(Lesser(asked, c.windowSize), 1, MaxWindow)
           d == [c EXCEPT !.remoteKey = peerKey, !.state = "Connected", !.window = w]
           e == [c EXCEPT !.remoteKey = peerKey, !.state = "Connected", !.window = w,
                          !.armed = FALSE]
<1>1. c \in Circuit /\ c.windowSize \in Nat /\ c.armed = FALSE
  BY DEF Sound, Circuit, EndIsSound
<1>2. asked \in Nat  BY <1>1
<1>3. AcceptInbound(c, peerKey, proposed) = SendConnectAcknowledge(d, FALSE)
  BY DEF AcceptInbound
<1> HIDE DEF asked
<1>4. w \in Nat  BY <1>1, <1>2, HorizonFacts DEF Clamp, Lesser
<1> HIDE DEF w
<1>5. d = e  BY <1>1 DEF Circuit
<1>6. d \in Evolutions(c)  BY <1>4, <1>5, EstablishType
<1> HIDE DEF d
<1>7. d \in Sound  BY <1>6, Transitivity
<1>8. SendConnectAcknowledge(d, FALSE) \in SameState(d)
  BY <1>7, SendConnectAcknowledgeType, EmissionKeepsState DEF Sound
<1> QED  BY ZenonT(60), <1>3, <1>6, <1>8, Transitivity

\* The refusal of an inbound circuit, which its owner then drops.
LEMMA RefuseInboundType ==
    ASSUME NEW c \in Sound, c.state = "Disconnected", NEW peerKey \in Key
    PROVE  [RefuseInbound(c, peerKey) EXCEPT !.reason = "Refused"] \in Evolutions(c)
<1> DEFINE d == [c EXCEPT !.remoteKey = peerKey]
           s == SendConnectAcknowledge(d, TRUE)
           e == [s EXCEPT !.state = "Disconnected"]
           f == [e EXCEPT !.reason = "Refused"]
<1>1. c \in Circuit /\ EndIsSound(c)  BY DEF Sound
<1>2. RefuseInbound(c, peerKey) = e  BY DEF RefuseInbound
<1>3. d \in Circuit /\ SameIdentity(c, d) /\ EndIsSound(d) /\ d.state = "Disconnected"
  BY <1>1 DEF Circuit, SameIdentity, EndIsSound
<1>4. d \in Evolutions(c)  BY <1>3 DEF Evolutions, Sound
<1> HIDE DEF d
<1>5. s \in SameState(d)
  BY <1>3, SendConnectAcknowledgeType, EmissionKeepsState DEF Sound
<1> HIDE DEF s
<1>6. s \in Circuit /\ EndIsSound(s) /\ s.state = "Disconnected"
  BY <1>3, <1>5, Transitivity DEF SameState, Sound
<1>7. f \in Circuit  BY <1>6 DEF Circuit, State, Reason
<1>8. SameIdentity(s, f) /\ EndIsSound(f)
  BY <1>6 DEF Circuit, SameIdentity, EndIsSound
<1>9. f \in Evolutions(s)  BY <1>7, <1>8 DEF Evolutions, Sound
<1>10. s \in Evolutions(c)  BY <1>4, <1>5, Transitivity
<1> HIDE DEF e, f
<1>11. f \in Evolutions(c)  BY <1>9, <1>10, Transitivity
<1> QED  BY <1>2, <1>11 DEF f

-----------------------------------------------------------------------------
(* Packet handlers *)

\* The types of a packet's fields.
LEMMA PacketFields ==
    ASSUME NEW p \in Packet
    PROVE  /\ p.key \in Key /\ p.own \in Key /\ p.tx \in Seqno /\ p.rx \in Seqno
           /\ p.choke \in BOOLEAN /\ p.nak \in BOOLEAN /\ p.more \in BOOLEAN
           /\ p.win \in Nat /\ p.body \in Body /\ p.inc \in Nat /\ p.op \in Opcode
BY DEF Packet

\* A repeated Connect Request re-acknowledges or is ignored.
LEMMA OnConnectRequestType ==
    ASSUME NEW c \in Sound PROVE OnConnectRequest(c) \in Evolutions(c)
<1>1. SendConnectAcknowledge(c, FALSE) \in SameState(c)
  BY SendConnectAcknowledgeType, EmissionKeepsState DEF Sound
<1> QED  BY <1>1, Reflexivity, Transitivity DEF OnConnectRequest

\* A Connect Acknowledge establishes, refuses or is ignored.
LEMMA OnConnectAcknowledgeType ==
    ASSUME NEW c \in Sound, NEW p \in Packet
    PROVE  OnConnectAcknowledge(c, p) \in Evolutions(c)
<1> DEFINE d == [c EXCEPT !.remoteKey = p.own, !.armed = FALSE]
           w == IF p.win \in 1 .. MaxWindow THEN Lesser(c.window, p.win) ELSE c.window
           e == [d EXCEPT !.window = w, !.state = "Connected"]
<1>1. c \in Circuit /\ EndIsSound(c) /\ c.window \in Nat  BY DEF Sound, Circuit
<1>2. p.own \in Key /\ p.win \in Nat  BY PacketFields
<1>3. CASE c.state # "Connecting"
  BY <1>3, Reflexivity, Transitivity DEF OnConnectAcknowledge
<1>4. CASE c.state = "Connecting" /\ p.choke
  <2>1. OnConnectAcknowledge(c, p) = Close(d, "Refused")
    BY <1>4 DEF OnConnectAcknowledge
  <2>2. d \in Circuit /\ SameIdentity(c, d) /\ d.state = "Connecting"
    BY ZenonT(60), <1>1, <1>2, <1>4 DEF Circuit, SameIdentity
  <2> HIDE DEF d
  <2>3. Close(d, "Refused") \in Evolutions(d)  BY <2>2, CloseType DEF Reason
  <2> QED  BY <2>1, <2>2, <2>3 DEF Evolutions, SameIdentity
<1>5. CASE c.state = "Connecting" /\ ~p.choke
  <2>1. OnConnectAcknowledge(c, p) = Pump(e)  BY <1>5 DEF OnConnectAcknowledge
  <2>2. w \in Nat  BY <1>1, <1>2 DEF Lesser
  <2> HIDE DEF w
  <2>3. e = [c EXCEPT !.remoteKey = p.own, !.state = "Connected", !.window = w,
                      !.armed = FALSE]
    BY <1>1 DEF Circuit
  <2>4. c.reason = "None"  BY <1>1, <1>5 DEF EndIsSound
  <2>5. e \in Evolutions(c)  BY <1>2, <1>5, <2>2, <2>3, <2>4, EstablishType
  <2> HIDE DEF e
  <2> QED  BY <2>1, <2>5, PumpType, Transitivity
<1> QED  BY <1>3, <1>4, <1>5

\* A Disconnect Request is acknowledged and closes a live end.
LEMMA OnDisconnectRequestType ==
    ASSUME NEW c \in Sound, NEW p \in Packet
    PROVE  OnDisconnectRequest(c, p) \in Evolutions(c)
<1> DEFINE d == SendDisconnectAcknowledge(c, p.inc)
<1>1. d \in SameState(c)
  BY PacketFields, SendDisconnectType, EmissionKeepsState DEF Sound
<1>2. OnDisconnectRequest(c, p) = Close(d, "Normal")  BY DEF OnDisconnectRequest
<1> HIDE DEF d
<1>3. Close(d, "Normal") \in Evolutions(d)  BY <1>1, CloseAnyType, Transitivity DEF Reason
<1> QED  BY <1>1, <1>2, <1>3, Transitivity

\* A Disconnect Acknowledge closes a live end.
LEMMA OnDisconnectAcknowledgeType ==
    ASSUME NEW c \in Sound PROVE OnDisconnectAcknowledge(c) \in Evolutions(c)
BY CloseAnyType, Reflexivity, Transitivity DEF OnDisconnectAcknowledge, Reason

Reaction == {"hold", "drain", "reply", "dispose"}

\* What a data step, or a disconnect the application made meanwhile, leaves.
Outcomes(c) == UNION {DataSteps(a) \cup DataSteps(Disconnect(a)) : a \in DataSteps(c)}

\* Such handlers compose, and they keep the end sound.
LEMMA OutcomeSteps ==
    ASSUME NEW c \in Sound, NEW d, NEW e
    PROVE  /\ d \in DataSteps(c) => d \in Outcomes(c)
           /\ d \in DataSteps(c) => Disconnect(d) \in Outcomes(c)
           /\ d \in Outcomes(c) => d \in Evolutions(c) /\ d \in Sound
           /\ d \in Outcomes(c) /\ e \in DataSteps(d) => e \in Outcomes(c)
           /\ d \in DataSteps(c) /\ e \in Outcomes(d) => e \in Outcomes(c)
<1>1. d \in DataSteps(c) => d \in Outcomes(c)
  <2>1. c \in DataSteps(c)  BY Reflexivity
  <2> QED  BY <2>1 DEF Outcomes
<1>2. d \in DataSteps(c) => Disconnect(d) \in Outcomes(c)
  <2> SUFFICES ASSUME d \in DataSteps(c) PROVE Disconnect(d) \in Outcomes(c)  OBVIOUS
  <2>1. d \in Sound  BY Transitivity
  <2>2. Disconnect(d) \in Sound  BY <2>1, DisconnectType, Transitivity
  <2>3. Disconnect(d) \in DataSteps(Disconnect(d))  BY <2>2, Reflexivity
  <2> QED  BY <2>3 DEF Outcomes
<1>3. d \in Outcomes(c) => d \in Evolutions(c) /\ d \in Sound
  <2> SUFFICES ASSUME NEW a \in DataSteps(c), d \in DataSteps(a) \/ d \in DataSteps(Disconnect(a))
               PROVE  d \in Evolutions(c) /\ d \in Sound
    BY DEF Outcomes
  <2>1. a \in Evolutions(c) /\ a \in Sound  BY Transitivity
  <2>2. Disconnect(a) \in Evolutions(a)  BY <2>1, DisconnectType
  <2> QED  BY <2>1, <2>2, Transitivity
<1>4. d \in Outcomes(c) /\ e \in DataSteps(d) => e \in Outcomes(c)
  BY Transitivity DEF Outcomes
<1>5. d \in DataSteps(c) /\ e \in Outcomes(d) => e \in Outcomes(c)
  BY Transitivity DEF Outcomes
<1> QED  BY <1>1, <1>2, <1>3, <1>4, <1>5

\* Whatever the application does inside the data callback is such an outcome.
LEMMA ReactType ==
    ASSUME NEW c \in Sound, NEW reaction \in Reaction
    PROVE  React(c, reaction) \in Outcomes(c)
<1>0. c \in DataSteps(c)  BY Reflexivity
<1>1. CASE reaction = "hold"  BY <1>0, <1>1, OutcomeSteps DEF React
<1>2. CASE reaction = "drain"
  BY <1>2, OnDeliveryDrainedType, OutcomeSteps DEF React
<1>3. CASE reaction = "reply"
  <2>1. Send(c, 1) \in DataSteps(c)  BY SendType, 1 \in Nat
  <2>2. OnDeliveryDrained(Send(c, 1)) \in DataSteps(Send(c, 1))
    BY <2>1, OnDeliveryDrainedType, Transitivity
  <2>3. OnDeliveryDrained(Send(c, 1)) \in DataSteps(c)  BY <2>1, <2>2, Transitivity
  <2> QED  BY <1>3, <2>3, OutcomeSteps DEF React
<1>4. CASE reaction = "dispose"
  <2>1. Disconnect(c) \in Outcomes(c)  BY <1>0, OutcomeSteps
  <2>2. OnDeliveryDrained(Disconnect(c)) \in DataSteps(Disconnect(c))
    BY <2>1, OutcomeSteps, OnDeliveryDrainedType
  <2> QED  BY <1>4, <2>1, <2>2, OutcomeSteps DEF React
<1> QED  BY <1>1, <1>2, <1>3, <1>4 DEF Reaction

\* What the receiving side records of a message or a frame.
LEMMA ReceiptType ==
    ASSUME NEW c \in Sound, NEW v \in Seqno, NEW r \in Seq(Body),
           NEW got \in Seq(Seq(Body)), NEW n \in Nat
    PROVE  /\ [c EXCEPT !.vr = v, !.reassembly = r] \in DataSteps(c)
           /\ [c EXCEPT !.got = got, !.reassembly = r, !.pending = n] \in DataSteps(c)
<1> DEFINE a == [c EXCEPT !.vr = v, !.reassembly = r]
           b == [c EXCEPT !.got = got, !.reassembly = r, !.pending = n]
<1>1. c \in Circuit /\ EndIsSound(c)  BY DEF Sound
<1>2. a \in Circuit /\ b \in Circuit  BY <1>1, ZenonT(60) DEF Circuit
<1>3. EndIsSound(a) /\ EndIsSound(b)  BY <1>1 DEF Circuit, EndIsSound
<1> QED
  BY <1>1, <1>2, <1>3, ZenonT(60)
  DEF DataSteps, SameState, Chats, Evolutions, SameIdentity, Sound, Circuit

\* Delivery of one in-order frame, with reassembly and the reaction to it.
LEMMA DeliverType ==
    ASSUME NEW c \in Sound, NEW reaction \in Reaction
    PROVE  Deliver(c, reaction) \in Outcomes(c)
<1> DEFINE got == Append(c.got, c.reassembly)
           n   == IF ChokeThreshold > 0 THEN c.pending + 1 ELSE c.pending
           d   == [c EXCEPT !.got = got, !.reassembly = <<>>, !.pending = n]
<1>1. got \in Seq(Seq(Body)) /\ n \in Nat
  <2>1. c.got \in Seq(Seq(Body)) /\ c.reassembly \in Seq(Body) /\ c.pending \in Nat
    BY DEF Sound, Circuit
  <2> QED  BY <2>1
<1>2. Deliver(c, reaction) = MaybeAssertChoke(React(d, reaction))  BY DEF Deliver
<1> HIDE DEF got, n
<1>3. d \in DataSteps(c)
  <2>1. <<>> \in Seq(Body)  OBVIOUS
  <2> QED  BY <1>1, <2>1, ReceiptType, ZeroIsKeyAndSeqno
<1> HIDE DEF d
<1>4. React(d, reaction) \in Outcomes(c)  BY <1>3, ReactType, Transitivity, OutcomeSteps
<1> QED  BY <1>2, <1>4, OutcomeSteps, MaybeAssertChokeType

\* onInformation, with the NAK, re-acknowledgement and choke it may send.
LEMMA OnInformationType ==
    ASSUME NEW c \in Sound, NEW p \in Packet, NEW reaction \in Reaction
    PROVE  OnInformation(c, p, reaction) \in Outcomes(c)
<1>1. CASE c.state # "Connected"
  BY <1>1, Reflexivity, OutcomeSteps DEF OnInformation
<1>2. CASE c.state = "Connected"
  <2> DEFINE b  == AbsorbAck(c, p.rx)
             a  == ApplyPeerChoke(b, p.choke)
             vr == NextSeq(a.vr, 1)
             r  == Append(a.reassembly, p.body)
             d  == [a EXCEPT !.vr = vr, !.reassembly = r]
             e  == IF p.more THEN d ELSE Deliver(d, reaction)
             future == Mod256After(p.tx, a.vr)
  <2>1. p.rx \in Seqno /\ p.choke \in BOOLEAN /\ p.body \in Body  BY PacketFields
  <2>2. OnInformation(c, p, reaction) \in {SendInformationAcknowledge(a, future),
                                           SendInformationAcknowledge(e, FALSE)}
    BY <1>2 DEF OnInformation
  <2>3. b \in DataSteps(c)  BY <1>2, <2>1, AbsorbAckType
  <2>4. a \in DataSteps(b)  BY <2>1, <2>3, ApplyPeerChokeType, Transitivity
  <2> HIDE DEF b, a
  <2>5. a \in DataSteps(c) /\ a \in Sound  BY <2>3, <2>4, Transitivity
  <2>6. vr \in Seqno /\ r \in Seq(Body)
    <3>1. a.vr \in Seqno /\ a.reassembly \in Seq(Body)  BY <2>5 DEF Sound, Circuit
    <3>2. a.vr \in Nat  BY <3>1 DEF Seqno
    <3> QED  BY <2>1, <3>1, <3>2, NextSeqType
  <2> HIDE DEF vr, r
  <2>7. d \in DataSteps(a)
    <3>1. <<>> \in Seq(Seq(Body))  OBVIOUS
    <3> QED  BY <2>5, <2>6, <3>1, ReceiptType, 0 \in Nat
  <2> HIDE DEF d
  <2>8. d \in DataSteps(c) /\ d \in Sound  BY <2>5, <2>7, Transitivity
  <2>9. e \in Outcomes(c) /\ e \in Sound
    BY <2>8, DeliverType, OutcomeSteps
  <2> HIDE DEF e
  <2>10. future \in BOOLEAN  BY DEF Mod256After
  <2> HIDE DEF future
  <2>11. /\ SendInformationAcknowledge(a, future) \in DataSteps(c)
         /\ SendInformationAcknowledge(e, FALSE) \in DataSteps(e)
    BY <2>5, <2>9, <2>10, SendInformationAcknowledgeType, Transitivity
  <2> QED  BY <2>2, <2>9, <2>11, OutcomeSteps
<1> QED  BY <1>1, <1>2

\* onInformationAcknowledge, with the NAK resend and the choke change.
LEMMA OnInformationAcknowledgeType ==
    ASSUME NEW c \in Sound, NEW p \in Packet
    PROVE  OnInformationAcknowledge(c, p) \in DataSteps(c)
<1>1. CASE c.state # "Connected"
  BY <1>1, Reflexivity DEF OnInformationAcknowledge
<1>2. CASE c.state = "Connected"
  <2> DEFINE b == ApplyPeerChoke(c, p.choke)
             a == AbsorbAck(b, p.rx)
             d == IF p.nak THEN RetransmitFrom(a, p.rx) ELSE a
  <2>1. p.rx \in Seqno /\ p.choke \in BOOLEAN  BY PacketFields
  <2>2. OnInformationAcknowledge(c, p) = Pump(d)
    BY <1>2 DEF OnInformationAcknowledge
  <2>3. b \in DataSteps(c)  BY <2>1, ApplyPeerChokeType
  <2> HIDE DEF b
  <2>4. b \in Sound /\ b.state = "Connected"
    BY <1>2, <2>3, Transitivity DEF DataSteps, SameState
  <2>5. a \in DataSteps(b)  BY <2>1, <2>4, AbsorbAckType
  <2> HIDE DEF a
  <2>6. a \in DataSteps(c) /\ a \in Sound /\ a.state = "Connected"
    BY <2>3, <2>4, <2>5, Transitivity DEF DataSteps, SameState
  <2>7. d \in DataSteps(a)  BY <2>6, RetransmitFromType, Reflexivity
  <2> HIDE DEF d
  <2>8. Pump(d) \in DataSteps(d)  BY <2>7, PumpType, Transitivity
  <2> QED  BY <2>2, <2>6, <2>7, <2>8, Transitivity
<1> QED  BY <1>1, <1>2

\* Every packet, in every state, with every reaction of the application.
LEMMA OnPacketType ==
    ASSUME NEW c \in Sound, NEW p \in Packet, NEW reaction \in Reaction
    PROVE  OnPacket(c, p, reaction) \in Evolutions(c)
<1>1. p.op \in Opcode  BY PacketFields
<1> QED
  BY <1>1, OnConnectRequestType, OnConnectAcknowledgeType, OnDisconnectRequestType,
     OnDisconnectAcknowledgeType, OnInformationType, OnInformationAcknowledgeType,
     OutcomeSteps, Transitivity
  DEF OnPacket, Opcode

-----------------------------------------------------------------------------
(* The retransmit timer *)

\* A timer tick retries, gives up or does nothing, and keeps the end sound.
LEMMA TickType ==
    ASSUME NEW c \in Sound, TimerRunning(c) PROVE Tick(c) \in Evolutions(c)
<1> DEFINE n == c.retries + 1
           again == [c EXCEPT !.retries = n]
<1>1. c \in Circuit /\ EndIsSound(c) /\ n \in Nat  BY DEF Sound, Circuit
<1>2. CASE RetriesSpent(c)
  BY <1>2, CloseAnyType DEF Tick, Reason
<1>3. CASE ~RetriesSpent(c)
  <2>1. c.state \in {"Connecting", "Disconnecting", "Connected"}
    BY <1>1 DEF TimerRunning, EndIsSound
  <2>2. Tick(c) = IF c.state = "Connecting" THEN SendConnectRequest(again)
                  ELSE IF c.state = "Disconnecting" THEN SendDisconnectRequest(again)
                  ELSE Resend(c, DOMAIN c.unacked)
    BY <1>3 DEF Tick
  <2> HIDE DEF n
  <2>3. again \in Circuit  BY <1>1 DEF Circuit
  <2>4. EndIsSound(again) /\ SameIdentity(c, again)
    BY <1>1 DEF Circuit, EndIsSound, SameIdentity
  <2>5. again \in Evolutions(c) /\ again \in Sound  BY <2>3, <2>4 DEF Evolutions, Sound
  <2> HIDE DEF again
  <2>6. /\ SendConnectRequest(again) \in SameState(again)
        /\ SendDisconnectRequest(again) \in SameState(again)
    BY <2>3, <2>5, SendConnectRequestType, SendDisconnectType, EmissionKeepsState, 0 \in Nat
  <2>7. /\ SendConnectRequest(again) \in Evolutions(c)
        /\ SendDisconnectRequest(again) \in Evolutions(c)
    BY <2>5, <2>6, Transitivity
  <2>8. c.state = "Connected" => Resend(c, DOMAIN c.unacked) \in Evolutions(c)
    BY ResendType, Transitivity
  <2> QED  BY <2>1, <2>2, <2>7, <2>8
<1> QED  BY <1>2, <1>3

=============================================================================
