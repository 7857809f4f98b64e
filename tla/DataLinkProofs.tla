--------------------------- MODULE DataLinkProofs ---------------------------
(***************************************************************************)
(* What holds of a v2.0 link nobody asks an XID exchange about, for every  *)
(* window, retry count and number of payloads, whatever the path loses,    *)
(* delivers twice or lets overtake: the types, the window, and a frame to  *)
(* send again for every number outstanding.                                *)
(*                                                                         *)
(* Good(s, b, B) says what the session s of a station may be when its      *)
(* owner has submitted b payloads and the peer's owner B; LinkInv says     *)
(* that both sessions are good, each with nothing left to send or to       *)
(* dispatch, and that every path carries frames its sender may send.  A    *)
(* lemma for each verb says it leads from good to good, a lemma for each   *)
(* subroutine and page follows from those, then the driver, the listener   *)
(* and the actions.  A frame read is the frame sent: FrameReadBack.        *)
(*                                                                         *)
(* Three verbs fold over what is queued, stored or outstanding.  That a    *)
(* fold has a value, and one that is good, goes by induction on the        *)
(* naturals: a set of them that is not all of them has a least element     *)
(* missing (NatMinimum).                                                   *)
(***************************************************************************)
EXTENDS DataLink, WellFoundedInduction, FiniteSetTheorems, TLAPS

-----------------------------------------------------------------------------
(* Induction and folds *)

\* A non-empty set of naturals has a least element.
LEMMA NatMinimum ==
    ASSUME NEW T \in SUBSET Nat, T # {} PROVE \E x \in T : \A y \in T : x <= y
<1> DEFINE R == {ss \in Nat \X Nat : ss[1] < ss[2]}
<1>1. IsWellFoundedOn(R, Nat)
  <2>1. OpToRel(<, Nat) = R  BY DEF OpToRel
  <2> QED  BY <2>1, NatLessThanWellFounded
<1>2. \A x, y \in Nat : y < x => <<y, x>> \in R  OBVIOUS
<1> HIDE DEF R
<1>3. \E x \in T : \A y \in T : ~(<<y, x>> \in R)  BY <1>1, WFMin, Zenon
<1>4. \A x, y \in Nat : ~(y < x) => x <= y  OBVIOUS
<1> QED  BY <1>2, <1>3, <1>4, Zenon

\* Induction over the naturals, for a set of them.
LEMMA NatClosed ==
    ASSUME NEW T \in SUBSET Nat, 0 \in T, \A n \in T : n + 1 \in T PROVE T = Nat
<1> DEFINE U == Nat \ T
<1> SUFFICES ASSUME U # {} PROVE FALSE  OBVIOUS
<1>1. U \in SUBSET Nat  OBVIOUS
<1> HIDE DEF U
<1>2. PICK x \in U : \A y \in U : x <= y  BY <1>1, NatMinimum
<1>3. x \in Nat /\ x \notin T  BY DEF U
<1>4. x # 0 /\ x - 1 \in Nat /\ ~(x <= x - 1)  BY <1>3
<1>5. x - 1 \in T  BY <1>2, <1>4 DEF U
<1>6. (x - 1) + 1 = x  BY <1>3
<1> QED  BY <1>3, <1>5, <1>6

\* The largest number of a set.
LEMMA Largest ==
    ASSUME NEW n \in Nat, NEW x \in SUBSET (1 .. n), x # {}
    PROVE  Max(x) \in x /\ \A y \in x : y <= Max(x)
<1> DEFINE Has(m) == \A z \in SUBSET (1 .. m) : z # {} => \E a \in z : \A c \in z : a >= c
           T == {m \in Nat : Has(m)}
<1>1. Has(0)
  <2>1. 1 .. 0 = {}  OBVIOUS
  <2> QED  BY <2>1
<1>2. ASSUME NEW m \in Nat, Has(m) PROVE Has(m + 1)
  <2> SUFFICES ASSUME NEW z \in SUBSET (1 .. m + 1), z # {}
               PROVE  \E a \in z : \A c \in z : a >= c
    OBVIOUS
  <2>1. CASE m + 1 \in z  BY <2>1
  <2>2. CASE m + 1 \notin z
    <3>1. z \in SUBSET (1 .. m)  BY <2>2
    <3> QED  BY <1>2, <3>1
  <2> QED  BY <2>1, <2>2
<1> HIDE DEF Has
<1>3. T = Nat
  <2>1. T \in SUBSET Nat /\ 0 \in T  BY <1>1
  <2>2. \A m \in T : m + 1 \in T  BY <1>2
  <2> HIDE DEF T
  <2> QED  BY <2>1, <2>2, NatClosed
<1>4. Has(n)  BY <1>3
<1>5. \E a \in x : \A c \in x : a >= c  BY <1>4 DEF Has
<1>6. \A a, c \in x : a >= c => c <= a  OBVIOUS
<1> QED  BY <1>5, <1>6 DEF Max

\* g applies step h[i] for every i of a subset of 1 .. n, the smallest first.
Folds(g, b, n, h) == \A x \in SUBSET (1 .. n) :
    g[x] = IF x = {} THEN b ELSE h[Max(x)][g[x \ {Max(x)}]]

\* Each step of the fold leads from a set to the next, of which there are more and more.
Stepwise(W, b, n, h) ==
    /\ b \in W[0]
    /\ \A i \in 1 .. n : W[i - 1] \subseteq W[i]
    /\ \A i \in 1 .. n : \A v \in W[i - 1] : h[i][v] \in W[i]

\* After the steps up to j the fold is in the set of j.
Staged(g, W, n) == \A j \in 0 .. n : \A x \in SUBSET (1 .. j) : g[x] \in W[j]

\* The recursion by which a fold over 1 .. n is defined has a solution.
LEMMA FoldExists ==
    ASSUME NEW n \in Nat, NEW W, NEW b, NEW h, Stepwise(W, b, n, h)
    PROVE  \E g \in [SUBSET (1 .. n) -> W[n]] : Folds(g, b, n, h) /\ Staged(g, W, n)
<1> DEFINE Solves(m, g) == \A x \in SUBSET (1 .. m) :
               g[x] = IF x = {} THEN b ELSE h[Max(x)][g[x \ {Max(x)}]]
           Within(m, g) == \A j \in 0 .. m : \A x \in SUBSET (1 .. j) : g[x] \in W[j]
           Has(m) == m <= n => \E g \in [SUBSET (1 .. m) -> W[m]] : Solves(m, g) /\ Within(m, g)
           T == {m \in Nat : Has(m)}
<1>1. Has(0)
  <2> DEFINE g == [x \in SUBSET (1 .. 0) |-> b]
  <2>1. \A x \in SUBSET (1 .. 0) : x = {}  OBVIOUS
  <2>2. b \in W[0]  BY DEF Stepwise
  <2>3. g \in [SUBSET (1 .. 0) -> W[0]]  BY <2>2
  <2>4. Solves(0, g)  BY <2>1
  <2>5. Within(0, g)  BY <2>2
  <2> QED  BY <2>3, <2>4, <2>5
<1>2. ASSUME NEW m \in Nat, Has(m) PROVE Has(m + 1)
  <2> SUFFICES ASSUME m + 1 <= n
               PROVE  \E g \in [SUBSET (1 .. m + 1) -> W[m + 1]] :
                          Solves(m + 1, g) /\ Within(m + 1, g)
    OBVIOUS
  <2>0. m + 1 \in 1 .. n /\ m <= n /\ (m + 1) - 1 = m  OBVIOUS
  <2>1. PICK g \in [SUBSET (1 .. m) -> W[m]] : Solves(m, g) /\ Within(m, g)  BY <1>2, <2>0
  <2> DEFINE f == [x \in SUBSET (1 .. m + 1) |->
                     IF m + 1 \in x THEN h[m + 1][g[x \ {m + 1}]] ELSE g[x]]
  <2>2. ASSUME NEW x \in SUBSET (1 .. m + 1), m + 1 \in x
        PROVE  /\ x # {} /\ Max(x) = m + 1
               /\ f[x] = h[m + 1][g[x \ {m + 1}]] /\ f[x] \in W[m + 1]
               /\ f[x \ {m + 1}] = g[x \ {m + 1}]
    <3>1. x \ {m + 1} \in SUBSET (1 .. m)  OBVIOUS
    <3>2. Max(x) = m + 1
      <4>1. Max(x) \in x /\ m + 1 <= Max(x)  BY <2>2, Largest, m + 1 \in Nat
      <4>2. Max(x) \in 1 .. m + 1  BY <4>1
      <4> QED  BY <4>1, <4>2
    <3>3. f[x] = h[m + 1][g[x \ {m + 1}]]  BY <2>2
    <3>4. f[x] \in W[m + 1]
      <4>1. g[x \ {m + 1}] \in W[m]  BY <3>1
      <4>2. \A v \in W[m] : h[m + 1][v] \in W[m + 1]  BY <2>0 DEF Stepwise
      <4> QED  BY <3>3, <4>1, <4>2
    <3>5. f[x \ {m + 1}] = g[x \ {m + 1}]  OBVIOUS
    <3> QED  BY <2>2, <3>2, <3>3, <3>4, <3>5
  <2>3. ASSUME NEW x \in SUBSET (1 .. m + 1), m + 1 \notin x
        PROVE  /\ x \in SUBSET (1 .. m) /\ f[x] = g[x] /\ f[x] \in W[m + 1]
               /\ x # {} => f[x \ {Max(x)}] = g[x \ {Max(x)}]
    <3>1. x \in SUBSET (1 .. m)  BY <2>3
    <3>2. f[x] = g[x] /\ f[x] \in W[m]  BY <2>3, <3>1
    <3>3. W[m] \subseteq W[m + 1]  BY <2>0 DEF Stepwise
    <3> QED  BY <2>3, <3>1, <3>2, <3>3
  <2> HIDE DEF f
  <2>4. \A x \in SUBSET (1 .. m + 1) : f[x] \in W[m + 1]  BY <2>2, <2>3
  <2>5. f \in [SUBSET (1 .. m + 1) -> W[m + 1]]  BY <2>4 DEF f
  <2>6. ASSUME NEW x \in SUBSET (1 .. m + 1)
        PROVE  f[x] = IF x = {} THEN b ELSE h[Max(x)][f[x \ {Max(x)}]]
    <3>1. CASE m + 1 \in x  BY <2>2, <3>1
    <3>2. CASE m + 1 \notin x
      <4>1. g[x] = IF x = {} THEN b ELSE h[Max(x)][g[x \ {Max(x)}]]  BY <2>1, <2>3, <3>2
      <4> QED  BY <2>3, <3>2, <4>1
    <3> QED  BY <3>1, <3>2
  <2>7. ASSUME NEW j \in 0 .. m + 1, NEW x \in SUBSET (1 .. j) PROVE f[x] \in W[j]
    <3>1. CASE j = m + 1  BY <2>4, <3>1
    <3>2. CASE j # m + 1
      <4>1. j \in 0 .. m /\ x \in SUBSET (1 .. m + 1) /\ m + 1 \notin x  BY <3>2
      <4> QED  BY <2>1, <2>3, <4>1
    <3> QED  BY <3>1, <3>2
  <2> QED  BY <2>5, <2>6, <2>7
<1> HIDE DEF Has
<1>3. T = Nat
  <2>1. T \in SUBSET Nat /\ 0 \in T  BY <1>1
  <2>2. \A m \in T : m + 1 \in T  BY <1>2
  <2> HIDE DEF T
  <2> QED  BY <2>1, <2>2, NatClosed
<1>4. Has(n)  BY <1>3
<1>5. n <= n  OBVIOUS
<1> QED  BY <1>4, <1>5 DEF Has, Folds, Staged

\* The numbers of 1 .. n below the largest of a set, and those of 1 .. n + 1.
LEMMA BelowLargest ==
    ASSUME NEW n \in Nat, NEW x \in SUBSET (1 .. n), x # {}
    PROVE  /\ Max(x) \in 1 .. n /\ Max(x) - 1 \in 0 .. n
           /\ x \ {Max(x)} \in SUBSET (1 .. Max(x) - 1)
<1>1. Max(x) \in x /\ \A y \in x : y <= Max(x)  BY Largest
<1>2. Max(x) \in 1 .. n  BY <1>1
<1>3. Max(x) - 1 \in 0 .. n  BY <1>2
<1>4. ASSUME NEW y \in x \ {Max(x)} PROVE y \in 1 .. Max(x) - 1
  <2>1. y \in 1 .. n /\ y <= Max(x) /\ y # Max(x)  BY <1>1
  <2> QED  BY <1>2, <2>1
<1> QED  BY <1>2, <1>3, <1>4

\* The largest number of 1 .. n + 1.
LEMMA LargestOfAll ==
    ASSUME NEW n \in Nat PROVE Max(1 .. n + 1) = n + 1 /\ (1 .. n + 1) \ {n + 1} = 1 .. n
<1>1. 1 .. n + 1 \in SUBSET (1 .. n + 1) /\ n + 1 \in 1 .. n + 1 /\ n + 1 \in Nat  OBVIOUS
<1>2. Max(1 .. n + 1) \in 1 .. n + 1 /\ n + 1 <= Max(1 .. n + 1)  BY <1>1, Largest
<1> QED  BY <1>2

\* What the steps of a fold lead to.
LEMMA FoldRange ==
    ASSUME NEW W, NEW n \in Nat, NEW g, g[{}] \in W[0],
           \A m \in 1 .. n : g[1 .. m - 1] \in W[m - 1] => g[1 .. m] \in W[m]
    PROVE  g[1 .. n] \in W[n]
<1> DEFINE Has(m) == m <= n => g[1 .. m] \in W[m]
           T == {m \in Nat : Has(m)}
<1>1. Has(0)
  <2>1. 1 .. 0 = {}  OBVIOUS
  <2> QED  BY <2>1
<1>2. ASSUME NEW m \in Nat, Has(m) PROVE Has(m + 1)
  <2> SUFFICES ASSUME m + 1 <= n PROVE g[1 .. m + 1] \in W[m + 1]  OBVIOUS
  <2>1. m + 1 \in 1 .. n /\ (m + 1) - 1 = m  OBVIOUS
  <2> QED  BY <1>2, <2>1
<1> HIDE DEF Has
<1>3. T = Nat
  <2>1. T \in SUBSET Nat /\ 0 \in T  BY <1>1
  <2>2. \A m \in T : m + 1 \in T  BY <1>2
  <2> HIDE DEF T
  <2> QED  BY <2>1, <2>2, NatClosed
<1>4. Has(n)  BY <1>3
<1> QED  BY <1>4 DEF Has

-----------------------------------------------------------------------------
(* A session of a v2.0 link *)

\* The numbers of the ring.
Ring == 0 .. Mod8 - 1

\* The parts of the payloads up to b.
Infos(b) == [n : 0 .. b, first : BOOLEAN, rem : Nat]

PlainStates == {"Disconnected", "AwaitingConnection", "AwaitingRelease",
                "Connected", "TimerRecovery"}

SFrames == {"RR", "RNR", "REJ", "SREJ"}
UFrames == {"SABM", "DISC", "UA", "DM"}

\* A frame a station sends; of the payloads of its owner, up to b.
Sendable(b) ==
    {f \in [type : {"I"} \cup SFrames \cup UFrames, cmd : BOOLEAN, pf : BOOLEAN,
            nr : Ring, ns : Ring, info : Infos(b) \cup {None}] :
        f.type = "I" => f.info \in Infos(b)}

\* A frame handed down, with one octet of control field.
Outs(b) == [frame : Sendable(b), extended : {FALSE}]

\* A session is a record of these and no other fields.
Fields ==
    {"state", "isExtended", "srejEnabled", "segmenter", "k", "n2", "vs", "va", "vr",
     "rc", "t1", "t3", "ownReceiverBusy", "peerReceiverBusy", "acknowledgePending",
     "rejectException", "srejExceptionCount", "layer3Initiated", "iFrameQueue",
     "sentIFrames", "storedReceivedIFrames", "selectivelyRetransmittedSinceAck",
     "vaAdvancedSinceT1Expiry", "droppedUa", "lastFrameZero", "peerCallAnswered", "mdl",
     "mdlRc", "nm201", "tm201", "confirmed", "known", "probing", "out", "seize",
     "reassembly", "replies", "sub", "told", "owner", "last", "got", "sdus"}

Shape(s) == s = [x \in Fields |-> s[x]]

Flags(s) ==
    /\ s.srejEnabled \in BOOLEAN /\ s.segmenter \in BOOLEAN /\ s.t1 \in BOOLEAN
    /\ s.t3 \in BOOLEAN /\ s.ownReceiverBusy \in BOOLEAN /\ s.peerReceiverBusy \in BOOLEAN
    /\ s.acknowledgePending \in BOOLEAN /\ s.rejectException \in BOOLEAN
    /\ s.layer3Initiated \in BOOLEAN /\ s.vaAdvancedSinceT1Expiry \in BOOLEAN
    /\ s.droppedUa \in BOOLEAN /\ s.peerCallAnswered \in BOOLEAN
    /\ s.confirmed \in BOOLEAN /\ s.known \in BOOLEAN /\ s.seize \in BOOLEAN

\* Of a v2.0 link that nobody negotiates about.
Plain(s) ==
    /\ s.isExtended = FALSE /\ s.mdl = "Ready" /\ s.tm201 = FALSE /\ s.probing = FALSE
    /\ s.mdlRc \in Nat /\ s.nm201 \in Nat

\* State, counts and sequence variables; rc never passes N2.
Numbers(s, b, B) ==
    /\ s.state \in PlainStates /\ s.owner \in {"up", "down"}
    /\ s.k \in Nat /\ s.n2 \in Nat \ {0} /\ s.rc \in 0 .. s.n2
    /\ s.vs \in Ring /\ s.va \in Ring /\ s.vr \in Ring
    /\ s.srejExceptionCount \in Nat /\ s.replies \in Nat
    /\ s.sub = b /\ s.told \in 0 .. b /\ s.last \in 0 .. B

\* Own frames, of payloads up to b; frames of the peer, up to B.
Stores(s, b, B) ==
    /\ s.iFrameQueue \in Seq(Infos(b)) /\ s.out \in Seq(Outs(b))
    /\ s.sentIFrames \in [Seqs -> Infos(b) \cup {None}]
    /\ s.storedReceivedIFrames \in [Seqs -> Infos(B) \cup {None}]
    /\ s.selectivelyRetransmittedSinceAck \in SUBSET Seqs
    /\ s.lastFrameZero \in Infos(B) \cup {None} /\ s.reassembly \in Seq(Infos(B))
    /\ s.got \in SUBSET Nat /\ s.sdus \in SUBSET Seq(Nat)

\* The window is kept, and every frame outstanding is there to be sent again.
Windowed(s) ==
    /\ outstanding(s) <= effectiveWindow(s)
    /\ \A n \in Ring : isOutstanding(s, n) => s.sentIFrames[n] # None

\* The session of a station whose owner submitted b payloads and whose peer B.
Good(s, b, B) ==
    /\ b \in Nat /\ B \in Nat
    /\ Shape(s) /\ Flags(s) /\ Plain(s) /\ Numbers(s, b, B) /\ Stores(s, b, B) /\ Windowed(s)

-----------------------------------------------------------------------------
(* The ring *)

\* The numbers of a v2.0 link, on a ring of Mod8.
LEMMA RingFacts ==
    /\ Mod8 \in Nat \ {0, 1} /\ Ring \subseteq Nat /\ Ring \subseteq Seqs /\ 0 \in Ring
BY ContextAssumption DEF Ring, Seqs

\* A difference on the ring, without the remainder.
LEMMA RingDistance ==
    ASSUME NEW x \in Ring, NEW y \in Ring
    PROVE  (x - y) % Mod8 = IF y <= x THEN x - y ELSE x - y + Mod8
BY ContextAssumption DEF Ring

\* The number after x.
LEMMA RingNext ==
    ASSUME NEW x \in Ring
    PROVE  (x + 1) % Mod8 = IF x = Mod8 - 1 THEN 0 ELSE x + 1
BY ContextAssumption DEF Ring

\* A v2.0 link counts modulo Mod8, and its window is below that.
LEMMA WindowBounds ==
    ASSUME NEW s, Plain(s), s.k \in Nat
    PROVE  modulus(s) = Mod8 /\ effectiveWindow(s) \in 0 .. Mod8 - 1
<1>1. modulus(s) = Mod8  BY DEF modulus, Plain
<1>2. Mod8 \div 2 \in Nat  BY ContextAssumption
<1> QED  BY <1>1, <1>2, ContextAssumption DEF effectiveWindow

-----------------------------------------------------------------------------
(* The verbs *)

\* What is appended to a sequence of the set leaves it one.
LEMMA Appending == \A S : \A q \in Seq(S) : \A e \in S : Append(q, e) \in Seq(S)
OBVIOUS

\* The verbs and assignments that touch neither the window nor the stored frames.
LEMMA SetT1 ==
    ASSUME NEW b, NEW B, NEW s, Good(s, b, B), NEW v \in BOOLEAN
    PROVE  Good([s EXCEPT !.t1 = v], b, B)
<1> DEFINE t == [s EXCEPT !.t1 = v]
<1>1. Shape(t)  BY DEF Good, Shape
<1>2. Flags(t)  BY DEF Good, Shape, Fields, Flags
<1>3. Plain(t)  BY DEF Good, Shape, Fields, Plain
<1>4. Numbers(t, b, B)  BY DEF Good, Shape, Fields, Numbers
<1>5. Stores(t, b, B)  BY DEF Good, Shape, Fields, Stores
<1>6. Windowed(t)
    BY DEF Good, Shape, Fields, Windowed, outstanding, effectiveWindow, isOutstanding,
           Ahead, modulus
<1> QED  BY <1>1, <1>2, <1>3, <1>4, <1>5, <1>6 DEF Good

LEMMA SetT3 ==
    ASSUME NEW b, NEW B, NEW s, Good(s, b, B), NEW v \in BOOLEAN
    PROVE  Good([s EXCEPT !.t3 = v], b, B)
<1> DEFINE t == [s EXCEPT !.t3 = v]
<1>1. Shape(t)  BY DEF Good, Shape
<1>2. Flags(t)  BY DEF Good, Shape, Fields, Flags
<1>3. Plain(t)  BY DEF Good, Shape, Fields, Plain
<1>4. Numbers(t, b, B)  BY DEF Good, Shape, Fields, Numbers
<1>5. Stores(t, b, B)  BY DEF Good, Shape, Fields, Stores
<1>6. Windowed(t)
    BY DEF Good, Shape, Fields, Windowed, outstanding, effectiveWindow, isOutstanding,
           Ahead, modulus
<1> QED  BY <1>1, <1>2, <1>3, <1>4, <1>5, <1>6 DEF Good

LEMMA NotifyGood ==
    ASSUME NEW b, NEW B, NEW s, Good(s, b, B)
    PROVE  Good(Notify(s), b, B)
<1> DEFINE t == Notify(s)
<1>1. Shape(t)  BY DEF Good, Shape, Notify
<1>2. Flags(t)  BY DEF Good, Shape, Fields, Flags, Notify
<1>3. Plain(t)  BY DEF Good, Shape, Fields, Plain, Notify
<1>4. Numbers(t, b, B)  BY DEF Good, Shape, Fields, Numbers, Notify
<1>5. Stores(t, b, B)  BY DEF Good, Shape, Fields, Stores, Notify
<1>6. Windowed(t)
    BY DEF Good, Shape, Fields, Windowed, outstanding, effectiveWindow, isOutstanding,
           Ahead, modulus, Notify
<1> QED  BY <1>1, <1>2, <1>3, <1>4, <1>5, <1>6 DEF Good

LEMMA SignalUpGood ==
    ASSUME NEW b, NEW B, NEW s, Good(s, b, B)
    PROVE  Good(SignalUp(s), b, B)
<1> DEFINE t == SignalUp(s)
<1>1. Shape(t)  BY DEF Good, Shape, SignalUp, Notify
<1>2. Flags(t)  BY DEF Good, Shape, Fields, Flags, SignalUp, Notify
<1>3. Plain(t)  BY DEF Good, Shape, Fields, Plain, SignalUp, Notify
<1>4. Numbers(t, b, B)  BY DEF Good, Shape, Fields, Numbers, SignalUp, Notify
<1>5. Stores(t, b, B)  BY DEF Good, Shape, Fields, Stores, SignalUp, Notify
<1>6. Windowed(t)
    BY DEF Good, Shape, Fields, Windowed, outstanding, effectiveWindow, isOutstanding,
           Ahead, modulus, SignalUp, Notify
<1> QED  BY <1>1, <1>2, <1>3, <1>4, <1>5, <1>6 DEF Good

LEMMA SignalDownGood ==
    ASSUME NEW b, NEW B, NEW s, Good(s, b, B)
    PROVE  Good(SignalDown(s), b, B)
<1> DEFINE t == SignalDown(s)
<1>1. Shape(t)  BY DEF Good, Shape, SignalDown, Notify
<1>2. Flags(t)  BY DEF Good, Shape, Fields, Flags, SignalDown, Notify
<1>3. Plain(t)  BY DEF Good, Shape, Fields, Plain, SignalDown, Notify
<1>4. Numbers(t, b, B)  BY DEF Good, Shape, Fields, Numbers, SignalDown, Notify
<1>5. Stores(t, b, B)  BY DEF Good, Shape, Fields, Stores, SignalDown, Notify
<1>6. Windowed(t)
    BY DEF Good, Shape, Fields, Windowed, outstanding, effectiveWindow, isOutstanding,
           Ahead, modulus, SignalDown, Notify
<1> QED  BY <1>1, <1>2, <1>3, <1>4, <1>5, <1>6 DEF Good

LEMMA ClearAckGood ==
    ASSUME NEW b, NEW B, NEW s, Good(s, b, B)
    PROVE  Good(ClearAcknowledgePending(s), b, B)
<1> DEFINE t == ClearAcknowledgePending(s)
<1>1. Shape(t)  BY DEF Good, Shape, ClearAcknowledgePending
<1>2. Flags(t)  BY DEF Good, Shape, Fields, Flags, ClearAcknowledgePending
<1>3. Plain(t)  BY DEF Good, Shape, Fields, Plain, ClearAcknowledgePending
<1>4. Numbers(t, b, B)  BY DEF Good, Shape, Fields, Numbers, ClearAcknowledgePending
<1>5. Stores(t, b, B)  BY DEF Good, Shape, Fields, Stores, ClearAcknowledgePending
<1>6. Windowed(t)
    BY DEF Good, Shape, Fields, Windowed, outstanding, effectiveWindow, isOutstanding,
           Ahead, modulus, ClearAcknowledgePending
<1> QED  BY <1>1, <1>2, <1>3, <1>4, <1>5, <1>6 DEF Good

LEMMA DiscardGood ==
    ASSUME NEW b, NEW B, NEW s, Good(s, b, B)
    PROVE  Good(DiscardQueue(s), b, B)
<1> DEFINE t == DiscardQueue(s)
<1>1. Shape(t)  BY DEF Good, Shape, DiscardQueue
<1>2. Flags(t)  BY DEF Good, Shape, Fields, Flags, DiscardQueue
<1>3. Plain(t)  BY DEF Good, Shape, Fields, Plain, DiscardQueue
<1>4. Numbers(t, b, B)  BY DEF Good, Shape, Fields, Numbers, DiscardQueue
<1>5. Stores(t, b, B)  BY DEF Good, Shape, Fields, Stores, DiscardQueue
<1>6. Windowed(t)
    BY DEF Good, Shape, Fields, Windowed, outstanding, effectiveWindow, isOutstanding,
           Ahead, modulus, DiscardQueue
<1> QED  BY <1>1, <1>2, <1>3, <1>4, <1>5, <1>6 DEF Good

\* Clearing the exceptions.
LEMMA ClearGood ==
    ASSUME NEW b, NEW B, NEW s, Good(s, b, B)
    PROVE  Good(ClearExceptionConditions(s), b, B)
<1> DEFINE t == ClearExceptionConditions(s)
<1>1. Shape(t)  BY DEF Good, Shape, ClearExceptionConditions
<1>2. Flags(t)  BY DEF Good, Shape, Fields, Flags, ClearExceptionConditions
<1>3. Plain(t)  BY DEF Good, Shape, Fields, Plain, ClearExceptionConditions
<1>4. Numbers(t, b, B)  BY DEF Good, Shape, Fields, Numbers, ClearExceptionConditions
<1>5. Stores(t, b, B)  BY DEF Good, Shape, Fields, Stores, ClearExceptionConditions
<1>6. Windowed(t)
    BY DEF Good, Shape, Fields, Windowed, outstanding, effectiveWindow, isOutstanding,
           Ahead, modulus, ClearExceptionConditions
<1> QED  BY <1>1, <1>2, <1>3, <1>4, <1>5, <1>6 DEF Good

LEMMA IncSrejGood ==
    ASSUME NEW b, NEW B, NEW s, Good(s, b, B)
    PROVE  Good(IncrementSrejException(s), b, B)
<1> DEFINE t == IncrementSrejException(s)
<1>1. Shape(t)  BY DEF Good, Shape, IncrementSrejException
<1>2. Flags(t)  BY DEF Good, Shape, Fields, Flags, IncrementSrejException
<1>3. Plain(t)  BY DEF Good, Shape, Fields, Plain, IncrementSrejException
<1>4. Numbers(t, b, B)  BY DEF Good, Shape, Fields, Numbers, IncrementSrejException
<1>5. Stores(t, b, B)  BY DEF Good, Shape, Fields, Stores, IncrementSrejException
<1>6. Windowed(t)
    BY DEF Good, Shape, Fields, Windowed, outstanding, effectiveWindow, isOutstanding,
           Ahead, modulus, IncrementSrejException
<1> QED  BY <1>1, <1>2, <1>3, <1>4, <1>5, <1>6 DEF Good

LEMMA DecSrejGood ==
    ASSUME NEW b, NEW B, NEW s, Good(s, b, B)
    PROVE  Good(DecrementSrejException(s), b, B)
<1> DEFINE t == DecrementSrejException(s)
<1>1. Shape(t)  BY DEF Good, Shape, DecrementSrejException
<1>2. Flags(t)  BY DEF Good, Shape, Fields, Flags, DecrementSrejException
<1>3. Plain(t)  BY DEF Good, Shape, Fields, Plain, DecrementSrejException
<1>4. Numbers(t, b, B)  BY DEF Good, Shape, Fields, Numbers, DecrementSrejException
<1>5. Stores(t, b, B)  BY DEF Good, Shape, Fields, Stores, DecrementSrejException
<1>6. Windowed(t)
    BY DEF Good, Shape, Fields, Windowed, outstanding, effectiveWindow, isOutstanding,
           Ahead, modulus, DecrementSrejException
<1> QED  BY <1>1, <1>2, <1>3, <1>4, <1>5, <1>6 DEF Good

\* A reset: nothing is outstanding.
LEMMA ZeroGood ==
    ASSUME NEW b, NEW B, NEW s, Good(s, b, B)
    PROVE  Good(ZeroSequenceVariables(s), b, B)
<1> DEFINE t == ZeroSequenceVariables(s)
<1>1. Shape(t)  BY DEF Good, Shape, ZeroSequenceVariables
<1>2. Flags(t)  BY DEF Good, Shape, Fields, Flags, ZeroSequenceVariables
<1>3. Plain(t)  BY DEF Good, Shape, Fields, Plain, ZeroSequenceVariables
<1>4. Numbers(t, b, B)  BY RingFacts DEF Good, Shape, Fields, Numbers, ZeroSequenceVariables
<1>5. Stores(t, b, B)  BY DEF Good, Shape, Fields, Stores, ZeroSequenceVariables
<1>6. Windowed(t)
  <2>1. t.vs = 0 /\ t.va = 0  BY DEF Good, Shape, Fields, ZeroSequenceVariables
  <2>2. modulus(t) = Mod8 /\ effectiveWindow(t) \in Nat  BY <1>3, <1>4, WindowBounds DEF Numbers
  <2>3. outstanding(t) = 0
    BY <2>1, <2>2, RingFacts, RingDistance DEF outstanding, Ahead
  <2>4. \A n \in Ring : ~isOutstanding(t, n)
    BY <2>1, <2>2, <2>3, RingFacts, RingDistance DEF isOutstanding, Ahead, Ring
  <2> QED  BY <2>2, <2>3, <2>4 DEF Windowed
<1> QED  BY <1>1, <1>2, <1>3, <1>4, <1>5, <1>6 DEF Good

\* A frame is handed down.
LEMMA SendGood ==
    ASSUME NEW b, NEW B, NEW s, Good(s, b, B), NEW f \in Sendable(b)
    PROVE  Good(SendFrame(s, f), b, B)
<1> DEFINE t == SendFrame(s, f)
<1>1. Shape(t)  BY DEF Good, Shape, SendFrame
<1>2. Flags(t)  BY DEF Good, Shape, Fields, Flags, SendFrame
<1>3. Plain(t)  BY DEF Good, Shape, Fields, Plain, SendFrame
<1>4. Numbers(t, b, B)  BY DEF Good, Shape, Fields, Numbers, SendFrame
<1>5. Stores(t, b, B)
  <2>1. [frame |-> f, extended |-> s.isExtended] \in Outs(b)  BY DEF Good, Plain, Outs
  <2>2. s.out \in Seq(Outs(b))  BY DEF Good, Stores
  <2>3. Append(s.out, [frame |-> f, extended |-> s.isExtended]) \in Seq(Outs(b))
    BY <2>1, <2>2, Appending
  <2> QED  BY <2>3 DEF Good, Shape, Fields, Stores, SendFrame
<1>6. Windowed(t)
    BY DEF Good, Shape, Fields, Windowed, outstanding, effectiveWindow, isOutstanding,
           Ahead, modulus, SendFrame
<1> QED  BY <1>1, <1>2, <1>3, <1>4, <1>5, <1>6 DEF Good

LEMMA GotoGood ==
    ASSUME NEW b, NEW B, NEW s, Good(s, b, B), NEW state \in PlainStates
    PROVE  Good(Goto(s, state), b, B)
<1> DEFINE t == Goto(s, state)
<1>1. Shape(t)  BY DEF Good, Shape, Goto
<1>2. Flags(t)  BY DEF Good, Shape, Fields, Flags, Goto
<1>3. Plain(t)  BY DEF Good, Shape, Fields, Plain, Goto
<1>4. Numbers(t, b, B)  BY DEF Good, Shape, Fields, Numbers, Goto
<1>5. Stores(t, b, B)  BY DEF Good, Shape, Fields, Stores, Goto
<1>6. Windowed(t)
    BY DEF Good, Shape, Fields, Windowed, outstanding, effectiveWindow, isOutstanding,
           Ahead, modulus, Goto
<1> QED  BY <1>1, <1>2, <1>3, <1>4, <1>5, <1>6 DEF Good

LEMMA SetRc ==
    ASSUME NEW b, NEW B, NEW s, Good(s, b, B), NEW v \in 0 .. s.n2
    PROVE  Good([s EXCEPT !.rc = v], b, B)
<1> DEFINE t == [s EXCEPT !.rc = v]
<1>1. Shape(t)  BY DEF Good, Shape
<1>2. Flags(t)  BY DEF Good, Shape, Fields, Flags
<1>3. Plain(t)  BY DEF Good, Shape, Fields, Plain
<1>4. Numbers(t, b, B)  BY DEF Good, Shape, Fields, Numbers
<1>5. Stores(t, b, B)  BY DEF Good, Shape, Fields, Stores
<1>6. Windowed(t)
    BY DEF Good, Shape, Fields, Windowed, outstanding, effectiveWindow, isOutstanding,
           Ahead, modulus
<1> QED  BY <1>1, <1>2, <1>3, <1>4, <1>5, <1>6 DEF Good

LEMMA SetOwnBusy ==
    ASSUME NEW b, NEW B, NEW s, Good(s, b, B), NEW v \in BOOLEAN
    PROVE  Good([s EXCEPT !.ownReceiverBusy = v], b, B)
<1> DEFINE t == [s EXCEPT !.ownReceiverBusy = v]
<1>1. Shape(t)  BY DEF Good, Shape
<1>2. Flags(t)  BY DEF Good, Shape, Fields, Flags
<1>3. Plain(t)  BY DEF Good, Shape, Fields, Plain
<1>4. Numbers(t, b, B)  BY DEF Good, Shape, Fields, Numbers
<1>5. Stores(t, b, B)  BY DEF Good, Shape, Fields, Stores
<1>6. Windowed(t)
    BY DEF Good, Shape, Fields, Windowed, outstanding, effectiveWindow, isOutstanding,
           Ahead, modulus
<1> QED  BY <1>1, <1>2, <1>3, <1>4, <1>5, <1>6 DEF Good

LEMMA SetPeerBusy ==
    ASSUME NEW b, NEW B, NEW s, Good(s, b, B), NEW v \in BOOLEAN
    PROVE  Good([s EXCEPT !.peerReceiverBusy = v], b, B)
<1> DEFINE t == [s EXCEPT !.peerReceiverBusy = v]
<1>1. Shape(t)  BY DEF Good, Shape
<1>2. Flags(t)  BY DEF Good, Shape, Fields, Flags
<1>3. Plain(t)  BY DEF Good, Shape, Fields, Plain
<1>4. Numbers(t, b, B)  BY DEF Good, Shape, Fields, Numbers
<1>5. Stores(t, b, B)  BY DEF Good, Shape, Fields, Stores
<1>6. Windowed(t)
    BY DEF Good, Shape, Fields, Windowed, outstanding, effectiveWindow, isOutstanding,
           Ahead, modulus
<1> QED  BY <1>1, <1>2, <1>3, <1>4, <1>5, <1>6 DEF Good

LEMMA SetReject ==
    ASSUME NEW b, NEW B, NEW s, Good(s, b, B), NEW v \in BOOLEAN
    PROVE  Good([s EXCEPT !.rejectException = v], b, B)
<1> DEFINE t == [s EXCEPT !.rejectException = v]
<1>1. Shape(t)  BY DEF Good, Shape
<1>2. Flags(t)  BY DEF Good, Shape, Fields, Flags
<1>3. Plain(t)  BY DEF Good, Shape, Fields, Plain
<1>4. Numbers(t, b, B)  BY DEF Good, Shape, Fields, Numbers
<1>5. Stores(t, b, B)  BY DEF Good, Shape, Fields, Stores
<1>6. Windowed(t)
    BY DEF Good, Shape, Fields, Windowed, outstanding, effectiveWindow, isOutstanding,
           Ahead, modulus
<1> QED  BY <1>1, <1>2, <1>3, <1>4, <1>5, <1>6 DEF Good

LEMMA SetLayer3 ==
    ASSUME NEW b, NEW B, NEW s, Good(s, b, B), NEW v \in BOOLEAN
    PROVE  Good([s EXCEPT !.layer3Initiated = v], b, B)
<1> DEFINE t == [s EXCEPT !.layer3Initiated = v]
<1>1. Shape(t)  BY DEF Good, Shape
<1>2. Flags(t)  BY DEF Good, Shape, Fields, Flags
<1>3. Plain(t)  BY DEF Good, Shape, Fields, Plain
<1>4. Numbers(t, b, B)  BY DEF Good, Shape, Fields, Numbers
<1>5. Stores(t, b, B)  BY DEF Good, Shape, Fields, Stores
<1>6. Windowed(t)
    BY DEF Good, Shape, Fields, Windowed, outstanding, effectiveWindow, isOutstanding,
           Ahead, modulus
<1> QED  BY <1>1, <1>2, <1>3, <1>4, <1>5, <1>6 DEF Good

LEMMA SetDroppedUa ==
    ASSUME NEW b, NEW B, NEW s, Good(s, b, B), NEW v \in BOOLEAN
    PROVE  Good([s EXCEPT !.droppedUa = v], b, B)
<1> DEFINE t == [s EXCEPT !.droppedUa = v]
<1>1. Shape(t)  BY DEF Good, Shape
<1>2. Flags(t)  BY DEF Good, Shape, Fields, Flags
<1>3. Plain(t)  BY DEF Good, Shape, Fields, Plain
<1>4. Numbers(t, b, B)  BY DEF Good, Shape, Fields, Numbers
<1>5. Stores(t, b, B)  BY DEF Good, Shape, Fields, Stores
<1>6. Windowed(t)
    BY DEF Good, Shape, Fields, Windowed, outstanding, effectiveWindow, isOutstanding,
           Ahead, modulus
<1> QED  BY <1>1, <1>2, <1>3, <1>4, <1>5, <1>6 DEF Good

LEMMA SetAnswered ==
    ASSUME NEW b, NEW B, NEW s, Good(s, b, B), NEW v \in BOOLEAN
    PROVE  Good([s EXCEPT !.peerCallAnswered = v], b, B)
<1> DEFINE t == [s EXCEPT !.peerCallAnswered = v]
<1>1. Shape(t)  BY DEF Good, Shape
<1>2. Flags(t)  BY DEF Good, Shape, Fields, Flags
<1>3. Plain(t)  BY DEF Good, Shape, Fields, Plain
<1>4. Numbers(t, b, B)  BY DEF Good, Shape, Fields, Numbers
<1>5. Stores(t, b, B)  BY DEF Good, Shape, Fields, Stores
<1>6. Windowed(t)
    BY DEF Good, Shape, Fields, Windowed, outstanding, effectiveWindow, isOutstanding,
           Ahead, modulus
<1> QED  BY <1>1, <1>2, <1>3, <1>4, <1>5, <1>6 DEF Good

LEMMA SetAdvanced ==
    ASSUME NEW b, NEW B, NEW s, Good(s, b, B), NEW v \in BOOLEAN
    PROVE  Good([s EXCEPT !.vaAdvancedSinceT1Expiry = v], b, B)
<1> DEFINE t == [s EXCEPT !.vaAdvancedSinceT1Expiry = v]
<1>1. Shape(t)  BY DEF Good, Shape
<1>2. Flags(t)  BY DEF Good, Shape, Fields, Flags
<1>3. Plain(t)  BY DEF Good, Shape, Fields, Plain
<1>4. Numbers(t, b, B)  BY DEF Good, Shape, Fields, Numbers
<1>5. Stores(t, b, B)  BY DEF Good, Shape, Fields, Stores
<1>6. Windowed(t)
    BY DEF Good, Shape, Fields, Windowed, outstanding, effectiveWindow, isOutstanding,
           Ahead, modulus
<1> QED  BY <1>1, <1>2, <1>3, <1>4, <1>5, <1>6 DEF Good

LEMMA SetSeize ==
    ASSUME NEW b, NEW B, NEW s, Good(s, b, B), NEW v \in BOOLEAN
    PROVE  Good([s EXCEPT !.seize = v], b, B)
<1> DEFINE t == [s EXCEPT !.seize = v]
<1>1. Shape(t)  BY DEF Good, Shape
<1>2. Flags(t)  BY DEF Good, Shape, Fields, Flags
<1>3. Plain(t)  BY DEF Good, Shape, Fields, Plain
<1>4. Numbers(t, b, B)  BY DEF Good, Shape, Fields, Numbers
<1>5. Stores(t, b, B)  BY DEF Good, Shape, Fields, Stores
<1>6. Windowed(t)
    BY DEF Good, Shape, Fields, Windowed, outstanding, effectiveWindow, isOutstanding,
           Ahead, modulus
<1> QED  BY <1>1, <1>2, <1>3, <1>4, <1>5, <1>6 DEF Good

LEMMA SetFrameZero ==
    ASSUME NEW b, NEW B, NEW s, Good(s, b, B), NEW v \in Infos(B) \cup {None}
    PROVE  Good([s EXCEPT !.lastFrameZero = v], b, B)
<1> DEFINE t == [s EXCEPT !.lastFrameZero = v]
<1>1. Shape(t)  BY DEF Good, Shape
<1>2. Flags(t)  BY DEF Good, Shape, Fields, Flags
<1>3. Plain(t)  BY DEF Good, Shape, Fields, Plain
<1>4. Numbers(t, b, B)  BY DEF Good, Shape, Fields, Numbers
<1>5. Stores(t, b, B)  BY DEF Good, Shape, Fields, Stores
<1>6. Windowed(t)
    BY DEF Good, Shape, Fields, Windowed, outstanding, effectiveWindow, isOutstanding,
           Ahead, modulus
<1> QED  BY <1>1, <1>2, <1>3, <1>4, <1>5, <1>6 DEF Good

LEMMA SetVr ==
    ASSUME NEW b, NEW B, NEW s, Good(s, b, B), NEW v \in Ring
    PROVE  Good([s EXCEPT !.vr = v], b, B)
<1> DEFINE t == [s EXCEPT !.vr = v]
<1>1. Shape(t)  BY DEF Good, Shape
<1>2. Flags(t)  BY DEF Good, Shape, Fields, Flags
<1>3. Plain(t)  BY DEF Good, Shape, Fields, Plain
<1>4. Numbers(t, b, B)  BY DEF Good, Shape, Fields, Numbers
<1>5. Stores(t, b, B)  BY DEF Good, Shape, Fields, Stores
<1>6. Windowed(t)
    BY DEF Good, Shape, Fields, Windowed, outstanding, effectiveWindow, isOutstanding,
           Ahead, modulus
<1> QED  BY <1>1, <1>2, <1>3, <1>4, <1>5, <1>6 DEF Good

LEMMA TimersGood ==
    ASSUME NEW b, NEW B, NEW s, Good(s, b, B)
    PROVE  /\ Good(StartT1(s), b, B) /\ Good(StopT1(s), b, B)
           /\ Good(StartT3(s), b, B) /\ Good(StopT3(s), b, B)
BY SetT1, SetT3 DEF StartT1, StopT1, StartT3, StopT3

\* V(a) moves towards V(s): what is outstanding after it was so before.
LEMMA AdvanceShrinks ==
    ASSUME NEW va \in Ring, NEW vs \in Ring, NEW nr \in Ring,
           (nr - va) % Mod8 <= (vs - va) % Mod8
    PROVE  /\ (vs - nr) % Mod8 <= (vs - va) % Mod8
           /\ \A n \in Ring : (n - nr) % Mod8 < (vs - nr) % Mod8
                              => (n - va) % Mod8 < (vs - va) % Mod8
<1>1. Mod8 \in Nat /\ Ring = 0 .. Mod8 - 1  BY RingFacts DEF Ring
<1>2. (vs - nr) % Mod8 <= (vs - va) % Mod8  BY <1>1, RingDistance
<1>3. ASSUME NEW n \in Ring, (n - nr) % Mod8 < (vs - nr) % Mod8
      PROVE  (n - va) % Mod8 < (vs - va) % Mod8
  BY <1>1, <1>3, RingDistance
<1> QED  BY <1>2, <1>3

Acceptable(s, nr) == nr \in Ring /\ Ahead(s, s.va, nr) <= outstanding(s)

\* An acknowledgment in the window takes V(A) up: fewer frames are outstanding.
LEMMA AdvanceVaGood ==
    ASSUME NEW b, NEW B, NEW s, Good(s, b, B), NEW nr, Acceptable(s, nr)
    PROVE  Good(AdvanceVa(s, nr), b, B)
<1> DEFINE u == [s EXCEPT !.va = nr, !.selectivelyRetransmittedSinceAck = {}]
           sent == [n \in Seqs |-> IF isOutstanding(u, n) THEN u.sentIFrames[n] ELSE None]
           t == [u EXCEPT !.sentIFrames = sent]
<1>0. AdvanceVa(s, nr) = IF nr = s.va THEN s ELSE t  BY DEF AdvanceVa
<1>a. Shape(u)  BY DEF Good, Shape
<1>b. /\ u.va = nr /\ u.vs = s.vs /\ u.isExtended = s.isExtended
      /\ u.sentIFrames = s.sentIFrames
  BY DEF Good, Shape, Fields
<1>1. Shape(t)  BY <1>a DEF Shape
<1>c. /\ t.va = nr /\ t.vs = s.vs /\ t.isExtended = s.isExtended /\ t.k = s.k
      /\ t.srejEnabled = s.srejEnabled /\ t.sentIFrames = sent
  <2> HIDE DEF sent
  <2> QED  BY DEF Good, Shape, Fields
<1>d. sent \in [Seqs -> Infos(b) \cup {None}]
  <2>1. s.sentIFrames \in [Seqs -> Infos(b) \cup {None}]  BY DEF Good, Stores
  <2> HIDE DEF u
  <2> QED  BY <1>b, <2>1
<1>6. Windowed(t)
  <2>1. modulus(s) = Mod8 /\ modulus(t) = Mod8 /\ modulus(u) = Mod8
    BY <1>b, <1>c DEF Good, Plain, modulus
  <2>2. s.va \in Ring /\ s.vs \in Ring /\ nr \in Ring  BY DEF Good, Numbers, Acceptable
  <2>3. (nr - s.va) % Mod8 <= (s.vs - s.va) % Mod8
    BY <2>1 DEF Acceptable, Ahead, outstanding
  <2>4. outstanding(t) = (s.vs - nr) % Mod8 /\ outstanding(s) = (s.vs - s.va) % Mod8
    BY <1>c, <2>1 DEF outstanding, Ahead
  <2>5. outstanding(t) <= outstanding(s)  BY <2>2, <2>3, <2>4, AdvanceShrinks
  <2>6. effectiveWindow(t) = effectiveWindow(s)
    BY <1>c, <2>1 DEF effectiveWindow
  <2>7. outstanding(s) \in Int /\ outstanding(t) \in Int /\ effectiveWindow(s) \in Int
    BY <2>2, <2>4, RingDistance, RingFacts, WindowBounds DEF Good, Numbers, Ring
  <2>8. outstanding(t) <= effectiveWindow(t)
    BY <2>5, <2>6, <2>7 DEF Good, Windowed
  <2>9. ASSUME NEW n \in Ring, isOutstanding(t, n) PROVE t.sentIFrames[n] # None
    <3>1. (n - nr) % Mod8 < (s.vs - nr) % Mod8
      BY <1>c, <2>1, <2>4, <2>9 DEF isOutstanding, Ahead
    <3>2. isOutstanding(s, n)
      BY <2>1, <2>2, <2>3, <2>4, <3>1, AdvanceShrinks DEF isOutstanding, Ahead
    <3>3. isOutstanding(u, n)
      BY <1>b, <2>1, <3>1 DEF isOutstanding, Ahead, outstanding
    <3>4. n \in Seqs  BY RingFacts
    <3>5. sent[n] = s.sentIFrames[n]
      <4> HIDE DEF u
      <4> QED  BY <1>b, <3>3, <3>4
    <3> QED  BY <1>c, <3>2, <3>5 DEF Good, Windowed
  <2> QED  BY <2>8, <2>9 DEF Windowed
<1> HIDE DEF sent
<1>2. Flags(t)  BY DEF Good, Shape, Fields, Flags
<1>3. Plain(t)  BY DEF Good, Shape, Fields, Plain
<1>4. Numbers(t, b, B)  BY DEF Good, Shape, Fields, Numbers, Acceptable
<1>5. Stores(t, b, B)  BY <1>d DEF Good, Shape, Fields, Stores
<1> QED  BY <1>0, <1>1, <1>2, <1>3, <1>4, <1>5, <1>6 DEF Good

\* V(A) follows the N(R) of a frame, and T1 is kept or stopped.
LEMMA CheckGood ==
    ASSUME NEW b, NEW B, NEW s, Good(s, b, B), NEW nr, Acceptable(s, nr)
    PROVE  Good(CheckIFrameAcknowledged(s, nr), b, B)
BY AdvanceVaGood, TimersGood DEF CheckIFrameAcknowledged

\* The frames a station builds are of the ones it may send.
LEMMA UFrameSendable ==
    \A b : \A type \in UFrames : \A cmd, pf \in BOOLEAN : UFrame(type, cmd, pf) \in Sendable(b)
BY RingFacts DEF UFrame, Frame, Sendable, UFrames, SFrames

LEMMA SendSGood ==
    ASSUME NEW b, NEW B, NEW s, Good(s, b, B), NEW type \in SFrames,
           NEW cmd \in BOOLEAN, NEW pf \in BOOLEAN
    PROVE  Good(SendSFrame(s, type, cmd, pf), b, B)
<1>1. Frame(type, cmd, pf, s.vr, 0, None) \in Sendable(b)
  BY RingFacts DEF Frame, Sendable, SFrames, Good, Numbers
<1> QED  BY <1>1, SendGood DEF SendSFrame

LEMMA SendUGood ==
    ASSUME NEW b, NEW B, NEW s, Good(s, b, B), NEW type \in UFrames,
           NEW cmd \in BOOLEAN, NEW pf \in BOOLEAN
    PROVE  Good(SendFrame(s, UFrame(type, cmd, pf)), b, B)
BY UFrameSendable, SendGood

LEMMA EstablishGood ==
    ASSUME NEW b, NEW B, NEW s, Good(s, b, B)
    PROVE  Good(EstablishDataLink(s), b, B)
<1> DEFINE t == [ClearExceptionConditions(s) EXCEPT !.rc = 1]
<1>1. Good(ClearExceptionConditions(s), b, B)  BY ClearGood
<1>2. ClearExceptionConditions(s).n2 \in Nat \ {0}  BY <1>1 DEF Good, Numbers
<1>3. Good(t, b, B)  BY <1>1, <1>2, SetRc
<1>4. EstablishDataLink(s) = StartT1(StopT3(SendFrame(t, UFrame("SABM", TRUE, TRUE))))
  BY <1>3 DEF EstablishDataLink, Good, Plain
<1> QED  BY <1>3, <1>4, SendUGood, TimersGood DEF UFrames

\* Taking a frame that fits in the window moves V(s) on by one.
LEMMA EmitGrows ==
    ASSUME NEW va \in Ring, NEW vs \in Ring, NEW w \in 0 .. Mod8 - 1, (vs - va) % Mod8 < w
    PROVE  /\ (vs + 1) % Mod8 \in Ring
           /\ (((vs + 1) % Mod8) - va) % Mod8 <= w
           /\ \A n \in Ring : (n - va) % Mod8 < (((vs + 1) % Mod8) - va) % Mod8
                              => n = vs \/ (n - va) % Mod8 < (vs - va) % Mod8
<1>1. Mod8 \in Nat \ {0, 1} /\ Ring = 0 .. Mod8 - 1  BY RingFacts DEF Ring
<1>2. (vs + 1) % Mod8 = IF vs = Mod8 - 1 THEN 0 ELSE vs + 1  BY RingNext
<1>3. (vs + 1) % Mod8 \in Ring  BY <1>1, <1>2
<1>4. (vs - va) % Mod8 = IF va <= vs THEN vs - va ELSE vs - va + Mod8  BY RingDistance
<1>5. (((vs + 1) % Mod8) - va) % Mod8 = ((vs - va) % Mod8) + 1
  <2> DEFINE v == (vs + 1) % Mod8
  <2>1. (v - va) % Mod8 = IF va <= v THEN v - va ELSE v - va + Mod8  BY <1>3, RingDistance
  <2>2. v = IF vs = Mod8 - 1 THEN 0 ELSE vs + 1  BY <1>2
  <2> HIDE DEF v
  <2> QED  BY SMTT(60), <1>1, <1>4, <2>1, <2>2
<1>6. ASSUME NEW n \in Ring, (n - va) % Mod8 < (((vs + 1) % Mod8) - va) % Mod8
      PROVE  n = vs \/ (n - va) % Mod8 < (vs - va) % Mod8
  <2>1. (n - va) % Mod8 = IF va <= n THEN n - va ELSE n - va + Mod8  BY RingDistance
  <2>2. (n - va) % Mod8 <= (vs - va) % Mod8  BY <1>1, <1>4, <1>5, <1>6, <2>1
  <2> QED  BY <1>1, <1>4, <2>1, <2>2
<1>7. ((vs - va) % Mod8) + 1 <= w  BY <1>1, <1>4
<1> QED  BY <1>3, <1>5, <1>6, <1>7

\* A new I frame goes out where the window has room, and is stored.
LEMMA EmitGood ==
    ASSUME NEW b, NEW B, NEW s, Good(s, b, B), canTransmitIFrame(s), NEW info \in Infos(b)
    PROVE  Good(EmitIFrame(s, info), b, B)
<1> DEFINE f == Frame("I", TRUE, FALSE, s.vr, s.vs, info)
           u == SendFrame(s, f)
           vs == incrementSeq(s, s.vs)
           t == [u EXCEPT !.sentIFrames[s.vs] = info,
                          !.selectivelyRetransmittedSinceAck = @ \ {s.vs}, !.vs = vs]
<1>0. EmitIFrame(s, info) = t  BY DEF EmitIFrame
<1>a. f \in Sendable(b)
  BY DEF Frame, Sendable, Good, Numbers
<1>b. Good(u, b, B)  BY <1>a, SendGood
<1>c. /\ u.vs = s.vs /\ u.va = s.va /\ u.k = s.k /\ u.srejEnabled = s.srejEnabled
      /\ u.isExtended = FALSE /\ u.sentIFrames = s.sentIFrames
  BY DEF Good, Shape, Fields, SendFrame, Plain
<1>d. /\ modulus(s) = Mod8 /\ s.va \in Ring /\ s.vs \in Ring /\ vs = (s.vs + 1) % Mod8
      /\ effectiveWindow(s) \in 0 .. Mod8 - 1 /\ s.vs \in Seqs
  BY RingFacts, WindowBounds DEF Good, Plain, modulus, Numbers, incrementSeq
<1>e. (s.vs - s.va) % Mod8 < effectiveWindow(s)
  BY <1>d DEF canTransmitIFrame, outstanding, Ahead
<1>f. /\ vs \in Ring /\ (vs - s.va) % Mod8 <= effectiveWindow(s)
      /\ \A n \in Ring : (n - s.va) % Mod8 < (vs - s.va) % Mod8
                         => n = s.vs \/ (n - s.va) % Mod8 < (s.vs - s.va) % Mod8
  BY <1>d, <1>e, EmitGrows
<1> HIDE DEF u, vs
<1>1. Shape(t)  BY <1>b DEF Good, Shape
<1>g. /\ t.vs = vs /\ t.va = s.va /\ t.k = s.k /\ t.srejEnabled = s.srejEnabled
      /\ t.isExtended = FALSE /\ t.sentIFrames = [s.sentIFrames EXCEPT ![s.vs] = info]
  BY <1>b, <1>c DEF Good, Shape, Fields
<1>2. Flags(t)  BY <1>b DEF Good, Shape, Fields, Flags
<1>3. Plain(t)  BY <1>b DEF Good, Shape, Fields, Plain
<1>4. Numbers(t, b, B)  BY <1>b, <1>f DEF Good, Shape, Fields, Numbers
<1>5. Stores(t, b, B)  BY <1>b, <1>d DEF Good, Shape, Fields, Stores
<1>6. Windowed(t)
  <2>1. modulus(t) = Mod8 /\ effectiveWindow(t) = effectiveWindow(s)
    BY <1>d, <1>g DEF effectiveWindow, modulus
  <2>2. outstanding(t) = (vs - s.va) % Mod8 /\ outstanding(s) = (s.vs - s.va) % Mod8
    BY <1>d, <1>g, <2>1 DEF outstanding, Ahead
  <2>3. outstanding(t) <= effectiveWindow(t)  BY <1>f, <2>1, <2>2
  <2>4. ASSUME NEW n \in Ring, isOutstanding(t, n) PROVE t.sentIFrames[n] # None
    <3>1. n = s.vs \/ (n - s.va) % Mod8 < (s.vs - s.va) % Mod8
      BY <1>f, <1>g, <2>1, <2>2, <2>4 DEF isOutstanding, Ahead
    <3>2. CASE n = s.vs
      <4>1. t.sentIFrames[n] = info  BY <1>d, <1>g, <3>2 DEF Good, Stores
      <4> QED  BY <4>1, NoneIsNoPayload DEF Infos, Good, Numbers
    <3>3. CASE n # s.vs
      <4>1. isOutstanding(s, n)  BY <1>d, <2>2, <3>1, <3>3 DEF isOutstanding, Ahead
      <4>2. t.sentIFrames[n] = s.sentIFrames[n]  BY <1>d, <1>g, <3>3, RingFacts DEF Good, Stores
      <4> QED  BY <4>1, <4>2 DEF Good, Windowed
    <3> QED  BY <3>2, <3>3
  <2> QED  BY <2>3, <2>4 DEF Windowed
<1> QED  BY <1>0, <1>b, <1>1, <1>2, <1>3, <1>4, <1>5, <1>6 DEF Good

\* An I frame goes out again.
LEMMA EmitOldGood ==
    ASSUME NEW b, NEW B, NEW s, Good(s, b, B), NEW ns \in Ring
    PROVE  Good(EmitOldIFrame(s, ns), b, B)
<1>1. s.sentIFrames[ns] \in Infos(b) \cup {None}  BY RingFacts DEF Good, Stores
<1>2. CASE s.sentIFrames[ns] = None  BY <1>2 DEF EmitOldIFrame
<1>3. CASE s.sentIFrames[ns] # None
  <2>1. Frame("I", TRUE, FALSE, s.vr, ns, s.sentIFrames[ns]) \in Sendable(b)
    BY <1>1, <1>3 DEF Frame, Sendable, Good, Numbers
  <2> QED  BY <1>3, <2>1, SendGood DEF EmitOldIFrame
<1> QED  BY <1>2, <1>3

\* One frame is sent again, where it is stored.
LEMMA ReplayGood ==
    ASSUME NEW b, NEW B, NEW s, Good(s, b, B), NEW ns \in Ring
    PROVE  Good(ReplaySelectively(s, ns), b, B)
<1> DEFINE t == [s EXCEPT !.selectivelyRetransmittedSinceAck = @ \cup {ns}]
<1>a. ns \in Seqs  BY RingFacts
<1>1. Shape(t)  BY DEF Good, Shape
<1>2. Flags(t)  BY DEF Good, Shape, Fields, Flags
<1>3. Plain(t)  BY DEF Good, Shape, Fields, Plain
<1>4. Numbers(t, b, B)  BY DEF Good, Shape, Fields, Numbers
<1>5. Stores(t, b, B)  BY <1>a DEF Good, Shape, Fields, Stores
<1>6. Windowed(t)
    BY DEF Good, Shape, Fields, Windowed, outstanding, effectiveWindow, isOutstanding,
           Ahead, modulus
<1>7. Good(t, b, B)  BY <1>1, <1>2, <1>3, <1>4, <1>5, <1>6 DEF Good
<1> HIDE DEF t
<1>8. Good(EmitOldIFrame(t, ns), b, B)  BY <1>7, EmitOldGood
<1> QED  BY <1>8 DEF ReplaySelectively, t

\* A frame out of sequence is stored.
LEMMA SaveGood ==
    ASSUME NEW b, NEW B, NEW s, Good(s, b, B), NEW f, f.info \in Infos(B)
    PROVE  Good(SaveContents(s, f), b, B)
<1> DEFINE t == SaveContents(s, f)
<1>1. Shape(t)  BY DEF Good, Shape, SaveContents
<1>2. Flags(t)  BY DEF Good, Shape, Fields, Flags, SaveContents
<1>3. Plain(t)  BY DEF Good, Shape, Fields, Plain, SaveContents
<1>4. Numbers(t, b, B)  BY DEF Good, Shape, Fields, Numbers, SaveContents
<1>5. Stores(t, b, B)  BY DEF Good, Shape, Fields, Stores, SaveContents
<1>6. Windowed(t)
    BY DEF Good, Shape, Fields, Windowed, outstanding, effectiveWindow, isOutstanding,
           Ahead, modulus, SaveContents
<1> QED  BY <1>1, <1>2, <1>3, <1>4, <1>5, <1>6 DEF Good

\* A stored frame is taken out.
LEMMA RetrieveGood ==
    ASSUME NEW b, NEW B, NEW s, Good(s, b, B)
    PROVE  Good(RetrieveStored(s), b, B)
<1> DEFINE t == RetrieveStored(s)
<1>1. Shape(t)  BY DEF Good, Shape, RetrieveStored
<1>2. Flags(t)  BY DEF Good, Shape, Fields, Flags, RetrieveStored
<1>3. Plain(t)  BY DEF Good, Shape, Fields, Plain, RetrieveStored
<1>4. Numbers(t, b, B)  BY DEF Good, Shape, Fields, Numbers, RetrieveStored
<1>5. Stores(t, b, B)  BY DEF Good, Shape, Fields, Stores, RetrieveStored
<1>6. Windowed(t)
    BY DEF Good, Shape, Fields, Windowed, outstanding, effectiveWindow, isOutstanding,
           Ahead, modulus, RetrieveStored
<1> QED  BY <1>1, <1>2, <1>3, <1>4, <1>5, <1>6 DEF Good

-----------------------------------------------------------------------------
(* The subroutines *)

\* Enquiries and their answers.
LEMMA EnquiryGood ==
    ASSUME NEW b, NEW B, NEW s, Good(s, b, B), NEW F \in BOOLEAN
    PROVE  Good(Enquiry_Response(s, F), b, B)
BY SendSGood, ClearAckGood DEF Enquiry_Response, SFrames

LEMMA TransmitGood ==
    ASSUME NEW b, NEW B, NEW s, Good(s, b, B)
    PROVE  Good(Transmit_Enquiry(s), b, B)
BY SendSGood, ClearAckGood, TimersGood DEF Transmit_Enquiry, SFrames

LEMMA CheckNeedGood ==
    ASSUME NEW b, NEW B, NEW s, Good(s, b, B), NEW f
    PROVE  Good(Check_Need_for_Response(s, f), b, B)
BY EnquiryGood, NotifyGood DEF Check_Need_for_Response

LEMMA AwaitingGood ==
    ASSUME NEW b, NEW B, NEW s, Good(s, b, B) PROVE Good(Awaiting(s), b, B)
<1>1. Awaiting(s) = Goto(s, "AwaitingConnection")  BY DEF Awaiting, Good, Plain
<1> QED  BY <1>1, GotoGood DEF PlainStates

\* N(R) error recovery sets the link up again.
LEMMA NrErrorGood ==
    ASSUME NEW b, NEW B, NEW s, Good(s, b, B) PROVE Good(N_r_Error_Recovery(s), b, B)
BY NotifyGood, EstablishGood, SetLayer3, AwaitingGood DEF N_r_Error_Recovery

\* The good sessions.
Sessions(b, B) ==
    {s \in [state : PlainStates, isExtended : {FALSE}, srejEnabled : BOOLEAN,
            segmenter : BOOLEAN, k : Nat, n2 : Nat, vs : Ring, va : Ring, vr : Ring,
            rc : Nat, t1 : BOOLEAN, t3 : BOOLEAN, ownReceiverBusy : BOOLEAN,
            peerReceiverBusy : BOOLEAN, acknowledgePending : BOOLEAN,
            rejectException : BOOLEAN, srejExceptionCount : Nat, layer3Initiated : BOOLEAN,
            iFrameQueue : Seq(Infos(b)), sentIFrames : [Seqs -> Infos(b) \cup {None}],
            storedReceivedIFrames : [Seqs -> Infos(B) \cup {None}],
            selectivelyRetransmittedSinceAck : SUBSET Seqs,
            vaAdvancedSinceT1Expiry : BOOLEAN, droppedUa : BOOLEAN,
            lastFrameZero : Infos(B) \cup {None}, peerCallAnswered : BOOLEAN,
            mdl : {"Ready"}, mdlRc : Nat, nm201 : Nat, tm201 : {FALSE}, confirmed : BOOLEAN,
            known : BOOLEAN, probing : {FALSE}, out : Seq(Outs(b)), seize : BOOLEAN,
            reassembly : Seq(Infos(B)), replies : Nat, sub : {b}, told : 0 .. b,
            owner : {"up", "down"}, last : 0 .. B, got : SUBSET Nat, sdus : SUBSET Seq(Nat)] :
        Good(s, b, B)}

\* The good sessions as a set, over which a fold runs.
LEMMA InSessions ==
    ASSUME NEW b, NEW B, NEW s PROVE s \in Sessions(b, B) <=> Good(s, b, B)
<1> SUFFICES ASSUME Good(s, b, B) PROVE s \in Sessions(b, B)  BY DEF Sessions
<1>1. s = [x \in Fields |-> s[x]]  BY DEF Good, Shape
<1>2. s.n2 \in Nat /\ s.rc \in Nat  BY DEF Good, Numbers
<1> QED  BY <1>1, <1>2, Zenon DEF Good, Fields, Flags, Plain, Numbers, Stores, Sessions

\* Invoke Retransmission sends frames again and changes no variable.
LEMMA RetransmitGood ==
    ASSUME NEW b, NEW B, NEW s, Good(s, b, B), NEW nr \in Ring
    PROVE  Good(Invoke_Retransmission(s, nr), b, B)
<1> DEFINE Again(t, i) == EmitOldIFrame(t, (nr + i) % modulus(t))
           count == Ahead(s, nr, s.vs)
           D     == 1 .. count
           seq   == [i \in D |-> i - 1]
           P(it) == it = [x \in SUBSET D |-> IF x = {} THEN s
                                             ELSE Again(it[x \ {Max(x)}], seq[Max(x)])]
           it    == CHOOSE it : P(it)
           V     == Sessions(b, B)
           h     == [i \in D |-> [v \in V |-> Again(v, seq[i])]]
<1>1. FoldLeft(Again, s, seq) = it[D]
  BY DEF FoldLeft, MapThenFoldSet
<1>2. count \in Nat
  BY RingFacts, RingDistance DEF Good, Plain, Numbers, Ahead, modulus, Ring
<1>3. ASSUME NEW v \in V, NEW i \in D PROVE Again(v, seq[i]) \in V
  <2>1. Good(v, b, B)  BY InSessions
  <2>2. seq[i] \in Nat  BY <1>2
  <2>3. (nr + seq[i]) % modulus(v) \in Ring
    BY <2>1, <2>2, RingFacts DEF Good, Plain, modulus, Ring
  <2> QED  BY <2>1, <2>3, EmitOldGood, InSessions
<1> DEFINE W == [i \in 0 .. count |-> V]
<1> HIDE DEF Again, count, seq, V
<1>4. Stepwise(W, s, count, h)
  <2>1. s \in V  BY InSessions DEF V
  <2> QED  BY <1>2, <1>3, <2>1 DEF Stepwise
<1>5. PICK g \in [SUBSET D -> W[count]] : Folds(g, s, count, h) /\ Staged(g, W, count)
  <2> HIDE DEF h, W
  <2> QED  BY <1>2, <1>4, FoldExists
<1>6. P(g)
  <2>1. ASSUME NEW x \in SUBSET D
        PROVE  g[x] = IF x = {} THEN s ELSE Again(g[x \ {Max(x)}], seq[Max(x)])
    <3>1. CASE x = {}  BY <1>5, <3>1 DEF Folds
    <3>2. CASE x # {}
      <4>1. /\ Max(x) \in D /\ Max(x) - 1 \in 0 .. count
            /\ x \ {Max(x)} \in SUBSET (1 .. Max(x) - 1)
        BY <1>2, <3>2, BelowLargest
      <4>2. g[x \ {Max(x)}] \in V  BY <1>5, <4>1 DEF Staged
      <4> QED  BY <1>5, <3>2, <4>1, <4>2 DEF Folds
    <3> QED  BY <3>1, <3>2
  <2> QED  BY <1>5, <2>1
<1>7. P(it)  BY <1>6
<1>8. it[D] \in W[count]
  <2> HIDE DEF it
  <2>1. it[{}] \in W[0]  BY <1>2, <1>4, <1>7 DEF Stepwise
  <2>2. ASSUME NEW m \in 1 .. count, it[1 .. m - 1] \in W[m - 1] PROVE it[1 .. m] \in W[m]
    <3>1. m - 1 \in Nat /\ (m - 1) + 1 = m  BY <1>2
    <3>2. Max(1 .. m) = m /\ (1 .. m) \ {m} = 1 .. m - 1  BY <3>1, LargestOfAll
    <3>3. 1 .. m \in SUBSET D /\ 1 .. m # {}  BY <1>2
    <3>4. it[1 .. m] = Again(it[1 .. m - 1], seq[m])  BY <1>7, <3>2, <3>3
    <3> QED  BY <1>2, <1>3, <2>2, <3>4
  <2> HIDE DEF W
  <2> QED  BY <1>2, <2>1, <2>2, FoldRange
<1>9. it[D] \in V  BY <1>2, <1>8
<1>10. Good(it[D], b, B)
  <2> HIDE DEF it
  <2> QED  BY <1>9, InSessions DEF V
<1>11. Invoke_Retransmission(s, nr) = ClearAcknowledgePending(StartT1(StopT3(it[D])))
  BY <1>1 DEF Invoke_Retransmission, Again, count, seq
<1> HIDE DEF it
<1> QED  BY <1>10, <1>11, TimersGood, ClearAckGood

-----------------------------------------------------------------------------
(* The I queue *)

\* One frame of the I queue goes out.
LEMMA PopGood ==
    ASSUME NEW b, NEW B, NEW s, Good(s, b, B), canTransmitIFrame(s), s.iFrameQueue # <<>>
    PROVE  LET t == PopIFrame([s EXCEPT !.iFrameQueue = Tail(@)], Head(s.iFrameQueue))
           IN  Good(t, b, B) /\ t.seize = s.seize /\ t.iFrameQueue = Tail(s.iFrameQueue)
<1> DEFINE u == [s EXCEPT !.iFrameQueue = Tail(@)]
           info == Head(s.iFrameQueue)
           v == EmitIFrame(u, info)
           w == ClearAcknowledgePending(v)
<1>1. s.iFrameQueue \in Seq(Infos(b))  BY DEF Good, Stores
<1>2. info \in Infos(b) /\ Tail(s.iFrameQueue) \in Seq(Infos(b))  BY <1>1
<1>3. Good(u, b, B)
  <2>1. Shape(u)  BY DEF Good, Shape
  <2>2. Flags(u)  BY DEF Good, Shape, Fields, Flags
  <2>3. Plain(u)  BY DEF Good, Shape, Fields, Plain
  <2>4. Numbers(u, b, B)  BY DEF Good, Shape, Fields, Numbers
  <2>5. Stores(u, b, B)  BY <1>2 DEF Good, Shape, Fields, Stores
  <2>6. Windowed(u)
    BY DEF Good, Shape, Fields, Windowed, outstanding, effectiveWindow, isOutstanding,
           Ahead, modulus
  <2> QED  BY <2>1, <2>2, <2>3, <2>4, <2>5, <2>6 DEF Good
<1>4. canTransmitIFrame(u)
  BY DEF Good, Shape, Fields, canTransmitIFrame, outstanding, effectiveWindow, Ahead, modulus
<1>5. u.iFrameQueue = Tail(s.iFrameQueue) /\ u.seize = s.seize
  BY DEF Good, Shape, Fields
<1> HIDE DEF u
<1>6. Good(v, b, B)  BY <1>2, <1>3, <1>4, EmitGood
<1>7. v.iFrameQueue = u.iFrameQueue /\ v.seize = u.seize
  BY <1>3 DEF EmitIFrame, SendFrame, Good, Shape, Fields
<1> HIDE DEF v
<1>8. Good(w, b, B)  BY <1>6, ClearAckGood
<1>9. w.iFrameQueue = v.iFrameQueue /\ w.seize = v.seize
  BY <1>6 DEF ClearAcknowledgePending, Good, Shape, Fields
<1> HIDE DEF w
<1>10. Good(StartT1(StopT3(w)), b, B)  BY <1>8, TimersGood
<1>11. StartT1(StopT3(w)).iFrameQueue = w.iFrameQueue /\ StartT1(StopT3(w)).seize = w.seize
  BY <1>8 DEF StartT1, StopT3, Good, Shape, Fields
<1>12. PopIFrame(u, info) = IF w.t1 THEN w ELSE StartT1(StopT3(w))  BY DEF PopIFrame, w, v
<1>13. /\ Good(PopIFrame(u, info), b, B) /\ PopIFrame(u, info).seize = s.seize
       /\ PopIFrame(u, info).iFrameQueue = Tail(s.iFrameQueue)
  BY <1>5, <1>7, <1>8, <1>9, <1>10, <1>11, <1>12
<1> QED  BY <1>13 DEF u

\* The I queue goes out as far as the window allows.
LEMMA DrainGood ==
    ASSUME NEW b, NEW B, NEW s, Good(s, b, B)
    PROVE  Good(DrainIFrameQueue(s), b, B) /\ DrainIFrameQueue(s).seize = s.seize
<1> DEFINE Pop(t, i) == IF ~canTransmitIFrame(t) THEN t
                        ELSE PopIFrame([t EXCEPT !.iFrameQueue = Tail(@)], Head(t.iFrameQueue))
           seq   == s.iFrameQueue
           count == Len(seq)
           D     == 1 .. count
           P(it) == it = [x \in SUBSET D |-> IF x = {} THEN s
                                             ELSE Pop(it[x \ {Max(x)}], seq[Max(x)])]
           it    == CHOOSE it : P(it)
           V(i)  == {v \in Sessions(b, B) :
                        Len(v.iFrameQueue) >= count - i /\ v.seize = s.seize}
           W     == [i \in 0 .. count |-> V(i)]
           h     == [i \in D |-> [v \in V(i - 1) |-> Pop(v, seq[i])]]
<1>0. DOMAIN seq = D /\ count \in Nat  BY DEF Good, Stores
<1>1. DrainIFrameQueue(s) = it[D]
  BY <1>0 DEF DrainIFrameQueue, FoldLeft, MapThenFoldSet
<1>2. ASSUME NEW i \in D, NEW v \in V(i - 1) PROVE v \in V(i) /\ Pop(v, seq[i]) \in V(i)
  <2>1. Good(v, b, B) /\ Len(v.iFrameQueue) >= count - (i - 1) /\ v.seize = s.seize
    BY InSessions
  <2>2. v.iFrameQueue \in Seq(Infos(b))  BY <2>1 DEF Good, Stores
  <2>3. v \in V(i) /\ v.iFrameQueue # <<>>  BY <1>0, <2>1, <2>2
  <2>4. CASE ~canTransmitIFrame(v)  BY <2>3, <2>4
  <2>5. CASE canTransmitIFrame(v)
    <3> DEFINE t == PopIFrame([v EXCEPT !.iFrameQueue = Tail(@)], Head(v.iFrameQueue))
    <3>1. Good(t, b, B) /\ t.seize = v.seize /\ t.iFrameQueue = Tail(v.iFrameQueue)
      BY <2>1, <2>3, <2>5, PopGood
    <3>2. Len(t.iFrameQueue) >= count - i
      <4> HIDE DEF t
      <4> QED  BY <1>0, <2>1, <2>2, <2>3, <3>1
    <3>3. t \in V(i)
      <4> HIDE DEF t
      <4> QED  BY <2>1, <3>1, <3>2, InSessions
    <3> QED  BY <2>3, <2>5, <3>3
  <2> QED  BY <2>4, <2>5
<1> HIDE DEF Pop
<1>3. s \in V(0)  BY <1>0, InSessions
<1> HIDE DEF seq, count, V
<1>4. Stepwise(W, s, count, h)
  <2>1. \A i \in D : W[i - 1] = V(i - 1) /\ W[i] = V(i)  BY <1>0
  <2>2. W[0] = V(0)  BY <1>0
  <2>3. \A i \in D : h[i] = [v \in V(i - 1) |-> Pop(v, seq[i])]  OBVIOUS
  <2> HIDE DEF W, h
  <2>4. s \in W[0]  BY <1>3, <2>2
  <2>5. ASSUME NEW i \in D
        PROVE  W[i - 1] \subseteq W[i] /\ \A v \in W[i - 1] : h[i][v] \in W[i]
    <3>1. W[i - 1] = V(i - 1) /\ W[i] = V(i)  BY <2>1
    <3>2. ASSUME NEW v \in V(i - 1) PROVE v \in V(i) /\ h[i][v] \in V(i)
      <4>1. h[i][v] = Pop(v, seq[i])  BY <2>3
      <4> QED  BY <1>2, <4>1
    <3> QED  BY <3>1, <3>2
  <2> QED  BY <2>4, <2>5 DEF Stepwise
<1>5. PICK g \in [SUBSET D -> W[count]] : Folds(g, s, count, h) /\ Staged(g, W, count)
  <2> HIDE DEF h, W
  <2> QED  BY <1>0, <1>4, FoldExists
<1>6. P(g)
  <2>1. ASSUME NEW x \in SUBSET D
        PROVE  g[x] = IF x = {} THEN s ELSE Pop(g[x \ {Max(x)}], seq[Max(x)])
    <3>1. CASE x = {}  BY <1>5, <3>1 DEF Folds
    <3>2. CASE x # {}
      <4>1. /\ Max(x) \in D /\ Max(x) - 1 \in 0 .. count
            /\ x \ {Max(x)} \in SUBSET (1 .. Max(x) - 1)
        BY <1>0, <3>2, BelowLargest
      <4>2. g[x \ {Max(x)}] \in V(Max(x) - 1)  BY <1>5, <4>1 DEF Staged
      <4>3. h[Max(x)] = [v \in V(Max(x) - 1) |-> Pop(v, seq[Max(x)])]  BY <4>1
      <4>4. g[x] = h[Max(x)][g[x \ {Max(x)}]]  BY <1>5, <3>2 DEF Folds
      <4> HIDE DEF h
      <4> QED  BY <3>2, <4>2, <4>3, <4>4
    <3> QED  BY <3>1, <3>2
  <2> QED  BY <1>5, <2>1
<1>7. P(it)  BY <1>6
<1>8. it[D] \in W[count]
  <2> HIDE DEF it
  <2>1. it[{}] \in W[0]  BY <1>0, <1>3, <1>7
  <2>2. ASSUME NEW m \in 1 .. count, it[1 .. m - 1] \in W[m - 1] PROVE it[1 .. m] \in W[m]
    <3>1. m - 1 \in Nat /\ (m - 1) + 1 = m  BY <1>0
    <3>2. Max(1 .. m) = m /\ (1 .. m) \ {m} = 1 .. m - 1  BY <3>1, LargestOfAll
    <3>3. 1 .. m \in SUBSET D /\ 1 .. m # {}  BY SMTT(60), <1>0
    <3>4. it[1 .. m] = Pop(it[1 .. m - 1], seq[m])  BY <1>7, <3>2, <3>3
    <3>5. W[m - 1] = V(m - 1) /\ W[m] = V(m)  BY <1>0
    <3> HIDE DEF W
    <3> QED  BY <1>2, <2>2, <3>4, <3>5
  <2> HIDE DEF W
  <2> QED  BY <1>0, <2>1, <2>2, FoldRange
<1>9. it[D] \in V(count)  BY <1>0, <1>8
<1> HIDE DEF it
<1> QED  BY <1>1, <1>9, InSessions DEF V

-----------------------------------------------------------------------------
(* Data for the owner *)

\* With more payloads submitted there are more to send.
LEMMA SeqGrows ==
    ASSUME NEW S, NEW T, S \subseteq T PROVE Seq(S) \subseteq Seq(T)
OBVIOUS

LEMMA InfosGrow ==
    ASSUME NEW b \in Nat, NEW c \in Nat, b <= c
    PROVE  /\ Infos(b) \subseteq Infos(c) /\ Seq(Infos(b)) \subseteq Seq(Infos(c))
           /\ Sendable(b) \subseteq Sendable(c)
           /\ Seq(Outs(b)) \subseteq Seq(Outs(c))
<1>1. Infos(b) \subseteq Infos(c)
  <2>1. 0 .. b \subseteq 0 .. c  OBVIOUS
  <2> QED  BY <2>1, Zenon DEF Infos
<1>2. Sendable(b) \subseteq Sendable(c)
  <2> SUFFICES ASSUME NEW f \in Sendable(b) PROVE f \in Sendable(c)  OBVIOUS
  <2>1. Infos(b) \cup {None} \subseteq Infos(c) \cup {None}  BY <1>1
  <2> QED  BY <1>1, <2>1, Zenon DEF Sendable
<1>3. Outs(b) \subseteq Outs(c)  BY <1>2, Zenon DEF Outs
<1> QED  BY <1>1, <1>2, <1>3, SeqGrows

\* The peer's owner has submitted more.
LEMMA PeerRaised ==
    ASSUME NEW b, NEW B, NEW s, Good(s, b, B), NEW C \in Nat, B <= C
    PROVE  Good(s, b, C)
<1>0. Infos(B) \subseteq Infos(C) /\ Seq(Infos(B)) \subseteq Seq(Infos(C)) /\ 0 .. B \subseteq 0 .. C
  BY InfosGrow DEF Good
<1>4. Numbers(s, b, C)  BY <1>0 DEF Good, Numbers
<1>5. Stores(s, b, C)
  <2>1. s.storedReceivedIFrames \in [Seqs -> Infos(C) \cup {None}]
    BY <1>0 DEF Good, Stores
  <2>2. s.lastFrameZero \in Infos(C) \cup {None} /\ s.reassembly \in Seq(Infos(C))
    BY <1>0 DEF Good, Stores
  <2> QED  BY <2>1, <2>2 DEF Good, Stores
<1> QED  BY <1>4, <1>5 DEF Good

\* The owner submits more.
LEMMA OwnRaised ==
    ASSUME NEW b, NEW B, NEW s, Good(s, b, B), NEW c \in Nat, b <= c
    PROVE  Good([s EXCEPT !.sub = c], c, B)
<1> DEFINE t == [s EXCEPT !.sub = c]
<1>0. /\ Infos(b) \subseteq Infos(c) /\ Seq(Infos(b)) \subseteq Seq(Infos(c))
      /\ Seq(Outs(b)) \subseteq Seq(Outs(c)) /\ 0 .. b \subseteq 0 .. c
  BY InfosGrow DEF Good
<1>1. Shape(t)  BY DEF Good, Shape
<1>2. Flags(t)  BY DEF Good, Shape, Fields, Flags
<1>3. Plain(t)  BY DEF Good, Shape, Fields, Plain
<1>4. Numbers(t, c, B)  BY <1>0 DEF Good, Shape, Fields, Numbers
<1>5. Stores(t, c, B)
  <2>1. s.sentIFrames \in [Seqs -> Infos(c) \cup {None}]  BY <1>0 DEF Good, Stores
  <2>2. s.iFrameQueue \in Seq(Infos(c)) /\ s.out \in Seq(Outs(c))  BY <1>0 DEF Good, Stores
  <2>3. Stores(s, c, B)  BY <2>1, <2>2 DEF Good, Stores
  <2> QED  BY <2>3 DEF Good, Shape, Fields, Stores
<1>6. Windowed(t)
    BY DEF Good, Shape, Fields, Windowed, outstanding, effectiveWindow, isOutstanding,
           Ahead, modulus
<1> QED  BY <1>1, <1>2, <1>3, <1>4, <1>5, <1>6 DEF Good

\* A payload joins the I queue.
LEMMA QueueGood ==
    ASSUME NEW b, NEW B, NEW s, Good(s, b, B), NEW info \in Infos(b)
    PROVE  Good(PushOnIFrameQueue(s, info), b, B)
<1> DEFINE t == PushOnIFrameQueue(s, info)
<1>1. Shape(t)  BY DEF Good, Shape, PushOnIFrameQueue
<1>2. Flags(t)  BY DEF Good, Shape, Fields, Flags, PushOnIFrameQueue
<1>3. Plain(t)  BY DEF Good, Shape, Fields, Plain, PushOnIFrameQueue
<1>4. Numbers(t, b, B)  BY DEF Good, Shape, Fields, Numbers, PushOnIFrameQueue
<1>5. Stores(t, b, B)
  <2>1. s.iFrameQueue \in Seq(Infos(b))  BY DEF Good, Stores
  <2>2. Append(s.iFrameQueue, info) \in Seq(Infos(b))  BY <2>1, Appending
  <2> QED  BY <2>2 DEF Good, Shape, Fields, Stores, PushOnIFrameQueue
<1>6. Windowed(t)
    BY DEF Good, Shape, Fields, Windowed, outstanding, effectiveWindow, isOutstanding,
           Ahead, modulus, PushOnIFrameQueue
<1> QED  BY <1>1, <1>2, <1>3, <1>4, <1>5, <1>6 DEF Good

LEMMA SetReplies ==
    ASSUME NEW b, NEW B, NEW s, Good(s, b, B), NEW v \in Nat
    PROVE  Good([s EXCEPT !.replies = v], b, B)
<1> DEFINE t == [s EXCEPT !.replies = v]
<1>1. Shape(t)  BY DEF Good, Shape
<1>2. Flags(t)  BY DEF Good, Shape, Fields, Flags
<1>3. Plain(t)  BY DEF Good, Shape, Fields, Plain
<1>4. Numbers(t, b, B)  BY DEF Good, Shape, Fields, Numbers
<1>5. Stores(t, b, B)  BY DEF Good, Shape, Fields, Stores
<1>6. Windowed(t)
    BY DEF Good, Shape, Fields, Windowed, outstanding, effectiveWindow, isOutstanding,
           Ahead, modulus
<1> QED  BY <1>1, <1>2, <1>3, <1>4, <1>5, <1>6 DEF Good

\* Good, with no fewer payloads submitted than b.
Grown(t, b, B) == \E c \in Nat : b <= c /\ Good(t, c, B)

\* Grown in one step, and in two.
LEMMA GrownGood ==
    ASSUME NEW b, NEW B, NEW t, Good(t, b, B) PROVE Grown(t, b, B)
BY DEF Grown, Good

LEMMA GrownTwice ==
    ASSUME NEW b \in Nat, NEW c \in Nat, NEW B, NEW t, Grown(t, c, B), b <= c
    PROVE  Grown(t, b, B)
BY DEF Grown

\* The owner answers from its data callback.
LEMMA AnswerGood ==
    ASSUME NEW b, NEW B, NEW s, Good(s, b, B)
    PROVE  Grown(Answer(s), b, B)
<1>1. CASE s.replies = 0  BY <1>1, GrownGood DEF Answer
<1>2. CASE s.replies # 0
  <2> DEFINE u == [s EXCEPT !.replies = @ - 1]
             v == [u EXCEPT !.sub = b + 1]
             w == PushOnIFrameQueue(v, Whole(b + 1))
  <2>1. b \in Nat /\ s.sub = b /\ s.replies - 1 \in Nat  BY <1>2 DEF Good, Numbers
  <2>2. Good(u, b, B)  BY <2>1, SetReplies
  <2>3. Good(v, b + 1, B)
    <3> HIDE DEF u
    <3>1. b + 1 \in Nat /\ b <= b + 1  BY <2>1
    <3> QED  BY <2>2, <3>1, OwnRaised
  <2>4. Whole(b + 1) \in Infos(b + 1)
    <3>1. b + 1 \in 0 .. b + 1 /\ 0 \in Nat /\ TRUE \in BOOLEAN  BY <2>1
    <3> QED  BY <3>1, Zenon DEF Whole, Infos
  <2>5. [s EXCEPT !.replies = @ - 1, !.sub = @ + 1] = v
    BY <2>1 DEF Good, Shape, Fields
  <2>6. Good(w, b + 1, B)
    <3> HIDE DEF v
    <3> QED  BY <2>3, <2>4, QueueGood
  <2>7. Answer(s) = DrainIFrameQueue(w)  BY <1>2, <2>1, <2>5 DEF Answer
  <2>8. Good(Answer(s), b + 1, B)
    <3> HIDE DEF w
    <3> QED  BY <2>6, <2>7, DrainGood
  <2> QED  BY <2>1, <2>8 DEF Grown
<1> QED  BY <1>1, <1>2

\* What the owner has been given, and what is put together for it.
LEMMA SetGot ==
    ASSUME NEW b, NEW B, NEW s, Good(s, b, B), NEW n \in 0 .. B
    PROVE  Good([s EXCEPT !.got = @ \cup {n}, !.last = n], b, B)
<1> DEFINE t == [s EXCEPT !.got = @ \cup {n}, !.last = n]
<1>0. n \in Nat  BY DEF Good
<1>1. Shape(t)  BY DEF Good, Shape
<1>2. Flags(t)  BY DEF Good, Shape, Fields, Flags
<1>3. Plain(t)  BY DEF Good, Shape, Fields, Plain
<1>4. Numbers(t, b, B)  BY DEF Good, Shape, Fields, Numbers
<1>5. Stores(t, b, B)  BY <1>0 DEF Good, Shape, Fields, Stores
<1>6. Windowed(t)
    BY DEF Good, Shape, Fields, Windowed, outstanding, effectiveWindow, isOutstanding,
           Ahead, modulus
<1> QED  BY <1>1, <1>2, <1>3, <1>4, <1>5, <1>6 DEF Good

\* What is put together from segments.
LEMMA SetReassembly ==
    ASSUME NEW b, NEW B, NEW s, Good(s, b, B), NEW v \in Seq(Infos(B))
    PROVE  Good([s EXCEPT !.reassembly = v], b, B)
<1> DEFINE t == [s EXCEPT !.reassembly = v]
<1>1. Shape(t)  BY DEF Good, Shape
<1>2. Flags(t)  BY DEF Good, Shape, Fields, Flags
<1>3. Plain(t)  BY DEF Good, Shape, Fields, Plain
<1>4. Numbers(t, b, B)  BY DEF Good, Shape, Fields, Numbers
<1>5. Stores(t, b, B)  BY DEF Good, Shape, Fields, Stores
<1>6. Windowed(t)
    BY DEF Good, Shape, Fields, Windowed, outstanding, effectiveWindow, isOutstanding,
           Ahead, modulus
<1> QED  BY <1>1, <1>2, <1>3, <1>4, <1>5, <1>6 DEF Good

LEMMA SetSdus ==
    ASSUME NEW b, NEW B, NEW s, Good(s, b, B), NEW sdu \in Seq(Nat)
    PROVE  Good([s EXCEPT !.sdus = @ \cup {sdu}], b, B)
<1> DEFINE t == [s EXCEPT !.sdus = @ \cup {sdu}]
<1>1. Shape(t)  BY DEF Good, Shape
<1>2. Flags(t)  BY DEF Good, Shape, Fields, Flags
<1>3. Plain(t)  BY DEF Good, Shape, Fields, Plain
<1>4. Numbers(t, b, B)  BY DEF Good, Shape, Fields, Numbers
<1>5. Stores(t, b, B)  BY DEF Good, Shape, Fields, Stores
<1>6. Windowed(t)
    BY DEF Good, Shape, Fields, Windowed, outstanding, effectiveWindow, isOutstanding,
           Ahead, modulus
<1> QED  BY <1>1, <1>2, <1>3, <1>4, <1>5, <1>6 DEF Good

\* A segment appended is a segment of the peer.
LEMMA PushRange ==
    ASSUME NEW B \in Nat, NEW series \in Seq(Infos(B)), NEW info \in Infos(B)
    PROVE  Push(series, info) \in Seq(Infos(B)) /\ <<info>> \in Seq(Infos(B))
<1>1. <<info>> \in Seq(Infos(B)) /\ <<>> \in Seq(Infos(B))  OBVIOUS
<1>2. Append(series, info) \in Seq(Infos(B))  BY Appending
<1> QED  BY <1>1, <1>2 DEF Push

\* Data for the owner: whole, a segment, or the last of a series.
LEMMA DataIndicationGood ==
    ASSUME NEW b, NEW B, NEW s, Good(s, b, B), NEW info \in Infos(B)
    PROVE  Grown(DataIndication(s, info), b, B)
<1> DEFINE t      == [s EXCEPT !.got = @ \cup {info.n}, !.last = info.n]
           whole  == info = Whole(info.n)
           series == IF whole THEN <<info>> ELSE Push(t.reassembly, info)
           sdu    == [i \in DOMAIN series |-> series[i].n]
           kept   == IF whole THEN t.reassembly ELSE series
           rest   == IF whole THEN kept ELSE <<>>
           put    == [t EXCEPT !.sdus = @ \cup {sdu}]
           done   == [t EXCEPT !.sdus = @ \cup {sdu}, !.reassembly = rest]
<1>0. B \in Nat  BY DEF Good
<1>1. DataIndication(s, info) = IF series = <<>> THEN [t EXCEPT !.reassembly = <<>>]
                                ELSE IF info.rem # 0 THEN [t EXCEPT !.reassembly = kept]
                                ELSE Answer(done)
  BY DEF DataIndication
<1>2. Good(t, b, B)
  <2>1. info.n \in 0 .. B  BY DEF Infos
  <2> QED  BY <2>1, SetGot
<1> HIDE DEF t
<1>3. t.reassembly \in Seq(Infos(B))  BY <1>2 DEF Good, Stores
<1>4. series \in Seq(Infos(B))  BY <1>0, <1>3, PushRange
<1> HIDE DEF series
<1>5. kept \in Seq(Infos(B)) /\ <<>> \in Seq(Infos(B)) /\ rest \in Seq(Infos(B))
  BY <1>3, <1>4
<1>6. sdu \in Seq(Nat)
  <2>1. DOMAIN series = 1 .. Len(series) /\ Len(series) \in Nat  BY <1>4
  <2>2. ASSUME NEW i \in 1 .. Len(series) PROVE series[i].n \in Nat
    <3>1. series[i] \in Infos(B)  BY <1>4
    <3>2. series[i].n \in 0 .. B  BY <3>1 DEF Infos
    <3> QED  BY <1>0, <3>2
  <2> QED  BY <2>1, <2>2
<1>7. done = [put EXCEPT !.reassembly = rest]
  <2> HIDE DEF sdu, rest
  <2> QED  BY <1>2 DEF Good, Shape, Fields
<1>8. Good(done, b, B)
  <2>1. Good(put, b, B)
    <3> HIDE DEF sdu
    <3> QED  BY <1>2, <1>6, SetSdus
  <2> HIDE DEF put, rest
  <2>2. Good([put EXCEPT !.reassembly = rest], b, B)  BY <1>5, <2>1, SetReassembly
  <2> HIDE DEF done
  <2> QED  BY <1>7, <2>2
<1>9. Good([t EXCEPT !.reassembly = <<>>], b, B) /\ Good([t EXCEPT !.reassembly = kept], b, B)
  <2> HIDE DEF kept
  <2> QED  BY <1>2, <1>5, SetReassembly
<1> HIDE DEF done, kept
<1>10. Grown(Answer(done), b, B)  BY <1>8, AnswerGood
<1> QED  BY <1>1, <1>9, <1>10, GrownGood

-----------------------------------------------------------------------------
(* An I frame *)

\* V(R) goes up by one.
LEMMA AdvanceVrGood ==
    ASSUME NEW b, NEW B, NEW s, Good(s, b, B) PROVE Good(AdvanceVr(s), b, B)
<1>1. s.vr \in Ring /\ incrementSeq(s, s.vr) = (s.vr + 1) % Mod8
  BY DEF Good, Plain, Numbers, incrementSeq, modulus
<1>2. incrementSeq(s, s.vr) \in Ring  BY <1>1, RingFacts, RingNext DEF Ring
<1> QED  BY <1>2, SetVr DEF AdvanceVr

\* One payload kept out of sequence is handed over, if V(r) has reached it.
LEMMA RetrieveNext ==
    ASSUME NEW b, NEW B, NEW s, Good(s, b, B), s.storedReceivedIFrames[s.vr] # None
    PROVE  Grown(AdvanceVr(DataIndication(RetrieveStored(s), s.storedReceivedIFrames[s.vr])), b, B)
<1> DEFINE info == s.storedReceivedIFrames[s.vr]
           t    == DataIndication(RetrieveStored(s), info)
<1>1. info \in Infos(B)  BY RingFacts DEF Good, Numbers, Stores
<1> HIDE DEF info
<1>2. Good(RetrieveStored(s), b, B)  BY RetrieveGood
<1>3. Grown(t, b, B)  BY <1>1, <1>2, DataIndicationGood
<1> HIDE DEF t
<1>4. PICK c \in Nat : b <= c /\ Good(t, c, B)  BY <1>3 DEF Grown
<1>5. Good(AdvanceVr(t), c, B)  BY <1>4, AdvanceVrGood
<1> QED  BY <1>4, <1>5 DEF Grown, t, info

\* Everything kept out of sequence that now follows is handed over.
LEMMA DrainStoredGood ==
    ASSUME NEW b, NEW B, NEW s, Good(s, b, B)
    PROVE  Grown(DrainStored(s), b, B)
<1> DEFINE Next1(t, i) ==
               LET info == t.storedReceivedIFrames[t.vr]
               IN  IF info = None THEN t
                   ELSE AdvanceVr(DataIndication(RetrieveStored(t), info))
           count == Mod128
           D     == 1 .. count
           seq   == [i \in D |-> i]
           P(it) == it = [x \in SUBSET D |-> IF x = {} THEN s
                                             ELSE Next1(it[x \ {Max(x)}], seq[Max(x)])]
           it    == CHOOSE it : P(it)
           V     == UNION {Sessions(c, B) : c \in {n \in Nat : b <= n}}
           W     == [i \in 0 .. count |-> V]
           h     == [i \in D |-> [v \in V |-> Next1(v, seq[i])]]
<1>0. count \in Nat  BY ContextAssumption
<1>1. DrainStored(s) = it[D]
  BY <1>0 DEF DrainStored, FoldLeft, MapThenFoldSet
<1>2. \A v : v \in V <=> Grown(v, b, B)
  <2>1. ASSUME NEW v PROVE v \in V <=> \E c \in {n \in Nat : b <= n} : v \in Sessions(c, B)
    OBVIOUS
  <2>2. ASSUME NEW v, NEW c PROVE v \in Sessions(c, B) <=> Good(v, c, B)  BY InSessions
  <2> HIDE DEF V
  <2> QED  BY <2>1, <2>2 DEF Grown
<1>3. ASSUME NEW v \in V, NEW i \in D PROVE Next1(v, seq[i]) \in V
  <2>1. PICK c \in Nat : b <= c /\ Good(v, c, B)  BY <1>2 DEF Grown
  <2>2. b \in Nat  BY DEF Good
  <2>3. CASE v.storedReceivedIFrames[v.vr] = None  BY <2>3
  <2>4. CASE v.storedReceivedIFrames[v.vr] # None
    <3> DEFINE u == AdvanceVr(DataIndication(RetrieveStored(v), v.storedReceivedIFrames[v.vr]))
    <3>1. Grown(u, c, B)  BY <2>1, <2>4, RetrieveNext
    <3>2. Next1(v, seq[i]) = u  BY <2>4
    <3> HIDE DEF u, V, Next1
    <3>3. Grown(u, b, B)  BY <2>1, <2>2, <3>1, GrownTwice
    <3> QED  BY <1>2, <3>2, <3>3
  <2> QED  BY <2>3, <2>4
<1>4. s \in V
  <2> HIDE DEF V
  <2> QED  BY <1>2, GrownGood
<1> HIDE DEF Next1, count, seq, V
<1>5. Stepwise(W, s, count, h)  BY <1>0, <1>3, <1>4 DEF Stepwise
<1>6. PICK g \in [SUBSET D -> W[count]] : Folds(g, s, count, h) /\ Staged(g, W, count)
  <2> HIDE DEF h, W
  <2> QED  BY <1>0, <1>5, FoldExists
<1>7. P(g)
  <2>1. ASSUME NEW x \in SUBSET D
        PROVE  g[x] = IF x = {} THEN s ELSE Next1(g[x \ {Max(x)}], seq[Max(x)])
    <3>1. CASE x = {}  BY <1>6, <3>1 DEF Folds
    <3>2. CASE x # {}
      <4>1. /\ Max(x) \in D /\ Max(x) - 1 \in 0 .. count
            /\ x \ {Max(x)} \in SUBSET (1 .. Max(x) - 1)
        BY <1>0, <3>2, BelowLargest
      <4>2. g[x \ {Max(x)}] \in V  BY <1>6, <4>1 DEF Staged
      <4> QED  BY <1>6, <3>2, <4>1, <4>2 DEF Folds
    <3> QED  BY <3>1, <3>2
  <2> QED  BY <1>6, <2>1
<1>8. P(it)  BY <1>7
<1>9. it[D] \in W[count]
  <2> HIDE DEF it
  <2>1. it[{}] \in W[0]  BY <1>0, <1>4, <1>8
  <2>2. ASSUME NEW m \in 1 .. count, it[1 .. m - 1] \in W[m - 1] PROVE it[1 .. m] \in W[m]
    <3>1. m - 1 \in Nat /\ (m - 1) + 1 = m  BY <1>0
    <3>2. Max(1 .. m) = m /\ (1 .. m) \ {m} = 1 .. m - 1  BY <3>1, LargestOfAll
    <3>3. 1 .. m \in SUBSET D /\ 1 .. m # {}  BY <1>0
    <3>4. it[1 .. m] = Next1(it[1 .. m - 1], seq[m])  BY <1>8, <3>2, <3>3
    <3> QED  BY <1>0, <1>3, <2>2, <3>4
  <2> HIDE DEF W
  <2> QED  BY <1>0, <2>1, <2>2, FoldRange
<1>10. it[D] \in V  BY <1>0, <1>9
<1> HIDE DEF it
<1> QED  BY <1>1, <1>2, <1>10

\* An I frame taken is acknowledged, at once or soon.
LEMMA AcknowledgeGood ==
    ASSUME NEW b, NEW B, NEW s, Good(s, b, B) PROVE Good(Acknowledge(s), b, B)
<1> DEFINE t == [s EXCEPT !.seize = TRUE, !.acknowledgePending = TRUE]
<1>1. Shape(t)  BY DEF Good, Shape
<1>2. Flags(t)  BY DEF Good, Shape, Fields, Flags
<1>3. Plain(t)  BY DEF Good, Shape, Fields, Plain
<1>4. Numbers(t, b, B)  BY DEF Good, Shape, Fields, Numbers
<1>5. Stores(t, b, B)  BY DEF Good, Shape, Fields, Stores
<1>6. Windowed(t)
    BY DEF Good, Shape, Fields, Windowed, outstanding, effectiveWindow, isOutstanding,
           Ahead, modulus
<1>7. Good(t, b, B)  BY <1>1, <1>2, <1>3, <1>4, <1>5, <1>6 DEF Good
<1> QED  BY <1>7 DEF Acknowledge

\* What a frame of the peer says as it is read, of the payloads up to B.
Readable(f, B) ==
    /\ f.type \in {"I"} \cup SFrames \cup UFrames /\ f.cmd \in BOOLEAN /\ f.pf \in BOOLEAN
    /\ f.type \notin UFrames => f.nr \in Ring
    /\ f.type = "I" => f.ns \in Ring /\ f.info \in Infos(B)

\* The I frame expected, and the stored ones that follow it.
LEMMA InSequenceGood ==
    ASSUME NEW b, NEW B, NEW s, Good(s, b, B), NEW f, f.info \in Infos(B)
    PROVE  Grown(InSequence(s, f), b, B)
<1> DEFINE t == [DecrementSrejException(AdvanceVr(s)) EXCEPT !.rejectException = FALSE]
           u == DataIndication(t, f.info)
           v == DrainStored(u)
<1>1. Good(t, b, B)  BY AdvanceVrGood, DecSrejGood, SetReject
<1>2. b \in Nat  BY DEF Good
<1>3. InSequence(s, f) = Acknowledge(v)  BY DEF InSequence
<1> HIDE DEF t
<1>4. Grown(u, b, B)  BY <1>1, DataIndicationGood
<1> HIDE DEF u
<1>5. PICK c \in Nat : b <= c /\ Good(u, c, B)  BY <1>4 DEF Grown
<1>6. Grown(v, c, B)  BY <1>5, DrainStoredGood
<1> HIDE DEF v
<1>7. PICK d \in Nat : c <= d /\ Good(v, d, B)  BY <1>6 DEF Grown
<1>8. Good(Acknowledge(v), d, B)  BY <1>7, AcknowledgeGood
<1> QED  BY <1>2, <1>3, <1>5, <1>7, <1>8 DEF Grown

\* An I frame that is not the one expected.
LEMMA RejectGood ==
    ASSUME NEW b, NEW B, NEW s, Good(s, b, B) PROVE Good(Reject(s), b, B)
BY SetReject, SendSGood, ClearAckGood DEF Reject, SFrames

LEMMA SelectiveRejectGood ==
    ASSUME NEW b, NEW B, NEW s, Good(s, b, B), NEW F \in BOOLEAN
    PROVE  Good(SelectiveReject(s, F), b, B)
BY IncSrejGood, SendSGood, ClearAckGood DEF SelectiveReject, SFrames

LEMMA OutOfSequenceGood ==
    ASSUME NEW b, NEW B, NEW s, Good(s, b, B), NEW f, f.info \in Infos(B)
    PROVE  Good(OutOfSequence(s, f), b, B)
BY SaveGood, RejectGood, SelectiveRejectGood DEF OutOfSequence

\* Every I frame.
LEMMA IFrameGood ==
    ASSUME NEW b, NEW B, NEW s, Good(s, b, B), NEW f, Readable(f, B), f.type = "I"
    PROVE  Grown(IFrame(s, f), b, B)
<1> DEFINE t == IF s.state = "Connected" THEN CheckIFrameAcknowledged(s, f.nr)
                                         ELSE AdvanceVa(s, f.nr)
<1>1. f.nr \in Ring /\ f.info \in Infos(B)  BY DEF Readable, UFrames
<1>2. CASE ~vaLeNrLeVs(s, f)  BY <1>2, NrErrorGood, GrownGood DEF IFrame
<1>3. CASE vaLeNrLeVs(s, f)
  <2>1. Acceptable(s, f.nr)  BY <1>1, <1>3 DEF Acceptable, vaLeNrLeVs
  <2>2. Good(t, b, B)  BY <2>1, CheckGood, AdvanceVaGood
  <2>3. IFrame(s, f) = IF t.ownReceiverBusy THEN t
                       ELSE IF f.ns = t.vr THEN InSequence(t, f) ELSE OutOfSequence(t, f)
    BY <1>3 DEF IFrame
  <2> HIDE DEF t
  <2>4. Grown(t, b, B) /\ Grown(InSequence(t, f), b, B) /\ Grown(OutOfSequence(t, f), b, B)
    BY <1>1, <2>2, InSequenceGood, OutOfSequenceGood, GrownGood
  <2> QED  BY <2>3, <2>4
<1> QED  BY <1>2, <1>3

-----------------------------------------------------------------------------
(* The supervisory frames *)

\* Timer recovery ends.
LEMMA RecoveredGood ==
    ASSUME NEW b, NEW B, NEW s, Good(s, b, B) PROVE Good(Recovered(s), b, B)
<1>1. Good(StartT3(s), b, B)  BY TimersGood
<1>2. 0 \in 0 .. StartT3(s).n2  BY <1>1 DEF Good, Numbers
<1> QED  BY <1>1, <1>2, SetRc, GotoGood DEF Recovered, PlainStates

\* RR and RNR, in either state of a link that is up.
LEMMA ReadyGood ==
    ASSUME NEW b, NEW B, NEW s, Good(s, b, B), NEW f, Readable(f, B), f.type \notin UFrames
    PROVE  Good(ReadyFrame(s, f), b, B)
<1> DEFINE c == [s EXCEPT !.peerReceiverBusy = (f.type = "RNR")]
           p == Check_Need_for_Response(c, f)
           t == IF responseWithFinal(f) THEN StopT1(c)
                ELSE IF commandWithPoll(f) THEN Enquiry_Response(c, TRUE) ELSE c
           u == AdvanceVa(t, f.nr)
<1>1. f.nr \in Ring  BY DEF Readable
<1>2. Good(c, b, B)  BY SetPeerBusy
<1>3. ReadyFrame(s, f) =
        IF s.state = "Connected"
        THEN IF vaLeNrLeVs(p, f) THEN CheckIFrameAcknowledged(p, f.nr)
             ELSE N_r_Error_Recovery(p)
        ELSE IF ~vaLeNrLeVs(t, f) THEN N_r_Error_Recovery(t)
             ELSE IF ~responseWithFinal(f) THEN u
             ELSE IF u.vs = u.va THEN Recovered(u)
             ELSE Invoke_Retransmission(u, f.nr)
  BY DEF ReadyFrame
<1> HIDE DEF c
<1>4. Good(p, b, B)  BY <1>2, CheckNeedGood
<1>5. Good(t, b, B)  BY <1>2, TimersGood, EnquiryGood
<1> HIDE DEF p, t
<1>6. Good(N_r_Error_Recovery(p), b, B) /\ Good(N_r_Error_Recovery(t), b, B)
  BY <1>4, <1>5, NrErrorGood
<1>7. ASSUME vaLeNrLeVs(p, f) PROVE Good(CheckIFrameAcknowledged(p, f.nr), b, B)
  BY <1>1, <1>4, <1>7, CheckGood DEF Acceptable, vaLeNrLeVs
<1>8. ASSUME vaLeNrLeVs(t, f) PROVE Good(u, b, B)
  BY <1>1, <1>5, <1>8, AdvanceVaGood DEF Acceptable, vaLeNrLeVs
<1> HIDE DEF u
<1>9. ASSUME vaLeNrLeVs(t, f)
      PROVE  Good(Recovered(u), b, B) /\ Good(Invoke_Retransmission(u, f.nr), b, B)
  BY <1>1, <1>8, <1>9, RecoveredGood, RetransmitGood
<1> QED  BY <1>3, <1>6, <1>7, <1>8, <1>9

\* REJ: go back and send again.
LEMMA RejectFrameGood ==
    ASSUME NEW b, NEW B, NEW s, Good(s, b, B), NEW f, Readable(f, B), f.type \notin UFrames
    PROVE  Good(RejectFrame(s, f), b, B)
<1> DEFINE t == [s EXCEPT !.peerReceiverBusy = FALSE]
           u == AdvanceVa(t, f.nr)
<1>1. f.nr \in Ring  BY DEF Readable
<1>2. Good(t, b, B)  BY SetPeerBusy
<1>3. RejectFrame(s, f) = IF ~vaLeNrLeVs(t, f) THEN N_r_Error_Recovery(t)
                          ELSE IF s.state = "TimerRecovery" /\ u.vs = u.va THEN u
                          ELSE Invoke_Retransmission(StopT1(u), f.nr)
  BY DEF RejectFrame
<1> HIDE DEF t
<1>4. CASE ~vaLeNrLeVs(t, f)  BY <1>2, <1>3, <1>4, NrErrorGood
<1>5. CASE vaLeNrLeVs(t, f)
  <2>1. Good(u, b, B)  BY <1>1, <1>2, <1>5, AdvanceVaGood DEF Acceptable, vaLeNrLeVs
  <2> HIDE DEF u
  <2>2. Good(StopT1(u), b, B)  BY <2>1, TimersGood
  <2>3. Good(Invoke_Retransmission(StopT1(u), f.nr), b, B)  BY <1>1, <2>2, RetransmitGood
  <2> QED  BY <1>3, <1>5, <2>1, <2>3
<1> QED  BY <1>4, <1>5

\* SREJ: send one frame again.
LEMMA SelectiveRejectFrameGood ==
    ASSUME NEW b, NEW B, NEW s, Good(s, b, B), NEW f, Readable(f, B), f.type \notin UFrames
    PROVE  Good(SelectiveRejectFrame(s, f), b, B)
<1> DEFINE c == [s EXCEPT !.peerReceiverBusy = FALSE]
           t == IF s.state = "Connected" THEN Check_Need_for_Response(c, f)
                ELSE IF f.pf THEN StopT1(c) ELSE c
           u == IF f.pf THEN AdvanceVa(t, f.nr) ELSE t
<1>1. f.nr \in Ring  BY DEF Readable
<1>2. Good(c, b, B)  BY SetPeerBusy
<1>3. SelectiveRejectFrame(s, f) =
        IF ~vaLeNrLeVs(t, f) THEN N_r_Error_Recovery(t)
        ELSE IF s.state = "TimerRecovery" /\ u.vs = u.va THEN Recovered(u)
        ELSE StartT1(StopT3(ReplaySelectively(u, f.nr)))
  BY DEF SelectiveRejectFrame
<1> HIDE DEF c
<1>4. Good(t, b, B)  BY <1>2, CheckNeedGood, TimersGood
<1> HIDE DEF t
<1>5. CASE ~vaLeNrLeVs(t, f)  BY <1>3, <1>4, <1>5, NrErrorGood
<1>6. CASE vaLeNrLeVs(t, f)
  <2>1. Good(u, b, B)  BY <1>1, <1>4, <1>6, AdvanceVaGood DEF Acceptable, vaLeNrLeVs
  <2> HIDE DEF u
  <2>2. Good(ReplaySelectively(u, f.nr), b, B)  BY <1>1, <2>1, ReplayGood
  <2>3. Good(StartT1(StopT3(ReplaySelectively(u, f.nr))), b, B)  BY <2>2, TimersGood
  <2>4. Good(Recovered(u), b, B)  BY <2>1, RecoveredGood
  <2> QED  BY <1>3, <1>6, <2>3, <2>4
<1> QED  BY <1>5, <1>6

-----------------------------------------------------------------------------
(* The pages *)

\* An event of a v2.0 link: of the owner's b payloads and the peer's B.
PlainEvent(s, e, b, B) ==
    \/ /\ e.frame = None /\ e.name \notin SFrames \cup UFrames \cup {"I", "SABME", "FRMR"}
       /\ e.name # "all_other_commands"
       /\ e.name = "DL_DATA_request" => e.info \in Infos(b)
    \/ e.name = e.frame.type /\ Readable(e.frame, B)
    \/ e.name = "all_other_commands" /\ s.state = "Disconnected" /\ Readable(e.frame, B)

\* An unnumbered answer.
LEMMA ReplyGood ==
    ASSUME NEW b, NEW B, NEW s, Good(s, b, B), NEW type \in UFrames, NEW f, Readable(f, B)
    PROVE  Good(Reply(s, type, f), b, B)
BY SendUGood DEF Reply, Readable

\* A v2.0 link is left one.
LEMMA VersionKept ==
    ASSUME NEW b, NEW B, NEW s, Good(s, b, B), NEW v \in BOOLEAN, ~v
    PROVE  Good([s EXCEPT !.isExtended = v], b, B)
<1> DEFINE t == [s EXCEPT !.isExtended = v]
<1>0. v = FALSE  OBVIOUS
<1>1. Shape(t)  BY DEF Good, Shape
<1>2. Flags(t)  BY DEF Good, Shape, Fields, Flags
<1>3. Plain(t)  BY <1>0 DEF Good, Shape, Fields, Plain
<1>4. Numbers(t, b, B)  BY DEF Good, Shape, Fields, Numbers
<1>5. Stores(t, b, B)  BY DEF Good, Shape, Fields, Stores
<1>6. Windowed(t)
  <2>1. s.isExtended = v  BY <1>0 DEF Good, Plain
  <2>2. t.isExtended = s.isExtended  BY <2>1 DEF Good, Shape, Fields
  <2>3. /\ t.vs = s.vs /\ t.va = s.va /\ t.k = s.k /\ t.srejEnabled = s.srejEnabled
        /\ t.sentIFrames = s.sentIFrames
    BY DEF Good, Shape, Fields
  <2> HIDE DEF t
  <2> QED  BY <2>2, <2>3
       DEF Good, Windowed, outstanding, effectiveWindow, isOutstanding, Ahead, modulus
<1> QED  BY <1>1, <1>2, <1>3, <1>4, <1>5, <1>6 DEF Good

\* No SABME reaches a v2.0 link of plain modes.
LEMMA SetVersionGood ==
    ASSUME NEW b, NEW B, NEW s, Good(s, b, B), NEW e, e.name # "SABME"
    PROVE  Good(SetVersion(s, e), b, B)
<1>1. (e.name = "SABME") \in BOOLEAN /\ ~(e.name = "SABME")  OBVIOUS
<1> QED  BY <1>1, VersionKept DEF SetVersion

\* The retry count starts, and stays within N2.
LEMMA RcZero ==
    ASSUME NEW b, NEW B, NEW s, Good(s, b, B)
    PROVE  Good([s EXCEPT !.rc = 0], b, B) /\ Good([s EXCEPT !.rc = 1], b, B)
<1>1. 0 \in 0 .. s.n2 /\ 1 \in 0 .. s.n2  BY DEF Good, Numbers
<1> QED  BY <1>1, SetRc

LEMMA RcNext ==
    ASSUME NEW b, NEW B, NEW s, Good(s, b, B), s.rc # s.n2
    PROVE  Good([s EXCEPT !.rc = @ + 1], b, B)
<1>1. s.rc + 1 \in 0 .. s.n2  BY DEF Good, Numbers
<1> QED  BY <1>1, SetRc

\* The link goes down.
LEMMA DownGood ==
    ASSUME NEW b, NEW B, NEW s, Good(s, b, B) PROVE Good(Down(s), b, B)
BY TimersGood, DiscardGood, SignalDownGood, GotoGood DEF Down, PlainStates

\* The pages, one lemma each.
LEMMA DisconnectedGood ==
    ASSUME NEW b, NEW B, NEW s, Good(s, b, B), NEW e, PlainEvent(s, e, b, B)
    PROVE  Good(Disconnected(s, e), b, B)
<1> DEFINE t == Reply(SetVersion(s, e), "UA", e.frame)
           u == SignalUp(ZeroSequenceVariables(ClearExceptionConditions(t)))
<1>1. CASE e.name = "DL_CONNECT_request"
  <2>1. Disconnected(s, e) =
          Goto([EstablishDataLink(s) EXCEPT !.layer3Initiated = TRUE], "AwaitingConnection")
    BY <1>1 DEF Disconnected
  <2>2. Good([EstablishDataLink(s) EXCEPT !.layer3Initiated = TRUE], b, B)
    BY EstablishGood, SetLayer3
  <2> QED  BY <2>1, <2>2, GotoGood DEF PlainStates
<1>2. CASE e.name = "SABM"
  <2>1. Readable(e.frame, B)  BY <1>2 DEF PlainEvent, UFrames
  <2>2. Good(SetVersion(s, e), b, B)  BY <1>2, SetVersionGood
  <2>3. Good(t, b, B)  BY <2>1, <2>2, ReplyGood DEF UFrames
  <2>4. Disconnected(s, e) = Goto([StartT3(u) EXCEPT !.rc = 0], "Connected")
    BY <1>2 DEF Disconnected
  <2> HIDE DEF t
  <2>5. Good(u, b, B)  BY <2>3, ClearGood, ZeroGood, SignalUpGood
  <2> HIDE DEF u
  <2>6. Good([StartT3(u) EXCEPT !.rc = 0], b, B)  BY <2>5, TimersGood, RcZero
  <2> QED  BY <2>4, <2>6, GotoGood DEF PlainStates
<1>3. CASE e.name \in {"DISC", "all_other_commands"}
  <2>1. Readable(e.frame, B)  BY <1>3 DEF PlainEvent, UFrames
  <2>2. Disconnected(s, e) = Reply(s, "DM", e.frame)  BY <1>3 DEF Disconnected
  <2> QED  BY <2>1, <2>2, ReplyGood DEF UFrames
<1>4. CASE e.name = "UA"  BY <1>4, NotifyGood DEF Disconnected
<1>5. CASE e.name \notin {"DL_CONNECT_request", "SABM", "SABME", "DISC",
                          "all_other_commands", "UA"}
  BY <1>5 DEF Disconnected
<1>6. e.name # "SABME"  BY DEF PlainEvent, Readable, SFrames, UFrames
<1> QED  BY <1>1, <1>2, <1>3, <1>4, <1>5, <1>6

\* A UA completes the dial.
LEMMA CompleteGood ==
    ASSUME NEW b, NEW B, NEW s, Good(s, b, B) PROVE Good(Complete(s), b, B)
<1> DEFINE t == IF s.layer3Initiated THEN SignalUp(s)
                ELSE IF s.vs # s.va THEN SignalUp(DiscardQueue(s)) ELSE s
           u == [ZeroSequenceVariables(StartT3(StopT1(t))) EXCEPT !.rc = 0]
<1>1. s.state # "AwaitingV22Connection"  BY DEF Good, Numbers, PlainStates
<1>2. Complete(s) = Goto(u, "Connected")  BY <1>1 DEF Complete
<1>3. Good(t, b, B)  BY SignalUpGood, DiscardGood
<1> HIDE DEF t
<1>4. Good(u, b, B)  BY <1>3, TimersGood, ZeroGood, RcZero
<1> HIDE DEF u
<1> QED  BY <1>2, <1>4, GotoGood DEF PlainStates

LEMMA AwaitingConnectionGood ==
    ASSUME NEW b, NEW B, NEW s, Good(s, b, B), NEW e, PlainEvent(s, e, b, B),
           s.state = "AwaitingConnection"
    PROVE  Good(AwaitingConnection(s, e), b, B)
<1> USE DEF UFrames, SFrames
<1>1. CASE e.name = "DL_CONNECT_request"
  <2>1. AwaitingConnection(s, e) = [DiscardQueue(s) EXCEPT !.layer3Initiated = TRUE]
    BY <1>1 DEF AwaitingConnection
  <2>2. Good(DiscardQueue(s), b, B)  BY DiscardGood
  <2>3. Good([DiscardQueue(s) EXCEPT !.layer3Initiated = TRUE], b, B)  BY <2>2, SetLayer3
  <2> QED  BY <2>1, <2>3
<1>2. CASE e.name = "SABM"
  <2> DEFINE t == Reply(s, "UA", e.frame)
             v == t.isExtended /\ ~(s.state = "AwaitingV22Connection")
             u == [t EXCEPT !.isExtended = v]
  <2>1. Readable(e.frame, B)  BY <1>2 DEF PlainEvent
  <2>2. AwaitingConnection(s, e) = Goto(u, "AwaitingConnection")
    BY <1>2 DEF AwaitingConnection
  <2>3. Good(t, b, B)  BY <2>1, ReplyGood
  <2> HIDE DEF t
  <2>4. v \in BOOLEAN /\ ~v  BY <2>3 DEF Good, Plain
  <2> HIDE DEF v
  <2>5. Good(u, b, B)  BY <2>3, <2>4, VersionKept
  <2> HIDE DEF u
  <2> QED  BY <2>2, <2>5, GotoGood DEF PlainStates
<1>3. CASE e.name = "DISC"
  <2>1. Readable(e.frame, B)  BY <1>3 DEF PlainEvent
  <2>2. AwaitingConnection(s, e) = Reply(s, "DM", e.frame)  BY <1>3 DEF AwaitingConnection
  <2> QED  BY <2>1, <2>2, ReplyGood
<1>4. CASE e.name = "UA"
  <2>1. AwaitingConnection(s, e) = IF e.frame.pf THEN Complete(s) ELSE Notify(s)
    BY <1>4 DEF AwaitingConnection
  <2>2. Good(Complete(s), b, B) /\ Good(Notify(s), b, B)  BY CompleteGood, NotifyGood
  <2> QED  BY <2>1, <2>2
<1>5. CASE e.name = "DM"
  <2>1. AwaitingConnection(s, e) = IF e.frame.pf THEN Down(s) ELSE s
    BY <1>5 DEF AwaitingConnection
  <2> QED  BY <2>1, DownGood
<1>6. CASE e.name = "T1_expiry"
  <2> DEFINE t == SendFrame([s EXCEPT !.rc = @ + 1], UFrame("SABM", TRUE, TRUE))
  <2>1. AwaitingConnection(s, e) = IF s.rc = s.n2 THEN Down(s) ELSE StartT1(t)
    BY <1>6 DEF AwaitingConnection
  <2>2. s.rc # s.n2 => Good(t, b, B)  BY RcNext, SendUGood
  <2> HIDE DEF t
  <2>3. s.rc # s.n2 => Good(StartT1(t), b, B)  BY <2>2, TimersGood
  <2> QED  BY <2>1, <2>3, DownGood
<1>7. CASE e.name \notin {"DL_CONNECT_request", "SABM", "SABME", "DISC", "UA", "FRMR", "DM",
                          "T1_expiry"}
  BY <1>7 DEF AwaitingConnection
<1>8. e.name \notin {"SABME", "FRMR"}  BY DEF PlainEvent, Readable
<1> QED  BY <1>1, <1>2, <1>3, <1>4, <1>5, <1>6, <1>7, <1>8

LEMMA AwaitingReleaseGood ==
    ASSUME NEW b, NEW B, NEW s, Good(s, b, B), NEW e, PlainEvent(s, e, b, B)
    PROVE  Good(AwaitingRelease(s, e), b, B)
<1> USE DEF UFrames, SFrames
<1>1. CASE e.name \in {"UA", "DM"}
  <2>1. e.frame.pf \in BOOLEAN  BY <1>1 DEF PlainEvent, Readable
  <2>2. AwaitingRelease(s, e) \in {Down(s), Notify(s), s}  BY <1>1, <2>1 DEF AwaitingRelease
  <2>3. Good(Down(s), b, B) /\ Good(Notify(s), b, B)  BY DownGood, NotifyGood
  <2> QED  BY <2>2, <2>3
<1>2. CASE e.name \in {"SABM", "DISC"}
  <2>1. Readable(e.frame, B)  BY <1>2 DEF PlainEvent
  <2>2. AwaitingRelease(s, e) = Reply(s, IF e.name = "SABM" THEN "DM" ELSE "UA", e.frame)
    BY <1>2 DEF AwaitingRelease
  <2> QED  BY <2>1, <2>2, ReplyGood
<1>3. CASE e.name = "T1_expiry"
  <2> DEFINE t == SendFrame([s EXCEPT !.rc = @ + 1], UFrame("DISC", TRUE, TRUE))
  <2>1. AwaitingRelease(s, e) = IF s.rc = s.n2 THEN Down(s) ELSE StartT1(t)
    BY <1>3 DEF AwaitingRelease
  <2>2. s.rc # s.n2 => Good(t, b, B)  BY RcNext, SendUGood
  <2> HIDE DEF t
  <2>3. s.rc # s.n2 => Good(StartT1(t), b, B)  BY <2>2, TimersGood
  <2> QED  BY <2>1, <2>3, DownGood
<1>4. CASE e.name \notin {"UA", "DM", "SABM", "SABME", "DISC", "T1_expiry"}
  BY <1>4 DEF AwaitingRelease
<1>5. e.name # "SABME"  BY DEF PlainEvent, Readable
<1> QED  BY <1>1, <1>2, <1>3, <1>4, <1>5

\* A SABM on a link that is up resets it.
LEMMA ResetGood ==
    ASSUME NEW b, NEW B, NEW s, Good(s, b, B), NEW e, e.name # "SABME", Readable(e.frame, B)
    PROVE  Good(Reset(s, e), b, B)
<1> DEFINE r == Reply(SetVersion(s, e), "UA", e.frame)
           t == Notify(ClearExceptionConditions(r))
           u == IF s.vs # s.va THEN SignalUp(t) ELSE t
           v == IF s.state = "TimerRecovery" /\ s.vs = s.va THEN u ELSE ZeroSequenceVariables(u)
<1>1. Reset(s, e) = Goto(StartT3(StopT1(v)), "Connected")  BY DEF Reset
<1>2. Good(r, b, B)  BY SetVersionGood, ReplyGood DEF UFrames
<1> HIDE DEF r
<1>3. Good(t, b, B)  BY <1>2, ClearGood, NotifyGood
<1> HIDE DEF t
<1>4. Good(u, b, B)  BY <1>3, SignalUpGood
<1> HIDE DEF u
<1>5. Good(v, b, B)  BY <1>4, ZeroGood
<1> HIDE DEF v
<1> QED  BY <1>1, <1>5, TimersGood, GotoGood DEF PlainStates

\* What owner and timers ask of a link that is up.
LEMMA UpPrimitiveGood ==
    ASSUME NEW b, NEW B, NEW s, Good(s, b, B), NEW e,
           e.name = "DL_DATA_request" => e.info \in Infos(b)
    PROVE  Good(UpPrimitive(s, e), b, B)
<1>1. CASE e.name = "DL_CONNECT_request"
  <2>1. UpPrimitive(s, e) =
          Awaiting([EstablishDataLink(DiscardQueue(s)) EXCEPT !.layer3Initiated = TRUE])
    BY <1>1 DEF UpPrimitive
  <2>2. Good([EstablishDataLink(DiscardQueue(s)) EXCEPT !.layer3Initiated = TRUE], b, B)
    BY DiscardGood, EstablishGood, SetLayer3
  <2> QED  BY <2>1, <2>2, AwaitingGood
<1>2. CASE e.name = "DL_DISCONNECT_request"
  <2> DEFINE t == SendFrame([DiscardQueue(s) EXCEPT !.rc = 0], UFrame("DISC", TRUE, TRUE))
  <2>1. UpPrimitive(s, e) = Goto(StartT1(StopT3(t)), "AwaitingRelease")
    BY <1>2 DEF UpPrimitive
  <2>2. Good(t, b, B)  BY DiscardGood, RcZero, SendUGood DEF UFrames
  <2> HIDE DEF t
  <2> QED  BY <2>1, <2>2, TimersGood, GotoGood DEF PlainStates
<1>3. CASE e.name = "DL_DATA_request"  BY <1>3, QueueGood DEF UpPrimitive
<1>4. CASE e.name = "DL_FLOW_OFF_request"
  <2> DEFINE t == ClearAcknowledgePending(
                      SendSFrame([s EXCEPT !.ownReceiverBusy = TRUE], "RNR", FALSE, FALSE))
  <2>1. UpPrimitive(s, e) \in {t, s}  BY <1>4 DEF UpPrimitive
  <2>2. Good(t, b, B)  BY SetOwnBusy, SendSGood, ClearAckGood DEF SFrames
  <2> QED  BY <2>1, <2>2
<1>5. CASE e.name = "DL_FLOW_ON_request"
  <2> DEFINE t == ClearAcknowledgePending(
                      SendSFrame([s EXCEPT !.ownReceiverBusy = FALSE], "RR", TRUE, TRUE))
  <2>1. UpPrimitive(s, e) \in {t, StartT1(StopT3(t)), s}  BY <1>5 DEF UpPrimitive
  <2>2. Good(t, b, B)  BY SetOwnBusy, SendSGood, ClearAckGood DEF SFrames
  <2> HIDE DEF t
  <2>3. Good(StartT1(StopT3(t)), b, B)  BY <2>2, TimersGood
  <2> QED  BY <2>1, <2>2, <2>3
<1>6. CASE e.name = "LM_SEIZE_confirm"
  <2>1. UpPrimitive(s, e) \in {Enquiry_Response(s, FALSE), s}  BY <1>6 DEF UpPrimitive
  <2>2. Good(Enquiry_Response(s, FALSE), b, B)  BY EnquiryGood
  <2> QED  BY <2>1, <2>2
<1>7. CASE e.name = "T1_expiry"
  <2> DEFINE t == Goto(Transmit_Enquiry([s EXCEPT !.rc = 1]), "TimerRecovery")
             u == Transmit_Enquiry([s EXCEPT !.rc = @ + 1])
             v == Down(SendFrame(s, UFrame("DM", FALSE, FALSE)))
  <2>1. UpPrimitive(s, e) \in {t, v, s} \/ (UpPrimitive(s, e) = u /\ s.rc # s.n2)
    BY <1>7 DEF UpPrimitive
  <2>2. Good(t, b, B)  BY RcZero, TransmitGood, GotoGood DEF PlainStates
  <2>3. s.rc # s.n2 => Good(u, b, B)  BY RcNext, TransmitGood
  <2>4. Good(v, b, B)  BY SendUGood, DownGood DEF UFrames
  <2> HIDE DEF t, u, v
  <2> QED  BY <2>1, <2>2, <2>3, <2>4
<1>8. CASE e.name = "T3_expiry"
  <2> DEFINE t == Goto(Transmit_Enquiry([s EXCEPT !.rc = 0]), "TimerRecovery")
  <2>1. UpPrimitive(s, e) \in {t, s}  BY <1>8 DEF UpPrimitive
  <2>2. Good(t, b, B)  BY RcZero, TransmitGood, GotoGood DEF PlainStates
  <2> HIDE DEF t
  <2> QED  BY <2>1, <2>2
<1>9. CASE e.name \notin {"DL_CONNECT_request", "DL_DISCONNECT_request", "DL_DATA_request",
                          "DL_FLOW_OFF_request", "DL_FLOW_ON_request", "LM_SEIZE_confirm",
                          "T1_expiry", "T3_expiry"}
  BY <1>9 DEF UpPrimitive
<1> QED  BY <1>1, <1>2, <1>3, <1>4, <1>5, <1>6, <1>7, <1>8, <1>9

\* What a frame does to a link that is up.
LEMMA UpFrameGood ==
    ASSUME NEW b, NEW B, NEW s, Good(s, b, B), NEW e, Readable(e.frame, B), e.name = e.frame.type
    PROVE  Grown(UpFrame(s, e), b, B)
<1> DEFINE f == e.frame
<1> USE DEF SFrames, UFrames
<1>1. CASE e.name = "I"
  <2>1. UpFrame(s, e) = IFrame(s, f)  BY <1>1 DEF UpFrame
  <2> QED  BY <1>1, <2>1, IFrameGood
<1>2. CASE e.name \in SFrames
  <2>1. UpFrame(s, e) \in {ReadyFrame(s, f), RejectFrame(s, f), SelectiveRejectFrame(s, f)}
    BY <1>2 DEF UpFrame
  <2>2. Good(ReadyFrame(s, f), b, B)  BY <1>2, ReadyGood
  <2>3. Good(RejectFrame(s, f), b, B)  BY <1>2, RejectFrameGood
  <2>4. Good(SelectiveRejectFrame(s, f), b, B)  BY <1>2, SelectiveRejectFrameGood
  <2>5. Good(UpFrame(s, e), b, B)  BY <2>1, <2>2, <2>3, <2>4
  <2> QED  BY <2>5, GrownGood
<1>3. CASE e.name = "SABM"
  <2>1. UpFrame(s, e) = Reset(s, e)  BY <1>3 DEF UpFrame
  <2> QED  BY <1>3, <2>1, ResetGood, GrownGood
<1>4. CASE e.name = "DISC"
  <2>1. UpFrame(s, e) = Down(Reply(s, "UA", f))  BY <1>4 DEF UpFrame
  <2>2. Good(Reply(s, "UA", f), b, B)  BY ReplyGood
  <2> QED  BY <2>1, <2>2, DownGood, GrownGood
<1>5. CASE e.name = "UA"
  <2> DEFINE t == [EstablishDataLink(Notify(s)) EXCEPT !.layer3Initiated = FALSE]
  <2>1. UpFrame(s, e) = Awaiting(t)  BY <1>5 DEF UpFrame
  <2>2. Good(t, b, B)  BY NotifyGood, EstablishGood, SetLayer3
  <2> HIDE DEF t
  <2> QED  BY <2>1, <2>2, AwaitingGood, GrownGood
<1>6. CASE e.name = "DM"
  <2>1. UpFrame(s, e) = Down(s)  BY <1>6 DEF UpFrame
  <2> QED  BY <2>1, DownGood, GrownGood
<1> QED  BY <1>1, <1>2, <1>3, <1>4, <1>5, <1>6 DEF Readable

\* The page of the state the session is in.
LEMMA PageGood ==
    ASSUME NEW b, NEW B, NEW s, Good(s, b, B), NEW e, PlainEvent(s, e, b, B)
    PROVE  Grown(Page(s, e), b, B)
<1>1. s.state \in PlainStates  BY DEF Good, Numbers
<1>2. CASE s.state = "Disconnected"
  <2>1. Page(s, e) = Disconnected(s, e)  BY <1>2 DEF Page
  <2> QED  BY <2>1, DisconnectedGood, GrownGood
<1>3. CASE s.state = "AwaitingConnection"
  <2>1. Page(s, e) = AwaitingConnection(s, e)  BY <1>3 DEF Page
  <2> QED  BY <1>3, <2>1, AwaitingConnectionGood, GrownGood
<1>4. CASE s.state = "AwaitingRelease"
  <2>1. Page(s, e) = AwaitingRelease(s, e)  BY <1>4 DEF Page
  <2> QED  BY <2>1, AwaitingReleaseGood, GrownGood
<1>5. CASE s.state \in {"Connected", "TimerRecovery"}
  <2>1. Page(s, e) = IF e.frame = None THEN UpPrimitive(s, e) ELSE UpFrame(s, e)
    BY <1>5 DEF Page
  <2>2. CASE e.frame = None
    <3>1. e.name = "DL_DATA_request" => e.info \in Infos(b)
      BY <1>5 DEF PlainEvent, Readable, UFrames, SFrames
    <3> QED  BY <2>1, <2>2, <3>1, UpPrimitiveGood, GrownGood
  <2>3. CASE e.frame # None
    <3>1. e.name = e.frame.type /\ Readable(e.frame, B)  BY <1>5, <2>3 DEF PlainEvent
    <3> QED  BY <2>1, <2>3, <3>1, UpFrameGood
  <2> QED  BY <2>2, <2>3
<1> QED  BY <1>1, <1>2, <1>3, <1>4, <1>5 DEF PlainStates

-----------------------------------------------------------------------------
(* The driver *)

\* After progress since its last expiry, T1 counts its retries anew.
LEMMA ClampGood ==
    ASSUME NEW b, NEW B, NEW s, Good(s, b, B)
    PROVE  Good(clampRc(s), b, B) /\ clampRc(s).state = s.state
<1> DEFINE rc == IF s.vaAdvancedSinceT1Expiry /\ s.rc > 1 THEN 1 ELSE s.rc
           t  == [s EXCEPT !.rc = rc]
           u  == [t EXCEPT !.vaAdvancedSinceT1Expiry = FALSE]
<1>1. rc \in 0 .. s.n2  BY DEF Good, Numbers, Flags
<1>2. clampRc(s) = u
  BY SMTT(60) DEF clampRc, Good, Shape, Fields
<1> HIDE DEF rc
<1>3. Good(t, b, B) /\ t.state = s.state  BY <1>1, SetRc DEF Good, Shape, Fields
<1> HIDE DEF t
<1>4. Good(u, b, B)  BY <1>3, SetAdvanced
<1>5. u.state = t.state  BY <1>3 DEF Good, Shape, Fields
<1> QED  BY <1>2, <1>3, <1>4, <1>5

\* What the driver notes after a page.
LEMMA NotesGood ==
    ASSUME NEW b, NEW B, NEW s, Good(s, b, B), NEW before, NEW e,
           e.name = "I" => e.frame.info \in Infos(B)
    PROVE  LET t == noteProgress(before,
                        noteFrameZero(before, e, notePeerCall(noteConnectingUa(s), e)))
           IN  Good(t, b, B) /\ t.seize = s.seize
<1> DEFINE u == noteConnectingUa(s)
           answered == \/ e.name = "SABM" /\ (Up(u) \/ u.state = "AwaitingConnection")
                       \/ e.name = "SABME" /\ (Up(u) \/ u.state = "AwaitingV22Connection")
           called == IF ~Up(u) /\ ~Connecting(u) THEN FALSE
                     ELSE IF answered THEN u.vs = 0 /\ u.va = 0 /\ u.vr = 0
                     ELSE u.peerCallAnswered /\ e.name \notin SequenceEvents
           v == notePeerCall(u, e)
           w == noteFrameZero(before, e, v)
           x == noteProgress(before, w)
<1>1. Good(u, b, B)  BY SetDroppedUa DEF noteConnectingUa
<1>2. u.seize = s.seize  BY DEF noteConnectingUa, Good, Shape, Fields
<1>3. called \in BOOLEAN
  <2>1. u.peerCallAnswered \in BOOLEAN  BY <1>1 DEF Good, Flags
  <2> HIDE DEF u
  <2> QED  BY <2>1
<1>4. v = [u EXCEPT !.peerCallAnswered = called]  BY DEF notePeerCall
<1> HIDE DEF u, called
<1>5. Good(v, b, B)  BY <1>1, <1>3, <1>4, SetAnswered
<1>6. v.seize = u.seize  BY <1>1, <1>4 DEF Good, Shape, Fields
<1> HIDE DEF v
<1>7. Good(w, b, B)
  <2>1. None \in Infos(B) \cup {None}  OBVIOUS
  <2>2. e.name = "I" => e.frame.info \in Infos(B) \cup {None}  OBVIOUS
  <2>3. Good([v EXCEPT !.lastFrameZero = None], b, B)  BY <1>5, <2>1, SetFrameZero
  <2>4. e.name = "I" => Good([v EXCEPT !.lastFrameZero = e.frame.info], b, B)
    BY <1>5, <2>2, SetFrameZero
  <2> QED  BY <1>5, <2>3, <2>4 DEF noteFrameZero
<1>8. w.seize = v.seize  BY <1>5 DEF noteFrameZero, Good, Shape, Fields
<1> HIDE DEF w
<1>9. Good(x, b, B)  BY <1>7, SetAdvanced DEF noteProgress
<1>10. x.seize = w.seize  BY <1>7 DEF noteProgress, Good, Shape, Fields
<1> QED  BY <1>2, <1>6, <1>8, <1>9, <1>10 DEF u, v, w

\* A page and the notes that go with it.
LEMMA FigureGood ==
    ASSUME NEW b, NEW B, NEW s, Good(s, b, B), NEW e, PlainEvent(s, e, b, B)
    PROVE  /\ Grown(dispatchFigure(s, e), b, B)
           /\ dispatchFigure(s, e).seize = Page(s, e).seize
<1> DEFINE t == Page(s, e)
<1>1. resolveDmDegradeMatch(s, e) = e  BY DEF resolveDmDegradeMatch, Good, Plain
<1>2. PICK c \in Nat : b <= c /\ Good(t, c, B)  BY PageGood DEF Grown
<1>3. dispatchFigure(s, e) = LET u == resolveNextState(s, e, t)
                             IN  noteProgress(s, noteFrameZero(s, e,
                                     notePeerCall(noteConnectingUa(u), e)))
  BY <1>1 DEF dispatchFigure
<1> HIDE DEF t
<1>4. resolveNextState(s, e, t) = t  BY <1>2 DEF resolveNextState, Good, Plain
<1>5. e.name = "I" => e.frame.info \in Infos(B)
  BY DEF PlainEvent, Readable, SFrames, UFrames
<1>6. Good(dispatchFigure(s, e), c, B) /\ dispatchFigure(s, e).seize = t.seize
  BY <1>2, <1>3, <1>4, <1>5, NotesGood
<1> QED  BY <1>2, <1>6 DEF Grown, t

\* An event stays one when the owner has submitted more.
LEMMA EventGrows ==
    ASSUME NEW b \in Nat, NEW c \in Nat, b <= c, NEW B, NEW s, NEW t, NEW e,
           PlainEvent(s, e, b, B), t.state = s.state \/ e.name # "all_other_commands"
    PROVE  PlainEvent(t, e, c, B)
<1>1. Infos(b) \subseteq Infos(c)  BY InfosGrow
<1> QED  BY <1>1 DEF PlainEvent

\* A UA dropped before is taken first; what follows is the event itself.
LEMMA TakeGood ==
    ASSUME NEW b, NEW B, NEW s, Good(s, b, B), NEW e, PlainEvent(s, e, b, B)
    PROVE  LET t == takeDroppedUa(s, e)
           IN  \E c \in Nat : b <= c /\ Good(t, c, B) /\ PlainEvent(t, e, c, B)
<1> DEFINE t  == takeDroppedUa(s, e)
           u  == [s EXCEPT !.droppedUa = FALSE]
           ua == Event("UA", UFrame("UA", FALSE, TRUE), None)
           w  == [s EXCEPT !.droppedUa = ~isInSequenceIFrame(s, e)]
<1>0. b \in Nat /\ b <= b  BY DEF Good
<1>1. CASE ~s.droppedUa
  <2>1. t = s  BY <1>1 DEF takeDroppedUa
  <2> QED  BY <1>0, <2>1
<1>2. CASE s.droppedUa /\ peerSequenceRestarted(s, e)
  <2>1. t = dispatchFigure(u, ua)  BY <1>2 DEF takeDroppedUa
  <2>2. Good(u, b, B)  BY SetDroppedUa
  <2>3. PlainEvent(u, ua, b, B)
    BY DEF PlainEvent, Readable, Event, UFrame, Frame, UFrames, SFrames
  <2> HIDE DEF u, ua
  <2>4. PICK c \in Nat : b <= c /\ Good(t, c, B)  BY <2>1, <2>2, <2>3, FigureGood DEF Grown
  <2>5. e.name # "all_other_commands"  BY <1>2 DEF peerSequenceRestarted
  <2> HIDE DEF t
  <2>6. PlainEvent(t, e, c, B)  BY <1>0, <2>4, <2>5, EventGrows
  <2> QED  BY <2>4, <2>6 DEF t
<1>3. CASE s.droppedUa /\ ~peerSequenceRestarted(s, e)
  <2>1. t = w  BY <1>3 DEF takeDroppedUa
  <2>2. Good(w, b, B)  BY SetDroppedUa DEF isInSequenceIFrame
  <2>3. w.state = s.state  BY DEF Good, Shape, Fields
  <2> HIDE DEF w
  <2>4. PlainEvent(w, e, b, B)  BY <1>0, <2>3, EventGrows
  <2> QED  BY <1>0, <2>1, <2>2, <2>4
<1> QED  BY <1>1, <1>2, <1>3

\* One event is dispatched.
LEMMA DispatchGood ==
    ASSUME NEW b, NEW B, NEW s, Good(s, b, B), NEW e, PlainEvent(s, e, b, B)
    PROVE  Grown(dispatchOne(s, e), b, B)
<1> DEFINE t == IF e.name = "T1_expiry" THEN clampRc(s) ELSE s
           u == takeDroppedUa(t, e)
<1>0. b \in Nat /\ b <= b  BY DEF Good
<1>1. dispatchOne(s, e) = IF isRepeatedConnectSabm(t, e) THEN Reply(t, "UA", e.frame)
                          ELSE IF isUaOnUpLink(t, e) THEN [t EXCEPT !.droppedUa = TRUE]
                          ELSE dispatchFigure(u, e)
  BY DEF dispatchOne
<1>2. Good(t, b, B) /\ t.state = s.state  BY ClampGood
<1> HIDE DEF t
<1>3. PlainEvent(t, e, b, B)  BY <1>0, <1>2, EventGrows
<1>4. ASSUME isRepeatedConnectSabm(t, e) PROVE Good(Reply(t, "UA", e.frame), b, B)
  <2>1. e.name = "SABM"  BY <1>2, <1>4 DEF isRepeatedConnectSabm, Good, Plain
  <2>2. Readable(e.frame, B)  BY <1>3, <2>1 DEF PlainEvent, UFrames
  <2> QED  BY <1>2, <2>2, ReplyGood DEF UFrames
<1>5. Good([t EXCEPT !.droppedUa = TRUE], b, B)  BY <1>2, SetDroppedUa
<1>6. Grown(dispatchFigure(u, e), b, B)
  <2>1. PICK c \in Nat : b <= c /\ Good(u, c, B) /\ PlainEvent(u, e, c, B)
    BY <1>2, <1>3, TakeGood
  <2> HIDE DEF u
  <2>2. Grown(dispatchFigure(u, e), c, B)  BY <2>1, FigureGood
  <2> QED  BY <1>0, <2>1, <2>2, GrownTwice
<1> QED  BY <1>1, <1>4, <1>5, <1>6, GrownGood

\* The page of an LM-SEIZE confirm does not ask for another.
LEMMA SeizePage ==
    ASSUME NEW b, NEW B, NEW s, Good(s, b, B), NEW e, e = Primitive("LM_SEIZE_confirm")
    PROVE  Page(s, e).seize = s.seize
<1>1. e.name = "LM_SEIZE_confirm" /\ e.frame = None  BY DEF Primitive, Event
<1>2. Enquiry_Response(s, FALSE).seize = s.seize
  <2> DEFINE type == IF s.ownReceiverBusy THEN "RNR"
                     ELSE IF FALSE /\ s.srejEnabled /\ \E n \in Seqs : s.storedReceivedIFrames[n] # None
                          THEN "SREJ" ELSE "RR"
             u == SendSFrame(s, type, FALSE, FALSE)
  <2>1. Good(u, b, B)  BY SendSGood DEF SFrames
  <2>2. u.seize = s.seize  BY DEF SendSFrame, SendFrame, Good, Shape, Fields
  <2>3. Enquiry_Response(s, FALSE) = ClearAcknowledgePending(u)  BY DEF Enquiry_Response
  <2> HIDE DEF u
  <2>4. ClearAcknowledgePending(u).seize = u.seize
    BY <2>1 DEF ClearAcknowledgePending, Good, Shape, Fields
  <2> QED  BY <2>2, <2>3, <2>4
<1>3. CASE s.state = "Disconnected"  BY <1>1, <1>3 DEF Page, Disconnected
<1>4. CASE s.state = "AwaitingConnection"  BY <1>1, <1>4 DEF Page, AwaitingConnection
<1>5. CASE s.state = "AwaitingRelease"  BY <1>1, <1>5 DEF Page, AwaitingRelease
<1>6. CASE s.state \in {"Connected", "TimerRecovery"}
  <2>1. Page(s, e) = UpPrimitive(s, e)  BY <1>1, <1>6 DEF Page
  <2>2. UpPrimitive(s, e) \in {Enquiry_Response(s, FALSE), s}  BY <1>1 DEF UpPrimitive
  <2> QED  BY <1>2, <2>1, <2>2
<1> QED  BY <1>3, <1>4, <1>5, <1>6 DEF Good, Numbers, PlainStates

\* The LM-SEIZE confirm leaves nothing else to dispatch.
LEMMA SeizeTaken ==
    ASSUME NEW b, NEW B, NEW s, Good(s, b, B), NEW e, e = Primitive("LM_SEIZE_confirm")
    PROVE  Grown(dispatchOne(s, e), b, B) /\ dispatchOne(s, e).seize = s.seize
<1> DEFINE w == [s EXCEPT !.droppedUa = ~isInSequenceIFrame(s, e)]
           t == IF ~s.droppedUa THEN s ELSE w
<1>1. e.name = "LM_SEIZE_confirm" /\ e.frame = None  BY DEF Primitive, Event
<1>2. PlainEvent(s, e, b, B)  BY <1>1 DEF PlainEvent, SFrames, UFrames
<1>3. dispatchOne(s, e) = dispatchFigure(t, e)
  <2>1. ~isRepeatedConnectSabm(s, e) /\ ~isUaOnUpLink(s, e) /\ ~peerSequenceRestarted(s, e)
    BY <1>1 DEF isRepeatedConnectSabm, isUaOnUpLink, peerSequenceRestarted
  <2>2. takeDroppedUa(s, e) = t  BY <2>1 DEF takeDroppedUa
  <2> HIDE DEF t
  <2> QED  BY <1>1, <2>1, <2>2 DEF dispatchOne
<1>4. Good(t, b, B)  BY SetDroppedUa DEF isInSequenceIFrame
<1>5. t.seize = s.seize /\ t.state = s.state  BY DEF Good, Shape, Fields
<1> HIDE DEF t
<1>6. PlainEvent(t, e, b, B)
  <2>1. b \in Nat /\ b <= b  BY DEF Good
  <2> QED  BY <1>2, <1>5, <2>1, EventGrows
<1>7. Page(t, e).seize = t.seize  BY <1>4, SeizePage
<1> QED  BY <1>3, <1>4, <1>5, <1>6, <1>7, FigureGood

\* Good, with nothing posted but not dispatched.
Settled(t, b, B) == \E c \in Nat : b <= c /\ Good(t, c, B) /\ t.seize = FALSE

\* After the event, the confirm and the I queue.
LEMMA DrainSettles ==
    ASSUME NEW b, NEW B, NEW s, Good(s, b, B) PROVE Settled(drain(s), b, B)
<1> DEFINE e == Primitive("LM_SEIZE_confirm")
           u == [s EXCEPT !.seize = FALSE]
           t == IF s.seize THEN dispatchOne(u, e) ELSE s
<1>1. drain(s) = DrainIFrameQueue(t)  BY ONLY DEF drain
<1>2. Good(u, b, B) /\ u.seize = FALSE
  <2>1. Good(u, b, B)
    <3>1. \A v \in BOOLEAN : Good([s EXCEPT !.seize = v], b, B)  BY SetSeize
    <3> QED  BY ONLY <3>1
  <2>2. s = [x \in Fields |-> s[x]] /\ "seize" \in Fields  BY DEF Good, Shape, Fields
  <2>3. u.seize = FALSE  BY ONLY <2>2
  <2> QED  BY <2>1, <2>3
<1> HIDE DEF u, e
<1>3. s.seize => Grown(dispatchOne(u, e), b, B) /\ dispatchOne(u, e).seize = FALSE
  BY <1>2, SeizeTaken DEF e
<1>4. Grown(t, b, B) /\ t.seize = FALSE  BY <1>3, GrownGood DEF Good, Flags
<1> HIDE DEF t
<1>5. PICK c \in Nat : b <= c /\ Good(t, c, B)  BY <1>4 DEF Grown
<1>6. Good(DrainIFrameQueue(t), c, B) /\ DrainIFrameQueue(t).seize = FALSE
  BY <1>4, <1>5, DrainGood
<1> QED  BY <1>1, <1>5, <1>6 DEF Settled

\* An event posted is an event settled.
LEMMA PostGood ==
    ASSUME NEW b, NEW B, NEW s, Good(s, b, B), NEW e, PlainEvent(s, e, b, B)
    PROVE  Settled(postEvent(s, e), b, B)
<1> DEFINE t == dispatchOne(s, e)
<1>1. PICK c \in Nat : b <= c /\ Good(t, c, B)  BY DispatchGood DEF Grown
<1> HIDE DEF t
<1>2. Settled(drain(t), c, B)  BY <1>1, DrainSettles
<1>3. b \in Nat  BY DEF Good
<1> QED  BY <1>1, <1>2, <1>3 DEF postEvent, Settled, t

-----------------------------------------------------------------------------
(* The listener *)

\* A timer of the session expires.
LEMMA TimerGood ==
    ASSUME NEW b, NEW B, NEW s, Good(s, b, B), NEW name \in {"T1", "T3"}
    PROVE  Settled(onTimerExpiry(s, name), b, B)
<1>1. Good([s EXCEPT !.t1 = FALSE], b, B) /\ Good([s EXCEPT !.t3 = FALSE], b, B)
  BY SetT1, SetT3
<1>2. \A t : /\ PlainEvent(t, Primitive("T1_expiry"), b, B)
             /\ PlainEvent(t, Primitive("T3_expiry"), b, B)
  BY DEF PlainEvent, Primitive, Event, SFrames, UFrames
<1> QED  BY <1>1, <1>2, PostGood DEF onTimerExpiry

-----------------------------------------------------------------------------
(* The codec *)

\* The low octet of an I and of an S frame, and the control field of one octet.
OctetI(nr, p, ns) == 32 * nr + 16 * p + 2 * ns

OctetS(nr, p, k) == 32 * nr + 16 * p + (4 * k + 1)

\* A control field of one octet is read as it was written.
LEMMA ReadBackI ==
    \A nr, ns \in 0 .. 7 : \A p \in {0, 1} :
        /\ OctetI(nr, p, ns) % 2 = 0 /\ (OctetI(nr, p, ns) \div 16) % 2 = p
        /\ (OctetI(nr, p, ns) \div 2) % 8 = ns /\ OctetI(nr, p, ns) \div 32 = nr
BY DEF OctetI

LEMMA ReadBackS ==
    \A nr \in 0 .. 7 : \A k \in 0 .. 3 : \A p \in {0, 1} :
        /\ OctetS(nr, p, k) % 2 = 1 /\ OctetS(nr, p, k) % 4 = 1
        /\ (OctetS(nr, p, k) \div 16) % 2 = p /\ (OctetS(nr, p, k) \div 4) % 4 = k
        /\ OctetS(nr, p, k) \div 32 = nr
BY DEF OctetS

LEMMA ReadBackU ==
    \A base \in {47, 111, 67, 99, 15, 175} : \A p \in {0, 1} : \A c \in Nat :
        c = base + 16 * p
        => /\ c % 2 = 1 /\ c % 4 = 3 /\ (c \div 16) % 2 = p
           /\ c - 16 * ((c \div 16) % 2) = base
OBVIOUS

\* So is one of two octets.
LEMMA ReadBackTwo ==
    /\ \A ns \in 0 .. 127 : (2 * ns) % 2 = 0 /\ (2 * ns) % 4 # 3 /\ ((2 * ns) \div 2) % 128 = ns
    /\ \A k \in 0 .. 3 :
          (4 * k + 1) % 2 = 1 /\ (4 * k + 1) % 4 = 1 /\ ((4 * k + 1) \div 4) % 4 = k
    /\ \A nr \in 0 .. 127 : \A p \in {0, 1} :
          (2 * nr + p) % 2 = p /\ ((2 * nr + p) \div 2) % 128 = nr
OBVIOUS

\* A number that fits is its own remainder.
LEMMA Fits == (\A x \in 0 .. 7 : x % 8 = x) /\ (\A x \in 0 .. 127 : x % 128 = x)
OBVIOUS

\* An I frame's even octet is no U frame's.
LEMMA EvenIsNoU == \A c \in Nat : c % 2 = 0 => c % 4 # 3
OBVIOUS

\* The octets of a control field and of what follows it.
LEMMA OctetsOf ==
    \A c \in Seq(Nat) : \A r \in Seq(Nat) :
        /\ Len(c \o r) = Len(c) + Len(r)
        /\ \A i \in 1 .. Len(c) : (c \o r)[i] = c[i]
OBVIOUS

\* The frames of either version, as a station writes them.
Writable(extended) ==
    [type : {"I"} \cup DOMAIN Supervisory \cup DOMAIN Unnumbered, cmd : BOOLEAN, pf : BOOLEAN,
     nr : 0 .. (IF extended THEN 127 ELSE 7), ns : 0 .. (IF extended THEN 127 ELSE 7),
     info : {None} \cup [n : Nat, first : BOOLEAN, rem : Nat]]

\* What is read of a control field: its octets, and that nothing else reads so.
ReadsAs(w, f, two) ==
    /\ classify(w) = f.type /\ pollFinal(w, two) = f.pf
    /\ f.type \notin DOMAIN Unnumbered => getNr(w, two) = f.nr
    /\ f.type = "I" => getNs(w, two) = f.ns

\* The type of a frame by its first octet.
LEMMA Classified ==
    ASSUME NEW w, NEW c \in Nat, w.octets[1] = c
    PROVE  /\ c % 2 = 0 => classify(w) = "I" /\ ~isUFrame(w)
           /\ \A type \in DOMAIN Supervisory :
                c % 2 = 1 /\ c % 4 = 1 /\ (c \div 4) % 4 = Supervisory[type]
                => classify(w) = type /\ ~isUFrame(w)
           /\ \A type \in DOMAIN Unnumbered :
                c % 2 = 1 /\ c % 4 = 3 /\ c - 16 * ((c \div 16) % 2) = Unnumbered[type]
                => classify(w) = type /\ isUFrame(w)
<1>1. ASSUME c % 2 = 0 PROVE classify(w) = "I" /\ ~isUFrame(w)
  BY <1>1, EvenIsNoU DEF classify, isUFrame
<1>2. ASSUME NEW type \in DOMAIN Supervisory,
             c % 2 = 1, c % 4 = 1, (c \div 4) % 4 = Supervisory[type]
      PROVE  classify(w) = type /\ ~isUFrame(w)
  <2>1. w.octets[1] % 2 # 0 /\ ~isUFrame(w)  BY <1>2 DEF isUFrame
  <2>2. \A other \in DOMAIN Supervisory : Supervisory[other] = Supervisory[type] => other = type
    BY DEF Supervisory
  <2>3. (CHOOSE other \in DOMAIN Supervisory :
             Supervisory[other] = (w.octets[1] \div 4) % 4) = type
    BY <1>2, <2>2
  <2> QED  BY <2>1, <2>3 DEF classify
<1>3. ASSUME NEW type \in DOMAIN Unnumbered,
             c % 2 = 1, c % 4 = 3, c - 16 * ((c \div 16) % 2) = Unnumbered[type]
      PROVE  classify(w) = type /\ isUFrame(w)
  <2>1. w.octets[1] % 2 # 0 /\ isUFrame(w)  BY <1>3 DEF isUFrame
  <2>2. \A other \in DOMAIN Unnumbered : Unnumbered[other] = Unnumbered[type] => other = type
    BY DEF Unnumbered
  <2>3. (CHOOSE other \in DOMAIN Unnumbered : Unnumbered[other] =
             w.octets[1] - 16 * ((w.octets[1] \div 16) % 2)) = type
    BY <1>3, <2>2
  <2> QED  BY <2>1, <2>3 DEF classify
<1> QED  BY <1>1, <1>2, <1>3

\* A frame that carries what was written in it is read as it was.
LEMMA ReadingOf ==
    ASSUME NEW extended \in BOOLEAN, NEW f \in Writable(extended), NEW w,
           w.info = f.info, w.crh = makeAddressChain(f.cmd),
           isUFrame(w) <=> f.type \in DOMAIN Unnumbered,
           ReadsAs(w, f, extended /\ f.type \notin DOMAIN Unnumbered),
           Len(w.octets) = (IF extended /\ f.type \notin DOMAIN Unnumbered THEN 2 ELSE 1)
                           + (IF f.type = "I" THEN 1 ELSE 0)
    PROVE  LET g == decodeFrame(w, extended)
           IN  /\ g.type = f.type /\ g.cmd = f.cmd /\ g.pf = f.pf /\ g.info = f.info
               /\ f.type \notin DOMAIN Unnumbered => g.nr = f.nr
               /\ f.type = "I" => g.ns = f.ns
<1> DEFINE two == extended /\ f.type \notin DOMAIN Unnumbered
           read == IF two THEN 2 ELSE 1
<1>1. f.cmd \in BOOLEAN  BY DEF Writable
<1>2. isCommand(w) = f.cmd
  <2>1. w.crh.destination = f.cmd /\ w.crh.source = ~f.cmd  BY DEF makeAddressChain
  <2>2. CASE f.cmd = TRUE  BY <2>1, <2>2 DEF isCommand
  <2>3. CASE f.cmd = FALSE  BY <2>1, <2>3 DEF isCommand
  <2> QED  BY <1>1, <2>2, <2>3
<1>3. (extended /\ ~isUFrame(w)) = two  OBVIOUS
<1>4. ~(Len(w.octets) < read) /\ (f.type = "I" => Len(w.octets) = read + 1)
  OBVIOUS
<1>5. decodeFrame(w, extended) =
        IF Len(w.octets) < read THEN None
        ELSE [type |-> classify(w), cmd |-> isCommand(w), pf |-> pollFinal(w, two),
              nr   |-> getNr(w, two), ns |-> getNs(w, two),
              info |-> IF classify(w) = "I" /\ Len(w.octets) # read + 1 THEN Garbled
                       ELSE w.info]
  BY <1>3 DEF decodeFrame
<1> HIDE DEF read, two
<1>6. classify(w) = f.type  BY DEF ReadsAs
<1> QED  BY <1>2, <1>4, <1>5, <1>6 DEF ReadsAs, two

\* Whatever its type, numbers, command and poll bits and payload, a frame read
\* with the modulus it was written with (encodeFrame, decodeFrame) is the frame
\* that was sent, in one octet of control field or in two.
THEOREM FrameReadBack ==
    ASSUME NEW extended \in BOOLEAN, NEW f \in Writable(extended)
    PROVE  LET g == decodeFrame(encodeFrame(f, extended), extended)
           IN  /\ g.type = f.type /\ g.cmd = f.cmd /\ g.pf = f.pf /\ g.info = f.info
               /\ f.type \notin DOMAIN Unnumbered => g.nr = f.nr
               /\ f.type = "I" => g.ns = f.ns
<1> DEFINE w   == encodeFrame(f, extended)
           p   == Bit(f.pf)
           c   == controlField(f, extended)
           pid == IF f.type # "I" THEN <<>>
                  ELSE <<IF f.info = Whole(f.info.n) THEN PidNoLayer3 ELSE PidSegmented>>
           two == extended /\ f.type \notin DOMAIN Unnumbered
<1>1. /\ f.type \in {"I"} \cup DOMAIN Supervisory \cup DOMAIN Unnumbered /\ f.pf \in BOOLEAN
      /\ f.nr \in 0 .. (IF extended THEN 127 ELSE 7)
      /\ f.ns \in 0 .. (IF extended THEN 127 ELSE 7)
  BY DEF Writable
<1>2. p \in {0, 1} /\ (p = 1 <=> f.pf)  BY <1>1 DEF Bit
<1>3. w = [crh |-> makeAddressChain(f.cmd), octets |-> c \o pid, info |-> f.info]
  BY DEF encodeFrame
<1>4. pid \in Seq(Nat) /\ Len(pid) = IF f.type = "I" THEN 1 ELSE 0
  BY DEF PidNoLayer3, PidSegmented
<1>5. /\ DOMAIN Supervisory = {"RR", "RNR", "REJ", "SREJ"}
      /\ DOMAIN Unnumbered = {"SABM", "SABME", "DISC", "UA", "DM", "XID"}
      /\ \A type \in DOMAIN Supervisory : Supervisory[type] \in 0 .. 3
      /\ \A type \in DOMAIN Unnumbered : Unnumbered[type] \in {47, 111, 67, 99, 15, 175}
  BY DEF Supervisory, Unnumbered
<1> HIDE DEF w, p, pid
<1>6. w.info = f.info /\ w.crh = makeAddressChain(f.cmd) /\ w.octets = c \o pid  BY <1>3
\* Once the control field is known, so is the frame read.
<1>7. ASSUME NEW o \in Seq(Nat), c = o, Len(o) = IF two THEN 2 ELSE 1
      PROVE  /\ \A i \in 1 .. Len(o) : w.octets[i] = o[i]
             /\ Len(w.octets) = (IF two THEN 2 ELSE 1) + (IF f.type = "I" THEN 1 ELSE 0)
  <2>1. /\ Len(o \o pid) = Len(o) + Len(pid)
        /\ \A i \in 1 .. Len(o) : (o \o pid)[i] = o[i]
    BY <1>4, OctetsOf
  <2> HIDE DEF c
  <2> QED  BY <1>4, <1>6, <1>7, <2>1
<1>8. /\ isUFrame(w) <=> f.type \in DOMAIN Unnumbered
      /\ ReadsAs(w, f, two)
      /\ Len(w.octets) = (IF two THEN 2 ELSE 1) + (IF f.type = "I" THEN 1 ELSE 0)
  <2>1. CASE f.type \in DOMAIN Unnumbered
    <3> DEFINE base == Unnumbered[f.type]
               o == base + 16 * p
    <3>1. c = <<o>>  BY <2>1 DEF controlField, p
    <3>2. base \in {47, 111, 67, 99, 15, 175} /\ o \in Nat  BY <1>2, <1>5, <2>1
    <3> HIDE DEF base
    <3>3. /\ o % 2 = 1 /\ o % 4 = 3 /\ (o \div 16) % 2 = p
          /\ o - 16 * ((o \div 16) % 2) = base
      BY <1>2, <3>2, ReadBackU
    <3> HIDE DEF c, o
    <3>4. <<o>> \in Seq(Nat) /\ Len(<<o>>) = 1 /\ <<o>>[1] = o  BY <3>2
    <3>5. /\ w.octets[1] = o
          /\ Len(w.octets) = 1 + (IF f.type = "I" THEN 1 ELSE 0)
      <4>1. 1 \in 1 .. Len(<<o>>) /\ ~two  BY <2>1, <3>4
      <4> QED  BY <1>7, <3>1, <3>4, <4>1
    <3>6. classify(w) = f.type /\ isUFrame(w)
      <4>1. o - 16 * ((o \div 16) % 2) = Unnumbered[f.type]  BY <3>3 DEF base
      <4>2. o \in Nat /\ o % 2 = 1 /\ o % 4 = 3 /\ w.octets[1] = o  BY <3>2, <3>3, <3>5
      <4> QED  BY <2>1, <4>1, <4>2, Classified
    <3>7. pollFinal(w, FALSE) = f.pf  BY <1>1, <1>2, <3>3, <3>5 DEF pollFinal
    <3>8. f.type # "I"  BY <1>5, <2>1
    <3> QED  BY <2>1, <3>5, <3>6, <3>7, <3>8 DEF ReadsAs
  <2>2. CASE f.type \notin DOMAIN Unnumbered /\ ~extended
    <3> DEFINE k == Supervisory[f.type]
               o == IF f.type = "I" THEN OctetI(f.nr, p, f.ns) ELSE OctetS(f.nr, p, k)
    <3>1. f.nr % 8 = f.nr /\ f.ns % 8 = f.ns /\ f.nr \in 0 .. 7 /\ f.ns \in 0 .. 7
      BY <1>1, <2>2, Fits
    <3>2. c = <<o>>  BY <2>2, <3>1 DEF controlField, p, OctetI, OctetS
    <3>3. f.type # "I" => f.type \in DOMAIN Supervisory /\ k \in 0 .. 3  BY <1>1, <1>5, <2>2
    <3> HIDE DEF k
    <3>4. o \in Nat  BY <1>2, <3>1, <3>3 DEF OctetI, OctetS
    <3>5. /\ f.type = "I" => o % 2 = 0 /\ (o \div 2) % 8 = f.ns
          /\ f.type # "I" => o % 2 = 1 /\ o % 4 = 1 /\ (o \div 4) % 4 = k
          /\ (o \div 16) % 2 = p /\ o \div 32 = f.nr
      <4>1. CASE f.type = "I"  BY <1>2, <3>1, <4>1, ReadBackI
      <4>2. CASE f.type # "I"  BY <1>2, <3>1, <3>3, <4>2, ReadBackS
      <4> QED  BY <4>1, <4>2
    <3> HIDE DEF c, o
    <3>6. <<o>> \in Seq(Nat) /\ Len(<<o>>) = 1 /\ <<o>>[1] = o  BY <3>4
    <3>7. /\ w.octets[1] = o
          /\ Len(w.octets) = 1 + (IF f.type = "I" THEN 1 ELSE 0)
      <4>1. 1 \in 1 .. Len(<<o>>) /\ ~two  BY <2>2, <3>6
      <4> QED  BY <1>7, <3>2, <3>6, <4>1
    <3>8. classify(w) = f.type /\ ~isUFrame(w)
      BY <3>3, <3>4, <3>5, <3>7, Classified DEF k
    <3>9. /\ pollFinal(w, FALSE) = f.pf /\ getNr(w, FALSE) = f.nr
          /\ f.type = "I" => getNs(w, FALSE) = f.ns
      BY <1>1, <1>2, <3>5, <3>7 DEF pollFinal, getNr, getNs
    <3> QED  BY <2>2, <3>7, <3>8, <3>9 DEF ReadsAs
  <2>3. CASE f.type \notin DOMAIN Unnumbered /\ extended
    <3> DEFINE k == Supervisory[f.type]
               o == IF f.type = "I" THEN 2 * f.ns ELSE 4 * k + 1
               e == 2 * f.nr + p
    <3>1. f.nr % 128 = f.nr /\ f.ns % 128 = f.ns /\ f.nr \in 0 .. 127 /\ f.ns \in 0 .. 127
      BY <1>1, <2>3, Fits
    <3>2. c = <<o, e>>  BY <2>3, <3>1 DEF controlField, extendedControl, p
    <3>3. f.type # "I" => f.type \in DOMAIN Supervisory /\ k \in 0 .. 3  BY <1>1, <1>5, <2>3
    <3> HIDE DEF k
    <3>4. o \in Nat /\ e \in Nat  BY <1>2, <3>1, <3>3
    <3>5. /\ f.type = "I" => o % 2 = 0 /\ (o \div 2) % 128 = f.ns
          /\ f.type # "I" => o % 2 = 1 /\ o % 4 = 1 /\ (o \div 4) % 4 = k
          /\ e % 2 = p /\ (e \div 2) % 128 = f.nr
      <4>1. e % 2 = p /\ (e \div 2) % 128 = f.nr  BY <1>2, <3>1, ReadBackTwo
      <4>2. CASE f.type = "I"
        <5>1. o = 2 * f.ns  BY <4>2
        <5>2. (2 * f.ns) % 2 = 0 /\ ((2 * f.ns) \div 2) % 128 = f.ns  BY <3>1, ReadBackTwo
        <5> HIDE DEF o, e
        <5> QED  BY <4>1, <4>2, <5>1, <5>2
      <4>3. CASE f.type # "I"
        <5>1. o = 4 * k + 1  BY <4>3
        <5>2. (4 * k + 1) % 2 = 1 /\ (4 * k + 1) % 4 = 1 /\ ((4 * k + 1) \div 4) % 4 = k
          BY <3>3, <4>3, ReadBackTwo
        <5> HIDE DEF o, e
        <5> QED  BY <4>1, <4>3, <5>1, <5>2
      <4> QED  BY <4>2, <4>3
    <3> HIDE DEF c, o, e
    <3>6. <<o, e>> \in Seq(Nat) /\ Len(<<o, e>>) = 2 /\ <<o, e>>[1] = o /\ <<o, e>>[2] = e
      BY <3>4
    <3>7. /\ w.octets[1] = o /\ w.octets[2] = e
          /\ Len(w.octets) = 2 + (IF f.type = "I" THEN 1 ELSE 0)
      <4>1. 1 \in 1 .. Len(<<o, e>>) /\ 2 \in 1 .. Len(<<o, e>>) /\ two  BY <2>3, <3>6
      <4> QED  BY <1>7, <3>2, <3>6, <4>1
    <3>8. classify(w) = f.type /\ ~isUFrame(w)
      BY <3>3, <3>4, <3>5, <3>7, Classified DEF k
    <3>9. /\ pollFinal(w, TRUE) = f.pf /\ getNr(w, TRUE) = f.nr
          /\ f.type = "I" => getNs(w, TRUE) = f.ns
      BY <1>1, <1>2, <3>5, <3>7 DEF pollFinal, getNr, getNs
    <3> QED  BY <2>3, <3>7, <3>8, <3>9 DEF ReadsAs
  <2> QED  BY <2>1, <2>2, <2>3
<1> HIDE DEF c
<1> QED  BY <1>6, <1>8, ReadingOf DEF w

\* What the reader gets of a frame that was sent on a v2.0 link.
LEMMA RoundTrip ==
    ASSUME NEW B \in Nat, NEW g \in Sendable(B)
    PROVE  LET f == decodeFrame(encodeFrame(g, FALSE), FALSE)
           IN  Readable(f, B) /\ f.type = g.type /\ f.cmd = g.cmd /\ f.pf = g.pf
<1> DEFINE f == decodeFrame(encodeFrame(g, FALSE), FALSE)
<1>1. /\ g.type \in {"I"} \cup SFrames \cup UFrames /\ g.cmd \in BOOLEAN /\ g.pf \in BOOLEAN
      /\ g.nr \in Ring /\ g.ns \in Ring /\ (g.type = "I" => g.info \in Infos(B))
  BY DEF Sendable
<1>2. UFrames \subseteq DOMAIN Unnumbered /\ SFrames = DOMAIN Supervisory
      /\ \A type \in {"I"} \cup SFrames : type \notin DOMAIN Unnumbered
  BY DEF Unnumbered, Supervisory, UFrames, SFrames
<1>3. g \in Writable(FALSE)
  <2>1. Ring \subseteq 0 .. 7  BY ContextAssumption DEF Ring
  <2>2. Infos(B) \subseteq [n : Nat, first : BOOLEAN, rem : Nat]  BY DEF Infos
  <2>3. {"I"} \cup SFrames \cup UFrames \subseteq {"I"} \cup DOMAIN Supervisory \cup DOMAIN Unnumbered
    BY <1>2
  <2> QED  BY <2>1, <2>2, <2>3, Zenon DEF Sendable, Writable
<1>4. /\ f.type = g.type /\ f.cmd = g.cmd /\ f.pf = g.pf /\ f.info = g.info
      /\ g.type \notin DOMAIN Unnumbered => f.nr = g.nr
      /\ g.type = "I" => f.ns = g.ns
  BY <1>3, FrameReadBack
<1> HIDE DEF f
<1>5. g.type \notin UFrames => f.nr = g.nr  BY <1>1, <1>2, <1>4
<1>6. Readable(f, B)  BY <1>1, <1>4, <1>5 DEF Readable
<1> QED  BY <1>4, <1>6 DEF f

-----------------------------------------------------------------------------
(* What the listener takes and the owner asks *)

\* A good session with no seizure asked for has settled.
LEMMA SettledNow ==
    ASSUME NEW b, NEW B, NEW t, Good(t, b, B), t.seize = FALSE PROVE Settled(t, b, B)
BY DEF Settled, Good

\* A session the listener makes or finds.
LEMMA CachedGood ==
    ASSUME NEW b, NEW B, NEW s, Good(s, b, B)
    PROVE  Good(Cached(s), b, B) /\ Cached(s).state = s.state
<1> DEFINE t == Cached(s)
<1>1. Shape(t)  BY DEF Good, Shape, Cached
<1>2. Flags(t)  BY DEF Good, Shape, Fields, Flags, Cached
<1>3. Plain(t)  BY DEF Good, Shape, Fields, Plain, Cached
<1>4. Numbers(t, b, B)  BY DEF Good, Shape, Fields, Numbers, Cached
<1>5. Stores(t, b, B)  BY DEF Good, Shape, Fields, Stores, Cached
<1>6. Windowed(t)
    BY DEF Good, Shape, Fields, Windowed, outstanding, effectiveWindow, isOutstanding,
           Ahead, modulus, Cached
<1>7. t.state = s.state  BY DEF Good, Shape, Fields, Cached
<1> QED  BY <1>1, <1>2, <1>3, <1>4, <1>5, <1>6, <1>7 DEF Good

\* A frame that arrives is classified, and dispatched.
LEMMA InboundGood ==
    ASSUME NEW b, NEW B, NEW s, Good(s, b, B), s.seize = FALSE, NEW g \in Sendable(B)
    PROVE  Settled(dispatchInbound(s, encodeFrame(g, FALSE)), b, B)
<1> DEFINE w == encodeFrame(g, FALSE)
           f == decodeFrame(w, FALSE)
           e == reclassifyForDisconnectedCatchAll(s, f)
           t == IF f.type \in {"SABM", "SABME"} THEN Cached(s) ELSE s
<1>1. Readable(f, B)  BY RoundTrip DEF Good
<1>2. reparseAtSessionModulo(s, w) = f  BY DEF reparseAtSessionModulo, Good, Plain
<1>3. f.type # "XID"  BY <1>1 DEF Readable, SFrames, UFrames
<1> HIDE DEF w, f
<1>4. PlainEvent(s, e, b, B)
  BY <1>1 DEF reclassifyForDisconnectedCatchAll, FrameEvent, Event, PlainEvent
<1>5. dispatchInbound(s, w) = IF e.name = "all_other_commands" /\ ~f.cmd THEN s
                              ELSE postEvent(t, e)
  BY <1>2, <1>3 DEF dispatchInbound
<1>6. Good(t, b, B) /\ t.state = s.state  BY CachedGood
<1> HIDE DEF t, e
<1>7. PlainEvent(t, e, b, B)
  <2>1. b \in Nat /\ b <= b  BY DEF Good
  <2> QED  BY <1>4, <1>6, <2>1, EventGrows
<1>8. Settled(postEvent(t, e), b, B)  BY <1>6, <1>7, PostGood
<1> QED  BY <1>5, <1>8, SettledNow DEF w

\* The owner dials.
LEMMA ConnectGood ==
    ASSUME NEW b, NEW B, NEW s, Good(s, b, B), NEW ext \in BOOLEAN, ~ext, NEW pre, ~pre
    PROVE  Settled(connect(s, ext, pre), b, B)
<1> DEFINE u == Cached(Notify(s))
           t == [u EXCEPT !.isExtended = ext]
<1>1. Good(u, b, B)  BY NotifyGood, CachedGood
<1>2. connect(s, ext, pre) = Dial(t)  BY DEF connect
<1> HIDE DEF u
<1>3. Good(t, b, B)  BY <1>1, VersionKept
<1> HIDE DEF t
<1>4. PlainEvent(t, Primitive("DL_CONNECT_request"), b, B)
  BY DEF PlainEvent, Primitive, Event, SFrames, UFrames
<1> QED  BY <1>2, <1>3, <1>4, PostGood DEF Dial

\* The owner holds the peer off, or lets it go on.
LEMMA PrimitiveGood ==
    ASSUME NEW b, NEW B, NEW s, Good(s, b, B),
           NEW name \in {"DL_DISCONNECT_request", "DL_FLOW_OFF_request", "DL_FLOW_ON_request"}
    PROVE  Settled(postEvent(s, Primitive(name)), b, B)
<1>1. PlainEvent(s, Primitive(name), b, B)
  BY DEF PlainEvent, Primitive, Event, SFrames, UFrames
<1> QED  BY <1>1, PostGood

\* The owner hangs up.
LEMMA DisconnectGood ==
    ASSUME NEW b, NEW B, NEW s, Good(s, b, B) PROVE Settled(disconnect(s), b, B)
BY NotifyGood, PrimitiveGood DEF disconnect

\* The payload, or the series of its segments, of the numbers up to c.
LEMMA RequestsGood ==
    ASSUME NEW b \in Nat, NEW segments \in Nat \ {0}
    PROVE  LET seq == buildSendRequests(b + 1, segments)
           IN  DOMAIN seq = 1 .. segments /\ \A i \in 1 .. segments : seq[i] \in Infos(b + segments)
<1>1. CASE segments = 1
  <2>1. b + 1 \in 0 .. b + segments  BY <1>1
  <2>2. 0 \in Nat /\ TRUE \in BOOLEAN  OBVIOUS
  <2>3. Whole(b + 1) \in Infos(b + segments)  BY <2>1, <2>2, Zenon DEF Whole, Infos
  <2> QED  BY <1>1, <2>3 DEF buildSendRequests
<1>2. CASE segments # 1
  <2> DEFINE seq == [i \in 1 .. segments |->
                       [n |-> (b + 1) + i - 1, first |-> i = 1, rem |-> segments - i]]
  <2>1. buildSendRequests(b + 1, segments) = seq  BY <1>2 DEF buildSendRequests
  <2>2. ASSUME NEW i \in 1 .. segments PROVE seq[i] \in Infos(b + segments)
    <3>1. (b + 1) + i - 1 \in 0 .. b + segments /\ segments - i \in Nat /\ (i = 1) \in BOOLEAN
      OBVIOUS
    <3>2. seq[i] = [n |-> (b + 1) + i - 1, first |-> i = 1, rem |-> segments - i]  OBVIOUS
    <3> QED  BY <3>1, <3>2, Zenon DEF Infos
  <2> QED  BY <2>1, <2>2
<1> QED  BY <1>1, <1>2

\* Settled in two steps.
LEMMA SettledTwice ==
    ASSUME NEW b \in Nat, NEW c \in Nat, NEW B, NEW t, Settled(t, c, B), b <= c
    PROVE  Settled(t, b, B)
BY DEF Settled

\* The owner sends a payload, cut or whole: a fold of requests.
LEMMA SendDataGood ==
    ASSUME NEW b, NEW B, NEW s, Good(s, b, B), s.seize = FALSE, NEW segments \in Nat \ {0}
    PROVE  Settled(sendData(s, segments), b, B)
<1> DEFINE base == [s EXCEPT !.sub = @ + segments]
           seq  == buildSendRequests(s.sub + 1, segments)
           Post(t, info) == postEvent(t, Event("DL_DATA_request", None, info))
           D     == 1 .. segments
           P(it) == it = [x \in SUBSET D |-> IF x = {} THEN base
                                             ELSE Post(it[x \ {Max(x)}], seq[Max(x)])]
           it    == CHOOSE it : P(it)
           low   == b + segments
           V     == {v \in UNION {Sessions(c, B) : c \in {n \in Nat : low <= n}} : v.seize = FALSE}
           W     == [i \in 0 .. segments |-> V]
           h     == [i \in D |-> [v \in V |-> Post(v, seq[i])]]
<1>0. b \in Nat /\ s.sub = b /\ low \in Nat /\ b <= low  BY DEF Good, Numbers
<1>a. DOMAIN seq = D /\ \A i \in D : seq[i] \in Infos(low)  BY <1>0, RequestsGood
<1>b. FoldLeft(Post, base, seq) = it[D]  BY <1>a DEF FoldLeft, MapThenFoldSet
<1>1. sendData(s, segments) = IF segments > 1 /\ ~s.segmenter THEN s ELSE it[D]
  BY <1>b DEF sendData
<1>2. \A v : v \in V <=> Settled(v, low, B)
  <2>1. ASSUME NEW v
        PROVE  v \in V <=> v.seize = FALSE /\ \E c \in {n \in Nat : low <= n} : v \in Sessions(c, B)
    OBVIOUS
  <2>2. ASSUME NEW v, NEW c PROVE v \in Sessions(c, B) <=> Good(v, c, B)  BY InSessions
  <2> HIDE DEF V
  <2> QED  BY <2>1, <2>2 DEF Settled
<1> HIDE DEF seq, V
<1>3. ASSUME NEW v \in V, NEW i \in D PROVE Post(v, seq[i]) \in V
  <2> DEFINE e == Event("DL_DATA_request", None, seq[i])
  <2>1. PICK c \in Nat : low <= c /\ Good(v, c, B)  BY <1>2 DEF Settled
  <2>2. seq[i] \in Infos(c)  BY <1>0, <1>a, <2>1, InfosGrow
  <2>3. PlainEvent(v, e, c, B)  BY <2>2 DEF PlainEvent, Event, SFrames, UFrames
  <2>4. Settled(postEvent(v, e), c, B)  BY <2>1, <2>3, PostGood
  <2>5. Settled(postEvent(v, e), low, B)  BY <1>0, <2>1, <2>4, SettledTwice
  <2> HIDE DEF e
  <2> QED  BY <1>2, <2>5 DEF e
<1>4. base \in V
  <2>1. base = [s EXCEPT !.sub = low]  BY <1>0
  <2>2. Good([s EXCEPT !.sub = low], low, B)  BY <1>0, OwnRaised
  <2>3. [s EXCEPT !.sub = low].seize = FALSE  BY DEF Good, Shape, Fields
  <2> HIDE DEF base, low
  <2> QED  BY <1>2, <2>1, <2>2, <2>3, SettledNow
<1> HIDE DEF Post, base
<1>5. Stepwise(W, base, segments, h)  BY <1>3, <1>4 DEF Stepwise
<1>6. PICK g \in [SUBSET D -> W[segments]] : Folds(g, base, segments, h) /\ Staged(g, W, segments)
  <2> HIDE DEF h, W
  <2> QED  BY <1>5, FoldExists
<1>7. P(g)
  <2>1. ASSUME NEW x \in SUBSET D
        PROVE  g[x] = IF x = {} THEN base ELSE Post(g[x \ {Max(x)}], seq[Max(x)])
    <3>1. CASE x = {}  BY <1>6, <3>1 DEF Folds
    <3>2. CASE x # {}
      <4>1. /\ Max(x) \in D /\ Max(x) - 1 \in 0 .. segments
            /\ x \ {Max(x)} \in SUBSET (1 .. Max(x) - 1)
        BY <3>2, BelowLargest
      <4>2. g[x \ {Max(x)}] \in V  BY <1>6, <4>1 DEF Staged
      <4> QED  BY <1>6, <3>2, <4>1, <4>2 DEF Folds
    <3> QED  BY <3>1, <3>2
  <2> QED  BY <1>6, <2>1
<1>8. P(it)  BY <1>7
<1>9. it[D] \in W[segments]
  <2> HIDE DEF it
  <2>1. it[{}] \in W[0]  BY <1>4, <1>8
  <2>2. ASSUME NEW m \in 1 .. segments, it[1 .. m - 1] \in W[m - 1]
        PROVE  it[1 .. m] \in W[m]
    <3>1. m - 1 \in Nat /\ (m - 1) + 1 = m  OBVIOUS
    <3>2. Max(1 .. m) = m /\ (1 .. m) \ {m} = 1 .. m - 1  BY <3>1, LargestOfAll
    <3>3. 1 .. m \in SUBSET D /\ 1 .. m # {}  OBVIOUS
    <3>4. it[1 .. m] = Post(it[1 .. m - 1], seq[m])  BY <1>8, <3>2, <3>3
    <3> QED  BY <1>3, <2>2, <3>4
  <2> HIDE DEF W
  <2> QED  BY <2>1, <2>2, FoldRange
<1>10. it[D] \in V  BY <1>9
<1>11. Settled(it[D], b, B)
  <2> HIDE DEF it, low
  <2> QED  BY <1>0, <1>2, <1>10, SettledTwice
<1> HIDE DEF it
<1> QED  BY <1>1, <1>11, SettledNow

-----------------------------------------------------------------------------
(* The two stations *)

\* Of two stations, each is the peer of the other.
LEMMA PeerFacts ==
    ASSUME NEW x \in Stations
    PROVE  /\ Peer(x) \in Stations /\ Peer(x) # x /\ Peer(Peer(x)) = x
           /\ \A y \in Stations : y = x \/ y = Peer(x)
<1>1. IsFiniteSet(Stations \ {x}) /\ Cardinality(Stations \ {x}) = 1
  BY DataLinkAssumption, FS_RemoveElement
<1>2. PICK y : Stations \ {x} = {y}  BY <1>1, FS_Singleton
<1>3. y \in Stations /\ y # x /\ \A z \in Stations : z # x => z = y  BY <1>2
<1>4. Peer(x) = y  BY <1>3 DEF Peer
<1>5. Peer(y) = x
  <2>1. \A z \in Stations : z # y <=> z = x  BY <1>3
  <2> QED  BY <2>1 DEF Peer
<1> QED  BY <1>3, <1>4, <1>5

\* The frames on a path, of payloads up to b.
Frames(b) == {encodeFrame(f, FALSE) : f \in Sendable(b)}

\* The owners dial v2.0 links and do not ask for XID, with one retry at least:
\* N2 = 0 is never met by a count that starts at 1, and the retries never end.
PlainModes ==
    \A mode \in Modes :
        ~mode.extended /\ ~mode.xid /\ \A x \in Stations : mode.n2[x] # 0

\* What the owners may still do, on a v2.0 link.
PlainLeft == left \in ModeType /\ ~left.extended /\ ~left.xid

\* A station between two handlers, and the frames on their way to it.
Sound(x) ==
    /\ Good(st[x], st[x].sub, st[Peer(x)].sub)
    /\ st[x].out = <<>> /\ st[x].seize = FALSE
    /\ ch[x] \in Seq(Frames(st[Peer(x)].sub))

\* The inductive invariant.
LinkInv ==
    /\ PlainLeft
    /\ st = [x \in Stations |-> st[x]] /\ ch = [x \in Stations |-> ch[x]]
    /\ \A x \in Stations : Sound(x)

\* With more payloads submitted there are more frames that may be under way.
LEMMA FramesGrow ==
    ASSUME NEW b \in Nat, NEW c \in Nat, b <= c PROVE Seq(Frames(b)) \subseteq Seq(Frames(c))
<1>1. Frames(b) \subseteq Frames(c)  BY InfosGrow DEF Frames
<1> QED  BY <1>1, SeqGrows

\* What was handed down has left.
LEMMA ClearOut ==
    ASSUME NEW b, NEW B, NEW s, Good(s, b, B)
    PROVE  LET t == [s EXCEPT !.out = <<>>]
           IN  Good(t, b, B) /\ t.out = <<>> /\ t.seize = s.seize
<1> DEFINE t == [s EXCEPT !.out = <<>>]
<1>1. Shape(t)  BY DEF Good, Shape
<1>2. Flags(t)  BY DEF Good, Shape, Fields, Flags
<1>3. Plain(t)  BY DEF Good, Shape, Fields, Plain
<1>4. Numbers(t, b, B)  BY DEF Good, Shape, Fields, Numbers
<1>5. Stores(t, b, B)  BY DEF Good, Shape, Fields, Stores
<1>6. Windowed(t)
    BY DEF Good, Shape, Fields, Windowed, outstanding, effectiveWindow, isOutstanding,
           Ahead, modulus
<1>7. t.out = <<>> /\ t.seize = s.seize  BY DEF Good, Shape, Fields
<1> QED  BY <1>1, <1>2, <1>3, <1>4, <1>5, <1>6, <1>7 DEF Good

\* What a settled session sends, on its way.
LEMMA OnTheAir ==
    ASSUME NEW c, NEW B, NEW s, Good(s, c, B)
    PROVE  [i \in DOMAIN s.out |-> encodeFrame(s.out[i].frame, s.out[i].extended)]
               \in Seq(Frames(c))
<1>1. s.out \in Seq(Outs(c))  BY DEF Good, Stores
<1>2. Len(s.out) \in Nat /\ DOMAIN s.out = 1 .. Len(s.out)  BY <1>1
<1>3. ASSUME NEW i \in 1 .. Len(s.out)
      PROVE  encodeFrame(s.out[i].frame, s.out[i].extended) \in Frames(c)
  <2>1. s.out[i] \in Outs(c)  BY <1>1
  <2>2. s.out[i].frame \in Sendable(c) /\ s.out[i].extended = FALSE  BY <2>1 DEF Outs
  <2> QED  BY <2>2 DEF Frames
<1> QED  BY <1>2, <1>3

\* A station becomes what a handler of its settles at.
LEMMA BecomesSound ==
    ASSUME LinkInv, NEW x \in Stations, NEW s, Settled(s, st[x].sub, st[Peer(x)].sub),
           NEW mine \in Seq(Frames(st[Peer(x)].sub)), Becomes(x, s, mine), PlainLeft'
    PROVE  LinkInv'
<1> DEFINE y == Peer(x)
           B == st[y].sub
           t == [s EXCEPT !.out = <<>>]
           air == [i \in DOMAIN s.out |-> encodeFrame(s.out[i].frame, s.out[i].extended)]
<1>1. y \in Stations /\ y # x /\ Peer(y) = x /\ \A z \in Stations : z = x \/ z = y
  BY PeerFacts
<1>2. PICK c \in Nat : st[x].sub <= c /\ Good(s, c, B) /\ s.seize = FALSE  BY DEF Settled
<1>3. Good(t, c, B) /\ t.out = <<>> /\ t.seize = FALSE  BY <1>2, ClearOut
<1>4. t.sub = c  BY <1>3 DEF Good, Numbers
<1>5. air \in Seq(Frames(c))  BY <1>2, OnTheAir
<1> HIDE DEF y, t, air
<1>6. /\ st' = [st EXCEPT ![x] = t]
      /\ ch' = [ch EXCEPT ![x] = mine, ![y] = @ \o air]
  BY DEF Becomes, y, t, air
<1>7. /\ st'[x] = t /\ st'[y] = st[y] /\ ch'[x] = mine /\ ch'[y] = ch[y] \o air
      /\ st' = [z \in Stations |-> st'[z]] /\ ch' = [z \in Stations |-> ch'[z]]
  BY <1>1, <1>6 DEF LinkInv
<1>8. Sound(x)'
  BY <1>1, <1>3, <1>4, <1>7 DEF Sound, y
<1>9. Sound(y)'
  <2>1. Good(st[y], B, st[x].sub) /\ st[y].out = <<>> /\ st[y].seize = FALSE
        /\ ch[y] \in Seq(Frames(st[x].sub))
    BY <1>1 DEF LinkInv, Sound
  <2>2. Good(st[y], B, c)  BY <1>2, <2>1, PeerRaised
  <2>3. ch[y] \in Seq(Frames(c))
    <3>1. st[x].sub \in Nat  BY <2>1 DEF Good
    <3> QED  BY <1>2, <2>1, <3>1, FramesGrow
  <2>4. ch[y] \o air \in Seq(Frames(c))  BY <1>5, <2>3
  <2> QED  BY <1>1, <1>4, <1>7, <2>1, <2>2, <2>4 DEF Sound
<1>10. \A z \in Stations : Sound(z)'  BY <1>1, <1>8, <1>9
<1> QED  BY <1>7, <1>10 DEF LinkInv

\* A new session is good.
LEMMA InitialGood ==
    ASSUME NEW mode \in ModeType, NEW x \in Stations, mode.n2[x] # 0
    PROVE  LET s == NewSession(mode, x)
           IN  Good(s, 0, 0) /\ s.out = <<>> /\ s.seize = FALSE /\ s.sub = 0
<1> DEFINE s == NewSession(mode, x)
<1>0. /\ mode.srej \in BOOLEAN /\ mode.segmenter \in BOOLEAN /\ mode.k[x] \in Nat
      /\ mode.n2[x] \in Nat \ {0} /\ mode.answers[x] \in Nat
  BY DEF ModeType
<1>1. Shape(s)  BY Zenon DEF Shape, NewSession, Fields
<1>2. Flags(s)  BY <1>0 DEF Flags, NewSession
<1>3. Plain(s)  BY <1>0 DEF Plain, NewSession
<1>4. Numbers(s, 0, 0)  BY <1>0, RingFacts DEF Numbers, NewSession, PlainStates
<1>5. Stores(s, 0, 0)  BY DEF Stores, NewSession
<1>6. Windowed(s)
  <2>1. s.vs = 0 /\ s.va = 0  BY DEF NewSession
  <2> HIDE DEF s
  <2>2. modulus(s) = Mod8 /\ effectiveWindow(s) \in Nat  BY <1>3, <1>4, WindowBounds DEF Numbers
  <2>3. outstanding(s) = 0
    BY <2>1, <2>2, RingFacts, RingDistance DEF outstanding, Ahead
  <2>4. \A n \in Ring : ~isOutstanding(s, n)
    BY <2>1, <2>2, <2>3, RingFacts, RingDistance DEF isOutstanding, Ahead, Ring
  <2> QED  BY <2>2, <2>3, <2>4 DEF Windowed
<1>7. s.out = <<>> /\ s.seize = FALSE /\ s.sub = 0  BY DEF NewSession
<1> QED  BY <1>1, <1>2, <1>3, <1>4, <1>5, <1>6, <1>7 DEF Good

\* LinkInv holds at the start, in a plain mode.
LEMMA InitSound == ASSUME PlainModes, Init PROVE LinkInv
<1>1. PICK mode \in Modes :
        /\ left = mode /\ st = [x \in Stations |-> NewSession(mode, x)]
        /\ ch = [x \in Stations |-> <<>>]
  BY DEF Init
<1>2. mode \in ModeType /\ ~mode.extended /\ ~mode.xid /\ \A x \in Stations : mode.n2[x] # 0
  BY ModesAssumption DEF PlainModes
<1>3. \A x \in Stations : st[x] = NewSession(mode, x) /\ ch[x] = <<>>  BY <1>1
<1>4. \A x \in Stations :
        Good(st[x], 0, 0) /\ st[x].out = <<>> /\ st[x].seize = FALSE /\ st[x].sub = 0
  BY <1>2, <1>3, InitialGood
<1>5. ASSUME NEW x \in Stations PROVE Sound(x)
  <2>1. Peer(x) \in Stations  BY PeerFacts
  <2>2. st[x].sub = 0 /\ st[Peer(x)].sub = 0  BY <1>4, <2>1
  <2>3. ch[x] \in Seq(Frames(0))
    <3>1. \A S : <<>> \in Seq(S)  OBVIOUS
    <3>2. ch[x] = <<>>  BY <1>3
    <3> QED  BY <3>1, <3>2
  <2> QED  BY <1>4, <2>2, <2>3 DEF Sound
<1> QED  BY <1>1, <1>2, <1>5 DEF LinkInv, PlainLeft

\* What the owners may still do only ever gets less.
LEMMA LeftKept ==
    ASSUME PlainLeft
    PROVE  /\ left.calls > 0 /\ left' = [left EXCEPT !.calls = @ - 1] => PlainLeft'
           /\ left.hangups > 0 /\ left' = [left EXCEPT !.hangups = @ - 1] => PlainLeft'
           /\ left.flows > 0 /\ left' = [left EXCEPT !.flows = @ - 1] => PlainLeft'
           /\ left.idles > 0 /\ left' = [left EXCEPT !.idles = @ - 1] => PlainLeft'
           /\ left.copies > 0 /\ left' = [left EXCEPT !.copies = @ - 1] => PlainLeft'
           /\ left.defers > 0 /\ left' = [left EXCEPT !.defers = @ - 1] => PlainLeft'
           /\ \A n \in left.segments :
                left.payloads >= n /\ left' = [left EXCEPT !.payloads = @ - n] => PlainLeft'
           /\ left' = left => PlainLeft'
<1>1. left \in ModeType /\ ~left.extended /\ ~left.xid  BY DEF PlainLeft
<1>2. /\ left.calls > 0 => left.calls - 1 \in Nat
      /\ left.hangups > 0 => left.hangups - 1 \in Nat
      /\ left.flows > 0 => left.flows - 1 \in Nat
      /\ left.idles > 0 => left.idles - 1 \in Nat
      /\ left.copies > 0 => left.copies - 1 \in Nat
      /\ left.defers > 0 => left.defers - 1 \in Nat
      /\ \A n \in left.segments : left.payloads >= n => left.payloads - n \in Nat
  BY <1>1 DEF ModeType
<1>3. ASSUME left.calls > 0, left' = [left EXCEPT !.calls = @ - 1] PROVE PlainLeft'
  BY <1>1, <1>2, <1>3 DEF PlainLeft, ModeType
<1>4. ASSUME left.hangups > 0, left' = [left EXCEPT !.hangups = @ - 1] PROVE PlainLeft'
  BY <1>1, <1>2, <1>4 DEF PlainLeft, ModeType
<1>5. ASSUME left.flows > 0, left' = [left EXCEPT !.flows = @ - 1] PROVE PlainLeft'
  BY <1>1, <1>2, <1>5 DEF PlainLeft, ModeType
<1>6. ASSUME left.idles > 0, left' = [left EXCEPT !.idles = @ - 1] PROVE PlainLeft'
  BY <1>1, <1>2, <1>6 DEF PlainLeft, ModeType
<1>7. ASSUME left.copies > 0, left' = [left EXCEPT !.copies = @ - 1] PROVE PlainLeft'
  BY <1>1, <1>2, <1>7 DEF PlainLeft, ModeType
<1>8. ASSUME left.defers > 0, left' = [left EXCEPT !.defers = @ - 1] PROVE PlainLeft'
  BY <1>1, <1>2, <1>8 DEF PlainLeft, ModeType
<1>9. ASSUME NEW n \in left.segments, left.payloads >= n,
             left' = [left EXCEPT !.payloads = @ - n] PROVE PlainLeft'
  <2>1. left.payloads - n \in Nat  BY <1>2, <1>9
  <2> QED  BY <1>1, <1>9, <2>1 DEF PlainLeft, ModeType
<1>10. ASSUME left' = left PROVE PlainLeft'  BY <1>1, <1>10 DEF PlainLeft
<1> QED  BY <1>3, <1>4, <1>5, <1>6, <1>7, <1>8, <1>9, <1>10

\* A path that loses, repeats or swaps frames carries the frames it carried.
LEMMA PathSound ==
    ASSUME LinkInv, NEW x \in Stations, NEW mine \in Seq(Frames(st[Peer(x)].sub)),
           ch' = [ch EXCEPT ![x] = mine], st' = st, PlainLeft'
    PROVE  LinkInv'
<1>1. \A z \in Stations : ch'[z] = IF z = x THEN mine ELSE ch[z]  BY DEF LinkInv
<1>2. ch' = [z \in Stations |-> ch'[z]] /\ st' = [z \in Stations |-> st'[z]]  BY DEF LinkInv
<1>3. ASSUME NEW z \in Stations PROVE Sound(z)'
  BY <1>1 DEF LinkInv, Sound
<1> QED  BY <1>2, <1>3 DEF LinkInv

\* LinkInv is kept, one case an action.
LEMMA NextSound == ASSUME LinkInv, [Next]_vars PROVE LinkInv'
<1>0. CASE UNCHANGED vars
  <2>1. st' = st /\ ch' = ch /\ left' = left  BY <1>0 DEF vars
  <2> QED  BY <2>1 DEF LinkInv, Sound, PlainLeft
<1> SUFFICES ASSUME NEW x \in Stations,
                    \/ Connect(x) \/ Disconnect(x) \/ Send(x) \/ FlowOff(x) \/ FlowOn(x)
                    \/ T1Expiry(x) \/ T3Expiry(x) \/ ProbeOver(x) \/ Tm201Expiry(x)
                    \/ Deliver(x) \/ Lose(x) \/ Duplicate(x) \/ Overtaken(x)
             PROVE  LinkInv'
  BY <1>0 DEF Next
<1> DEFINE b == st[x].sub
           B == st[Peer(x)].sub
<1>1. Good(st[x], b, B) /\ st[x].seize = FALSE /\ ch[x] \in Seq(Frames(B)) /\ PlainLeft
  BY DEF LinkInv, Sound
<1>2. st[x].tm201 = FALSE /\ st[x].probing = FALSE  BY <1>1 DEF Good, Plain
<1> HIDE DEF b, B
<1>3. CASE Connect(x)
  <2>1. left.extended \in BOOLEAN /\ ~left.extended /\ ~left.xid
    BY <1>1 DEF PlainLeft, ModeType
  <2>2. Settled(connect(st[x], left.extended, left.xid), b, B)  BY <1>1, <2>1, ConnectGood
  <2>3. PlainLeft'  BY <1>1, <1>3, LeftKept DEF Connect
  <2> QED  BY <1>1, <1>3, <2>2, <2>3, BecomesSound DEF Connect, b, B
<1>4. CASE Disconnect(x)
  <2>1. Settled(disconnect(st[x]), b, B)  BY <1>1, DisconnectGood
  <2>2. PlainLeft'  BY <1>1, <1>4, LeftKept DEF Disconnect
  <2> QED  BY <1>1, <1>4, <2>1, <2>2, BecomesSound DEF Disconnect, b, B
<1>5. CASE Send(x)
  <2>1. PICK segments \in left.segments :
          /\ left.payloads >= segments /\ Becomes(x, sendData(st[x], segments), ch[x])
          /\ left' = [left EXCEPT !.payloads = @ - segments]
    BY <1>5 DEF Send
  <2>2. segments \in Nat \ {0}  BY <1>1 DEF PlainLeft, ModeType
  <2>3. Settled(sendData(st[x], segments), b, B)  BY <1>1, <2>2, SendDataGood
  <2>4. PlainLeft'  BY <1>1, <2>1, LeftKept
  <2> QED  BY <1>1, <2>1, <2>3, <2>4, BecomesSound DEF b, B
<1>6. CASE FlowOff(x)
  <2>1. Settled(postEvent(st[x], Primitive("DL_FLOW_OFF_request")), b, B)
    BY <1>1, PrimitiveGood
  <2>2. PlainLeft'  BY <1>1, <1>6, LeftKept DEF FlowOff
  <2> QED  BY <1>1, <1>6, <2>1, <2>2, BecomesSound DEF FlowOff, b, B
<1>7. CASE FlowOn(x)
  <2>1. Settled(postEvent(st[x], Primitive("DL_FLOW_ON_request")), b, B)
    BY <1>1, PrimitiveGood
  <2>2. PlainLeft'  BY <1>1, <1>7, LeftKept DEF FlowOn
  <2> QED  BY <1>1, <1>7, <2>1, <2>2, BecomesSound DEF FlowOn, b, B
<1>8. CASE T1Expiry(x)
  <2>1. Settled(onTimerExpiry(st[x], "T1"), b, B)  BY <1>1, TimerGood
  <2>2. PlainLeft'  BY <1>1, <1>8, LeftKept DEF T1Expiry
  <2> QED  BY <1>1, <1>8, <2>1, <2>2, BecomesSound DEF T1Expiry, b, B
<1>9. CASE T3Expiry(x)
  <2>1. Settled(onTimerExpiry(st[x], "T3"), b, B)  BY <1>1, TimerGood
  <2>2. PlainLeft'  BY <1>1, <1>9, LeftKept DEF T3Expiry
  <2> QED  BY <1>1, <1>9, <2>1, <2>2, BecomesSound DEF T3Expiry, b, B
<1>10. CASE ProbeOver(x)  BY <1>2, <1>10 DEF ProbeOver
<1>11. CASE Tm201Expiry(x)  BY <1>2, <1>11 DEF Tm201Expiry
<1>12. CASE Deliver(x)
  <2>1. Head(ch[x]) \in Frames(B) /\ Tail(ch[x]) \in Seq(Frames(B))
    BY <1>1, <1>12 DEF Deliver
  <2>2. PICK g \in Sendable(B) : Head(ch[x]) = encodeFrame(g, FALSE)  BY <2>1 DEF Frames
  <2>3. Settled(dispatchInbound(st[x], Head(ch[x])), b, B)  BY <1>1, <2>2, InboundGood
  <2>4. PlainLeft'  BY <1>1, <1>12, LeftKept DEF Deliver
  <2> QED  BY <1>12, <2>1, <2>3, <2>4, BecomesSound DEF Deliver, b, B
<1>13. CASE Lose(x)
  <2>1. Tail(ch[x]) \in Seq(Frames(B))  BY <1>1, <1>13 DEF Lose
  <2>2. PlainLeft'  BY <1>1, <1>13, LeftKept DEF Lose
  <2> QED  BY <1>13, <2>1, <2>2, PathSound DEF Lose, B
<1>14. CASE Duplicate(x)
  <2>1. <<Head(ch[x])>> \o ch[x] \in Seq(Frames(B))
    <3>1. Head(ch[x]) \in Frames(B)  BY <1>1, <1>14 DEF Duplicate
    <3>2. <<Head(ch[x])>> \in Seq(Frames(B))  BY <3>1
    <3> QED  BY <1>1, <3>2
  <2>2. PlainLeft'  BY <1>1, <1>14, LeftKept DEF Duplicate
  <2> QED  BY <1>14, <2>1, <2>2, PathSound DEF Duplicate, B
<1>15. CASE Overtaken(x)
  <2>1. PICK i \in 1 .. Len(ch[x]) - 1 :
          /\ left.defers > 0
          /\ ch' = [ch EXCEPT ![x] = [@ EXCEPT ![i] = ch[x][i + 1], ![i + 1] = ch[x][i]]]
          /\ left' = [left EXCEPT !.defers = @ - 1] /\ st' = st
    BY <1>15 DEF Overtaken
  <2> DEFINE mine == [ch[x] EXCEPT ![i] = ch[x][i + 1], ![i + 1] = ch[x][i]]
  <2>2. mine \in Seq(Frames(B))
    <3>1. Len(ch[x]) \in Nat /\ i \in 1 .. Len(ch[x]) /\ i + 1 \in 1 .. Len(ch[x])
      BY <1>1
    <3>2. ch[x][i] \in Frames(B) /\ ch[x][i + 1] \in Frames(B)  BY <1>1, <3>1
    <3> QED  BY <1>1, <3>1, <3>2
  <2>3. ch' = [ch EXCEPT ![x] = mine]  BY <2>1
  <2>4. PlainLeft'  BY <1>1, <2>1, LeftKept
  <2> HIDE DEF mine
  <2> QED  BY <2>1, <2>2, <2>3, <2>4, PathSound DEF B
<1> QED  BY <1>3, <1>4, <1>5, <1>6, <1>7, <1>8, <1>9, <1>10, <1>11, <1>12, <1>13, <1>14, <1>15

\* LinkInv is an invariant.
LEMMA Invariance == PlainModes /\ Spec => []LinkInv
<1>1. PlainModes /\ Init => LinkInv  BY InitSound
<1>2. LinkInv /\ [Next]_vars => LinkInv'  BY NextSound
<1> QED  BY <1>1, <1>2, PTL DEF Spec

\* The session of either station keeps its types: V(S), V(A) and V(R) on the
\* ring, the retry count within N2 (the timers give up at N2 and not past it),
\* and a handler leaves no frame and no seizure behind.
THEOREM DataLinkTypes == PlainModes /\ Spec => []TypeOK
<1>1. LinkInv => TypeOK
  <2> SUFFICES ASSUME LinkInv, NEW x \in Stations
               PROVE  /\ st[x].state \in States /\ st[x].owner \in {"up", "down"}
                      /\ {st[x].vs, st[x].va, st[x].vr} \subseteq 0 .. modulus(st[x]) - 1
                      /\ st[x].rc \in 0 .. st[x].n2
                      /\ st[x].told \in 0 .. st[x].sub /\ st[x].last \in 0 .. st[Peer(x)].sub
                      /\ st[x].out = <<>> /\ ~st[x].seize
    BY DEF TypeOK
  <2>1. Good(st[x], st[x].sub, st[Peer(x)].sub) /\ st[x].out = <<>> /\ st[x].seize = FALSE
    BY DEF LinkInv, Sound
  <2>2. modulus(st[x]) = Mod8  BY <2>1 DEF Good, Plain, modulus
  <2> QED  BY <2>1, <2>2 DEF Good, Numbers, Ring, PlainStates, States
<1> QED  BY <1>1, Invariance, PTL

\* No interleaving of frames, timers and owners, and no frame lost, delivered
\* twice or overtaken, has more frames outstanding than the window in force
\* (effectiveWindow caps k below the ring): N(R) would be ambiguous.
THEOREM WindowIsKept == PlainModes /\ Spec => []WindowKept
<1>1. LinkInv => WindowKept  BY DEF LinkInv, Sound, Good, Windowed, WindowKept
<1> QED  BY <1>1, Invariance, PTL

\* Every number outstanding has its frame stored, ready to be sent again.
OutstandingStored ==
    \A x \in Stations : \A n \in 0 .. modulus(st[x]) - 1 :
        isOutstanding(st[x], n) => st[x].sentIFrames[n] # None

\* REJ, SREJ and timer recovery find the frame they are to send again: what is
\* outstanding has its place in sentIFrames until it is acknowledged.
THEOREM RetransmissionPossible == PlainModes /\ Spec => []OutstandingStored
<1>1. LinkInv => OutstandingStored
  <2> SUFFICES ASSUME LinkInv, NEW x \in Stations, NEW n \in 0 .. modulus(st[x]) - 1,
                      isOutstanding(st[x], n)
               PROVE  st[x].sentIFrames[n] # None
    BY DEF OutstandingStored
  <2>1. Windowed(st[x]) /\ Plain(st[x])  BY DEF LinkInv, Sound, Good
  <2>2. n \in Ring  BY <2>1 DEF Plain, modulus, Ring
  <2> QED  BY <2>1, <2>2 DEF Windowed
<1> QED  BY <1>1, Invariance, PTL

=============================================================================
