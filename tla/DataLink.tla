------------------------------ MODULE DataLink ------------------------------
(***************************************************************************)
(* Two stations and the radio path between them.  A frame may be lost, or  *)
(* delivered twice (a UDP path does both); a path keeps the order but for  *)
(* the frames its carrier-sense gate defers.  T1 and T3 may expire         *)
(* whenever they are armed, the answer still under way or not.  The owners *)
(* dial, hang up, send and hold the peer off as far as the mode of the     *)
(* behaviour allows.                                                       *)
(***************************************************************************)
EXTENDS LinkListener

CONSTANTS
    Stations,
    Modes,      \* what a behaviour may do, one of them chosen at the start
    ChannelCap  \* bound: an owner or a timer acts only below it

ASSUME DataLinkAssumption ==
    /\ IsFiniteSet(Stations) /\ Cardinality(Stations) = 2 /\ None \notin Stations
    /\ ChannelCap \in Nat \ {0}

\* A mode: SREJ configured at both ends or not, the version a dial asks for and
\* whether an XID exchange comes before it, who dials (redial:
\* also while an end still takes the link for up), who sends (patient: once the
\* XID exchange is over), how many payloads
\* each owner answers, into how many segments a payload is cut, and the bounds
\* on calls, hang-ups, payloads, holds, idle polls, duplicates and frames
\* deferred.
ModeType ==
    [name : STRING, srej : BOOLEAN, segmenter : BOOLEAN,
     k : [Stations -> Nat], n2 : [Stations -> Nat],
     extended : BOOLEAN, xid : BOOLEAN, redial : BOOLEAN, patient : BOOLEAN,
     dialers : SUBSET Stations, senders : SUBSET Stations, answers : [Stations -> Nat],
     segments : SUBSET (Nat \ {0}), calls : Nat, hangups : Nat, payloads : Nat,
     flows : Nat, idles : Nat, copies : Nat, defers : Nat]

ASSUME ModesAssumption == \A mode \in Modes : mode \in ModeType

VARIABLES
    st,     \* the session of each station
    ch,     \* the frames on their way to each station
    left    \* what the owners may still do (bounds), and the mode's version

vars == <<st, ch, left>>

Peer(x) == CHOOSE y \in Stations : y # x

Init ==
    \E mode \in Modes :
        /\ left = mode
        /\ st = [x \in Stations |-> NewSession(mode, x)]
        /\ ch = [x \in Stations |-> <<>>]

Room(x) == Len(ch[Peer(x)]) < ChannelCap

\* Station x becomes s, what it sends is on its way to the peer.
Becomes(x, s, mine) ==
    /\ st' = [st EXCEPT ![x] = [s EXCEPT !.out = <<>>]]
    /\ ch' = [ch EXCEPT ![x] = mine, ![Peer(x)] = @ \o
                [i \in DOMAIN s.out |-> encodeFrame(s.out[i].frame, s.out[i].extended)]]

-----------------------------------------------------------------------------
Connect(x) ==
    /\ x \in left.dialers /\ left.calls > 0 /\ Room(x)
    /\ st[x].state \in {"Disconnected", "Connected", "TimerRecovery"} /\ ~st[x].probing
    /\ left.redial \/ \A y \in Stations : ~Up(st[y])
    /\ Becomes(x, connect(st[x], left.extended, left.xid), ch[x])
    /\ left' = [left EXCEPT !.calls = @ - 1]

\* connect stops waiting for the XID exchange, over or not, and dials.
ProbeOver(x) ==
    /\ st[x].probing /\ Room(x)
    /\ Becomes(x, negotiateSrejBeforeConnect(st[x]), ch[x])
    /\ UNCHANGED left

Disconnect(x) ==
    /\ Room(x) /\ left.hangups > 0 /\ Up(st[x])
    /\ Becomes(x, disconnect(st[x]), ch[x])
    /\ left' = [left EXCEPT !.hangups = @ - 1]

Send(x) ==
    \E segments \in left.segments :
        /\ x \in left.senders /\ left.payloads >= segments /\ Room(x) /\ Up(st[x])
        /\ left.patient => ~isNegotiating(st[x])
        /\ Becomes(x, sendData(st[x], segments), ch[x])
        /\ left' = [left EXCEPT !.payloads = @ - segments]

FlowOff(x) ==
    /\ left.flows > 0 /\ Room(x) /\ Up(st[x])
    /\ Becomes(x, postEvent(st[x], Primitive("DL_FLOW_OFF_request")), ch[x])
    /\ left' = [left EXCEPT !.flows = @ - 1]

FlowOn(x) ==
    /\ Room(x) /\ Up(st[x]) /\ st[x].ownReceiverBusy
    /\ Becomes(x, postEvent(st[x], Primitive("DL_FLOW_ON_request")), ch[x])
    /\ UNCHANGED left

\* The last retry is given up only once its frames have left the path: the
\* retries together last longer than a frame is under way.
T1Expiry(x) ==
    /\ st[x].t1 /\ Room(x)
    /\ st[x].rc = st[x].n2 => \A z \in Stations : ch[z] = <<>>
    /\ Becomes(x, onTimerExpiry(st[x], "T1"), ch[x])
    /\ UNCHANGED left

Tm201Expiry(x) ==
    /\ st[x].tm201 /\ Room(x)
    /\ Becomes(x, onTm201Expiry(st[x]), ch[x])
    /\ UNCHANGED left

T3Expiry(x) ==
    /\ st[x].t3 /\ Room(x) /\ left.idles > 0
    /\ Becomes(x, onTimerExpiry(st[x], "T3"), ch[x])
    /\ left' = [left EXCEPT !.idles = @ - 1]

Deliver(x) ==
    /\ ch[x] # <<>>
    /\ Becomes(x, dispatchInbound(st[x], Head(ch[x])), Tail(ch[x]))
    /\ UNCHANGED left

Lose(x) ==
    /\ ch[x] # <<>>
    /\ ch' = [ch EXCEPT ![x] = Tail(@)]
    /\ UNCHANGED <<st, left>>

Duplicate(x) ==
    /\ ch[x] # <<>> /\ left.copies > 0
    /\ ch' = [ch EXCEPT ![x] = <<Head(@)>> \o @]
    /\ left' = [left EXCEPT !.copies = @ - 1]
    /\ UNCHANGED st

\* A frame that met a busy channel waits a slot, and the next, which found it
\* clear, leaves before it (gatedSend).
Overtaken(x) ==
    \E i \in 1 .. Len(ch[x]) - 1 :
        /\ left.defers > 0
        /\ ch' = [ch EXCEPT ![x] = [@ EXCEPT ![i] = ch[x][i + 1], ![i + 1] = ch[x][i]]]
        /\ left' = [left EXCEPT !.defers = @ - 1]
        /\ UNCHANGED st

Next ==
    \E x \in Stations :
        \/ Connect(x) \/ Disconnect(x) \/ Send(x) \/ FlowOff(x) \/ FlowOn(x)
        \/ T1Expiry(x) \/ T3Expiry(x) \/ ProbeOver(x) \/ Tm201Expiry(x)
        \/ Deliver(x) \/ Lose(x) \/ Duplicate(x) \/ Overtaken(x)

Spec == Init /\ [][Next]_vars

\* T1 runs on the system clock: armed for good it expires again and again, no
\* matter the bounds in its guard.  A frame under way arrives or is lost, and a
\* path that carries frames for ever delivers some (weak fairness of the four
\* actions, their enabling conditions written out).
Fairness ==
    \A x \in Stations :
        /\ []<>(~st[x].t1)      \/ []<><<T1Expiry(x)>>_vars
        /\ []<>(~st[x].tm201)   \/ []<><<Tm201Expiry(x)>>_vars
        /\ []<>(~st[x].probing) \/ []<><<ProbeOver(x)>>_vars
        /\ []<>(ch[x] = <<>>)   \/ []<><<Deliver(x)>>_vars

FairSpec == Spec /\ Fairness

-----------------------------------------------------------------------------
(* Properties                                                              *)

States == {"Disconnected", "AwaitingConnection", "AwaitingV22Connection",
           "AwaitingRelease", "Connected", "TimerRecovery"}

\* Type invariant: sequence variables stay on the ring of the version, the
\* retry count in its limit, and a handler leaves nothing half done.
TypeOK ==
    \A x \in Stations :
        LET s == st[x]
        IN  /\ s.state \in States /\ s.owner \in {"up", "down"}
            /\ {s.vs, s.va, s.vr} \subseteq 0 .. modulus(s) - 1
            /\ s.rc \in 0 .. s.n2
            /\ s.told \in 0 .. s.sub /\ s.last \in 0 .. st[Peer(x)].sub
            /\ s.out = <<>> /\ ~s.seize

\* The payloads of x the data link still has: queued, or sent and not
\* acknowledged.
Held(x) ==
    {st[x].iFrameQueue[i].n : i \in DOMAIN st[x].iFrameQueue}
        \cup (IF Up(st[x])
              THEN {st[x].sentIFrames[n].n : n \in {m \in 0 .. modulus(st[x]) - 1 : isOutstanding(st[x], m)}}
              ELSE {})

\* A payload that is neither delivered nor still held was announced as lost:
\* whatever is acknowledged was handed over, and whatever a reset throws away
\* is signalled (DL-ERROR, DL-CONNECT, DL-DISCONNECT).
NoSilentLoss ==
    \A x \in Stations :
        (1 .. st[x].sub) \subseteq Held(x) \cup st[Peer(x)].got \cup (1 .. st[x].told)

\* Every payload the receiver puts together from segments is one the sender
\* cut: no series mixes the segments of two payloads.
SduIntact ==
    \A x \in Stations : \A sdu \in st[x].sdus :
        \A i \in DOMAIN sdu : sdu[i] = sdu[1] + i - 1

\* A numbered frame that reaches an end that is up has the control field that
\* end reads: both number on the same ring, and nothing in the frame says which
\* (one octet on a v2.0 link, two on a v2.2 one; then an I frame has its PID).
ReadAsSent ==
    \A x \in Stations :
        (Up(st[x]) /\ ch[x] # <<>> /\ ~isUFrame(Head(ch[x])))
        => Len(Head(ch[x]).octets) = (IF st[x].isExtended THEN 2 ELSE 1)
                                     + (IF classify(Head(ch[x])) = "I" THEN 1 ELSE 0)

\* A station that dialled rejects selectively only where its peer does: SREJ is
\* used on the strength of an answer, never of the offer alone.
SrejAgreed ==
    \A x \in Stations :
        Up(st[x]) /\ st[x].layer3Initiated /\ st[x].srejEnabled => st[Peer(x)].srejEnabled

\* The number of frames outstanding never exceeds the window in force.
WindowKept == \A x \in Stations : outstanding(st[x]) <= effectiveWindow(st[x])

\* The link delivers as LinkService promises, in each direction.
Service ==
    INSTANCE LinkService WITH
        Directions <- Stations,
        sub  <- [x \in Stations |-> st[x].sub],
        told <- [x \in Stations |-> st[x].told],
        got  <- [x \in Stations |-> st[Peer(x)].got],
        last <- [x \in Stations |-> st[Peer(x)].last]

ImplementsService == Service!Spec

\* A dial, a release, a recovery and an XID exchange come to an end: no station
\* waits for ever.
Waiting(s) ==
    \/ s.state \notin {"Connected", "Disconnected"}
    \/ isNegotiating(s) \/ s.probing

WaitingEnds == \A x \in Stations : []<>~Waiting(st[x])

\* What is sent is acknowledged in the end, or given up with the link, unless
\* the peer said it was busy (T3, bounded here, asks it again).
DataSettles == \A x \in Stations : []<>(Held(x) = {} \/ st[x].peerReceiverBusy)

=============================================================================
