--------------------------- MODULE SessionContext ---------------------------
(***************************************************************************)
(* One AX.25 data-link session: the variables of sdl/session-context.ts,   *)
(* the guards of sdl/session-bindings.ts and the action verbs of           *)
(* sdl/action-dispatcher.ts, each as an operator on a record `s'.          *)
(*                                                                         *)
(* The info of an I frame is a record [n, first, rem]: n numbers the I     *)
(* frames the peer's owner has submitted, first and rem are the segment    *)
(* header (rem = 0 and first for a whole payload).                         *)
(* A timer is a Boolean: armed or not.  The out field collects the frames  *)
(* the running handler sends, each with the version it is written in, and  *)
(* seize is the LM-SEIZE confirm it posts.                                 *)
(* T1V, SRT, N1, the T2 value and half/full duplex are left out: no guard  *)
(* of the model reads them (a timer may expire whenever it is armed).      *)
(***************************************************************************)
EXTENDS Integers, Sequences, FiniteSets, SequencesExt, FrameCodec

CONSTANTS
    Mod8, Mod128,   \* the sequence modulus of a v2.0 and of a v2.2 link (8, 128)
    SrejCap         \* bound: srejExceptionCount saturates here (only > 0 is read)

ASSUME ContextAssumption ==
    /\ Mod8 \in 2 .. 8 /\ Mod128 \in Mod8 .. 128
    /\ SrejCap \in Nat \ {0}

Seqs == 0 .. Mod128 - 1

-----------------------------------------------------------------------------
(* Sequence arithmetic                                                     *)

modulus(s) == IF s.isExtended THEN Mod128 ELSE Mod8

\* Mutant: the number is not reduced.
incrementSeqUnmasked(s, v) == v + 1

incrementSeq(s, v) == (v + 1) % modulus(s)

\* How far b is ahead of a on the ring.
Ahead(s, a, b) == (b - a) % modulus(s)

\* The window really used: half the modulus at most under selective reject,
\* and never the whole ring.
effectiveWindow(s) ==
    LET m    == modulus(s)
        half == m \div 2
        w    == IF s.srejEnabled /\ half < s.k THEN half ELSE s.k
    IN  IF w < m - 1 THEN w ELSE m - 1

outstanding(s) == Ahead(s, s.va, s.vs)

isOutstanding(s, ns) == Ahead(s, s.va, ns) < outstanding(s)

-----------------------------------------------------------------------------
(* The guards that read the received frame f                               *)

vaLeNrLeVs(s, f) == Ahead(s, s.va, f.nr) <= outstanding(s)

nsGtVrPlus1(s, f) == Ahead(s, s.vr, f.ns) > 1

vrLtNsLtVrPlusK(s, f) == Ahead(s, s.vr, f.ns) \in 1 .. effectiveWindow(s) - 1

commandWithPoll(f) == f.cmd /\ f.pf

responseWithFinal(f) == ~f.cmd /\ f.pf

\* Mutant: one frame past the window.
canTransmitOneMore(s) ==
    /\ s.state \in {"Connected", "TimerRecovery"}
    /\ ~s.peerReceiverBusy
    /\ outstanding(s) <= effectiveWindow(s)

canTransmitIFrame(s) ==
    /\ s.state \in {"Connected", "TimerRecovery"}
    /\ ~s.peerReceiverBusy
    /\ outstanding(s) < effectiveWindow(s)

-----------------------------------------------------------------------------
(* Frames and timers                                                       *)

SendFrame(s, f) == [s EXCEPT !.out = Append(@, [frame |-> f, extended |-> s.isExtended])]

SendSFrame(s, type, cmd, pf) == SendFrame(s, Frame(type, cmd, pf, s.vr, 0, None))

StartT1(s) == [s EXCEPT !.t1 = TRUE]
StopT1(s)  == [s EXCEPT !.t1 = FALSE]
StartT3(s) == [s EXCEPT !.t3 = TRUE]
StopT3(s)  == [s EXCEPT !.t3 = FALSE]

-----------------------------------------------------------------------------
(* Signals to the owner                                                    *)

\* DL-ERROR, DL-CONNECT and DL-DISCONNECT signals tell the owner that what it
\* had submitted so far may not have got through.
Notify(s) == [s EXCEPT !.told = s.sub]

\* A DL-CONNECT signal starts a link: its deliveries are counted afresh.
SignalUp(s)   == [Notify(s) EXCEPT !.owner = "up", !.last = 0]
SignalDown(s) == [Notify(s) EXCEPT !.owner = "down"]

-----------------------------------------------------------------------------
(* Verbs                                                                   *)

ClearAcknowledgePending(s) == [s EXCEPT !.acknowledgePending = FALSE]

DiscardQueue(s) == [s EXCEPT !.iFrameQueue = <<>>]

ClearExceptionConditions(s) ==
    [s EXCEPT !.peerReceiverBusy = FALSE, !.ownReceiverBusy = FALSE,
              !.rejectException = FALSE, !.srejExceptionCount = 0,
              !.acknowledgePending = FALSE, !.iFrameQueue = <<>>]

ZeroSequenceVariables(s) == [s EXCEPT !.vs = 0, !.va = 0, !.vr = 0]

IncrementSrejException(s) ==
    [s EXCEPT !.srejExceptionCount = IF @ < SrejCap THEN @ + 1 ELSE @]

DecrementSrejException(s) ==
    [s EXCEPT !.srejExceptionCount = IF @ > 0 THEN @ - 1 ELSE 0]

\* V(a) := N(r).  When it moves, the acknowledged frames are pruned from the
\* retransmit store and a new recovery cycle begins.
AdvanceVa(s, nr) ==
    IF nr = s.va THEN s
    ELSE LET t == [s EXCEPT !.va = nr, !.selectivelyRetransmittedSinceAck = {}]
         IN  [t EXCEPT !.sentIFrames =
                [n \in Seqs |-> IF isOutstanding(t, n) THEN t.sentIFrames[n] ELSE None]]

EstablishDataLink(s) ==
    LET t == [ClearExceptionConditions(s) EXCEPT !.rc = 1]
    IN  StartT1(StopT3(SendFrame(t,
            UFrame(IF t.isExtended THEN "SABME" ELSE "SABM", TRUE, TRUE))))

CheckIFrameAcknowledged(s, nr) ==
    IF s.peerReceiverBusy THEN StartT1(StopT3(AdvanceVa(s, nr)))
    ELSE IF nr = s.vs THEN StartT3(StopT1(AdvanceVa(s, nr)))
    ELSE IF nr = s.va THEN s
    ELSE StartT1(AdvanceVa(s, nr))

\* I Command, with N(s) := V(s), N(r) := V(r) and P := 0 before it: the frame
\* is kept for retransmission and its number is new data again.
EmitIFrame(s, info) ==
    [SendFrame(s, Frame("I", TRUE, FALSE, s.vr, s.vs, info)) EXCEPT
        !.sentIFrames[s.vs] = info,
        !.selectivelyRetransmittedSinceAck = @ \ {s.vs},
        !.vs = incrementSeq(s, s.vs)]

\* An old I frame goes out again under its original N(s).
EmitOldIFrame(s, ns) ==
    IF s.sentIFrames[ns] = None THEN s
    ELSE SendFrame(s, Frame("I", TRUE, FALSE, s.vr, ns, s.sentIFrames[ns]))

\* Push Old I Frame N(r) on Queue: only a frame that is still outstanding, and
\* once per recovery cycle.
ReplaySelectively(s, ns) ==
    IF ~isOutstanding(s, ns) \/ ns \in s.selectivelyRetransmittedSinceAck THEN s
    ELSE EmitOldIFrame([s EXCEPT !.selectivelyRetransmittedSinceAck = @ \cup {ns}], ns)

\* The info field of an out-of-sequence frame is kept under its N(s) ...
SaveContents(s, f) == [s EXCEPT !.storedReceivedIFrames[f.ns] = f.info]

\* ... and taken out again when V(r) reaches it.
RetrieveStored(s) == [s EXCEPT !.storedReceivedIFrames[s.vr] = None]

\* Fields of a session as createSessionContext and the driver's constructor
\* leave it, with srejEnabled, the segmenter, the window k and the retry limit n2
\* as the owner of station x configures them; then those of the
\* management data link and of the listener (known: the peer has a session in
\* the cache, probing: connect waits for the XID exchange); then the owner's:
\* sub payloads submitted, those up to told announced as possibly lost, got the
\* numbers received, last the latest of them on this link, sdus the payloads
\* put together, answers how many of them the owner answers at once.
NewSession(config, x) ==
    [state |-> "Disconnected", isExtended |-> FALSE, srejEnabled |-> config.srej,
     segmenter |-> config.segmenter, k |-> config.k[x], n2 |-> config.n2[x],
     vs |-> 0, va |-> 0, vr |-> 0, rc |-> 0, t1 |-> FALSE, t3 |-> FALSE,
     ownReceiverBusy |-> FALSE, peerReceiverBusy |-> FALSE,
     acknowledgePending |-> FALSE, rejectException |-> FALSE,
     srejExceptionCount |-> 0, layer3Initiated |-> FALSE,
     iFrameQueue |-> <<>>, sentIFrames |-> [n \in Seqs |-> None],
     storedReceivedIFrames |-> [n \in Seqs |-> None],
     selectivelyRetransmittedSinceAck |-> {},
     vaAdvancedSinceT1Expiry |-> FALSE, droppedUa |-> FALSE,
     lastFrameZero |-> None, peerCallAnswered |-> FALSE,
     mdl |-> "Ready", mdlRc |-> 0, nm201 |-> config.n2[x], tm201 |-> FALSE, confirmed |-> FALSE,
     known |-> FALSE, probing |-> FALSE, out |-> <<>>, seize |-> FALSE,
     reassembly |-> <<>>, replies |-> config.answers[x],
     sub |-> 0, told |-> 0, owner |-> "down", last |-> 0, got |-> {}, sdus |-> {}]

=============================================================================
