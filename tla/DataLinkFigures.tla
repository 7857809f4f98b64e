-------------------------- MODULE DataLinkFigures --------------------------
(***************************************************************************)
(* The state pages of the data link (figures C4.1 to C4.7 of AX.25 v2.2)   *)
(* that sdl/session-driver.ts walks.  The pages come from the ax25sdl      *)
(* package, outside this repository; they are written down here from the   *)
(* verbs and guards the source binds, the defects sdl/session-quirks.ts    *)
(* describes, and the transitions the tests of tests/conformance drive.    *)
(*                                                                         *)
(* An event is [name, frame, info]: a frame type, a DL primitive, a timer, *)
(* a pop of the I queue or the LM-SEIZE confirm.  Left out: UI, TEST and   *)
(* FRMR, malformed frames (no station of this code sends them), and the F  *)
(* bit of an I frame (this code sends P = 0 only).                         *)
(***************************************************************************)
EXTENDS ManagementDataLink

Event(name, frame, info) == [name |-> name, frame |-> frame, info |-> info]

FrameEvent(f) == Event(f.type, f, None)
Primitive(name) == Event(name, None, None)

Goto(s, state) == [s EXCEPT !.state = state]

\* Where a (re-)establishment waits for its UA.
Awaiting(s) == Goto(s, IF s.isExtended THEN "AwaitingV22Connection" ELSE "AwaitingConnection")

Reply(s, type, f) == SendFrame(s, UFrame(type, FALSE, f.pf))

SetVersion(s, e) == [s EXCEPT !.isExtended = (e.name = "SABME")]

-----------------------------------------------------------------------------
(* Figure C4.7: the subroutines                                            *)

\* Answer a poll (F = 1), or acknowledge what came in (F = 0).
Enquiry_Response(s, F) ==
    LET type == IF s.ownReceiverBusy THEN "RNR"
                ELSE IF F /\ s.srejEnabled /\ \E n \in Seqs : s.storedReceivedIFrames[n] # None
                     THEN "SREJ" ELSE "RR"
    IN  ClearAcknowledgePending(SendSFrame(s, type, FALSE, F))

Transmit_Enquiry(s) ==
    StartT1(ClearAcknowledgePending(
        SendSFrame(s, IF s.ownReceiverBusy THEN "RNR" ELSE "RR", TRUE, TRUE)))

\* An unsolicited F = 1 is DL-ERROR (A).
Check_Need_for_Response(s, f) ==
    IF commandWithPoll(f) THEN Enquiry_Response(s, TRUE)
    ELSE IF responseWithFinal(f) THEN Notify(s)
    ELSE s

\* DL-ERROR (J): the peer acknowledges what was never sent.
N_r_Error_Recovery(s) ==
    Awaiting([EstablishDataLink(Notify(s)) EXCEPT !.layer3Initiated = FALSE])

\* Every frame from N(r) to V(s) - 1 goes out again, with T1 running.
Invoke_Retransmission(s, nr) ==
    LET Again(t, i) == EmitOldIFrame(t, (nr + i) % modulus(t))
        count       == Ahead(s, nr, s.vs)
    IN  ClearAcknowledgePending(StartT1(StopT3(
            FoldLeft(Again, s, [i \in 1 .. count |-> i - 1]))))

-----------------------------------------------------------------------------
(* Data for the owner                                                      *)

\* Mutant: a first segment does not start over.
PushOnto(series, info) ==
    IF series # <<>> THEN Append(series, info)
    ELSE IF info.first THEN <<info>> ELSE <<>>

\* Reassembler.push on the segment `info': a first segment starts over, one
\* that does not follow the last is an error and empties the reassembler.
Push(series, info) ==
    IF info.first THEN <<info>>
    ELSE IF series # <<>> /\ info.rem = Last(series).rem - 1 THEN Append(series, info)
    ELSE <<>>

\* The I queue goes out while the window and the peer allow it.
PopIFrame(s, info) ==
    LET t == ClearAcknowledgePending(EmitIFrame(s, info))
    IN  IF t.t1 THEN t ELSE StartT1(StopT3(t))

\* Mutant: the payload is taken off the queue before the window is looked at.
DrainDroppingBlocked(s) ==
    LET Pop(t, i) == LET u == [t EXCEPT !.iFrameQueue = Tail(@)]
                     IN  IF canTransmitIFrame(u) THEN PopIFrame(u, Head(t.iFrameQueue)) ELSE u
    IN  FoldLeft(Pop, s, s.iFrameQueue)

DrainIFrameQueue(s) ==
    LET Pop(t, i) == IF ~canTransmitIFrame(t) THEN t
                     ELSE PopIFrame([t EXCEPT !.iFrameQueue = Tail(@)], Head(t.iFrameQueue))
    IN  FoldLeft(Pop, s, s.iFrameQueue)

PushOnIFrameQueue(s, info) == [s EXCEPT !.iFrameQueue = Append(@, info)]

\* The owner answers a payload from inside its data callback: the request is
\* queued, and the queue drained, in the middle of the transition.
Answer(s) ==
    IF s.replies = 0 THEN s
    ELSE DrainIFrameQueue(PushOnIFrameQueue(
            [s EXCEPT !.replies = @ - 1, !.sub = @ + 1], Whole(s.sub + 1)))

\* DL-DATA indication through SegmentationLayer.onDataIndication.
DataIndication(s, info) ==
    LET t      == [s EXCEPT !.got = @ \cup {info.n}, !.last = info.n]
        series == IF info = Whole(info.n) THEN <<info>> ELSE Push(t.reassembly, info)
        sdu    == [i \in DOMAIN series |-> series[i].n]
        kept   == IF info = Whole(info.n) THEN t.reassembly ELSE series
    IN  IF series = <<>> THEN [t EXCEPT !.reassembly = <<>>]
        ELSE IF info.rem # 0 THEN [t EXCEPT !.reassembly = kept]
        ELSE Answer([t EXCEPT !.sdus = @ \cup {sdu},
                              !.reassembly = IF info = Whole(info.n) THEN kept ELSE <<>>])

-----------------------------------------------------------------------------
(* An I frame on an up link (figures C4.4 and C4.5)                        *)

AdvanceVr(s) == [s EXCEPT !.vr = incrementSeq(s, s.vr)]

\* Frames kept out of sequence follow as soon as V(r) reaches them.
DrainStored(s) ==
    LET Next1(t, i) ==
            LET info == t.storedReceivedIFrames[t.vr]
            IN  IF info = None THEN t
                ELSE AdvanceVr(DataIndication(RetrieveStored(t), info))
    IN  FoldLeft(Next1, s, [i \in 1 .. Mod128 |-> i])

Acknowledge(s) ==
    IF s.acknowledgePending THEN s
    ELSE [s EXCEPT !.seize = TRUE, !.acknowledgePending = TRUE]

InSequence(s, f) ==
    LET t == [DecrementSrejException(AdvanceVr(s)) EXCEPT !.rejectException = FALSE]
    IN  Acknowledge(DrainStored(DataIndication(t, f.info)))

Reject(s) ==
    ClearAcknowledgePending(SendSFrame([s EXCEPT !.rejectException = TRUE], "REJ", FALSE, FALSE))

\* SREJ names V(r), the first frame missing; only the first of a gap has F = 1.
SelectiveReject(s, F) ==
    ClearAcknowledgePending(SendSFrame(IncrementSrejException(s), "SREJ", FALSE, F))

OutOfSequence(s, f) ==
    IF s.rejectException \/ ~vrLtNsLtVrPlusK(s, f) THEN s
    ELSE IF ~s.srejEnabled THEN Reject(s)
    ELSE LET t == SaveContents(s, f)
         IN  IF t.srejExceptionCount > 0 THEN SelectiveReject(t, FALSE)
             ELSE IF nsGtVrPlus1(t, f) THEN Reject(t)
             ELSE SelectiveReject(t, TRUE)

IFrame(s, f) ==
    IF ~vaLeNrLeVs(s, f) THEN N_r_Error_Recovery(s)
    ELSE LET t == IF s.state = "Connected" THEN CheckIFrameAcknowledged(s, f.nr)
                                           ELSE AdvanceVa(s, f.nr)
         IN  IF t.ownReceiverBusy THEN t
             ELSE IF f.ns = t.vr THEN InSequence(t, f)
             ELSE OutOfSequence(t, f)

-----------------------------------------------------------------------------
(* Supervisory frames on an up link                                        *)

\* Timer Recovery ends when the answer to the poll acknowledges everything.
Recovered(s) == Goto([StartT3(s) EXCEPT !.rc = 0], "Connected")

ReadyFrame(s, f) ==
    LET c == [s EXCEPT !.peerReceiverBusy = (f.type = "RNR")]
    IN  IF s.state = "Connected" THEN
            LET t == Check_Need_for_Response(c, f)
            IN  IF vaLeNrLeVs(t, f) THEN CheckIFrameAcknowledged(t, f.nr)
                ELSE N_r_Error_Recovery(t)
        ELSE LET t == IF responseWithFinal(f) THEN StopT1(c)
                      ELSE IF commandWithPoll(f) THEN Enquiry_Response(c, TRUE) ELSE c
                 u == AdvanceVa(t, f.nr)
             IN  IF ~vaLeNrLeVs(t, f) THEN N_r_Error_Recovery(t)
                 ELSE IF ~responseWithFinal(f) THEN u
                 ELSE IF u.vs = u.va THEN Recovered(u)
                 ELSE Invoke_Retransmission(u, f.nr)

RejectFrame(s, f) ==
    LET t == [s EXCEPT !.peerReceiverBusy = FALSE]
        u == AdvanceVa(t, f.nr)
    IN  IF ~vaLeNrLeVs(t, f) THEN N_r_Error_Recovery(t)
        ELSE IF s.state = "TimerRecovery" /\ u.vs = u.va THEN u
        ELSE Invoke_Retransmission(StopT1(u), f.nr)

SelectiveRejectFrame(s, f) ==
    LET c == [s EXCEPT !.peerReceiverBusy = FALSE]
        t == IF s.state = "Connected" THEN Check_Need_for_Response(c, f)
             ELSE IF f.pf THEN StopT1(c) ELSE c
        u == IF f.pf THEN AdvanceVa(t, f.nr) ELSE t
    IN  IF ~vaLeNrLeVs(t, f) THEN N_r_Error_Recovery(t)
        ELSE IF s.state = "TimerRecovery" /\ u.vs = u.va THEN Recovered(u)
        ELSE StartT1(StopT3(ReplaySelectively(u, f.nr)))

-----------------------------------------------------------------------------
(* The pages                                                               *)

Down(s) == Goto(SignalDown(DiscardQueue(StopT1(StopT3(s)))), "Disconnected")

Disconnected(s, e) ==
    CASE e.name = "DL_CONNECT_request" ->
            Goto([EstablishDataLink(s) EXCEPT !.layer3Initiated = TRUE], "AwaitingConnection")
      [] e.name \in {"SABM", "SABME"} ->
            LET t == Reply(SetVersion(s, e), "UA", e.frame)
            IN  Goto([StartT3(SignalUp(ZeroSequenceVariables(
                        ClearExceptionConditions(t)))) EXCEPT !.rc = 0], "Connected")
      [] e.name \in {"DISC", "all_other_commands"} -> Reply(s, "DM", e.frame)
      [] e.name = "UA" -> Notify(s)
      [] OTHER -> s

\* The UA that completes a connection: DL-CONNECT confirm for a dial of the
\* owner's, an indication for a reset of our own that threw frames away.  A
\* v2.2 connection has its parameters negotiated next.
Complete(s) ==
    LET t == IF s.layer3Initiated THEN SignalUp(s)
             ELSE IF s.vs # s.va THEN SignalUp(DiscardQueue(s)) ELSE s
        u == IF s.state = "AwaitingV22Connection" THEN negotiate(t) ELSE t
    IN  Goto([ZeroSequenceVariables(StartT3(StopT1(u))) EXCEPT !.rc = 0], "Connected")

AwaitingConnection(s, e) ==
    LET v22 == s.state = "AwaitingV22Connection"
    IN  CASE e.name = "DL_CONNECT_request" ->
                [DiscardQueue(s) EXCEPT !.layer3Initiated = TRUE]
          [] e.name = "SABM" ->
                Goto([Reply(s, "UA", e.frame) EXCEPT
                        !.isExtended = @ /\ ~v22], "AwaitingConnection")
          [] e.name = "SABME" /\ v22  -> Reply(s, "UA", e.frame)
          [] e.name = "SABME" /\ ~v22 ->
                Goto(Reply(s, "DM", e.frame), "AwaitingV22Connection")
          [] e.name = "DISC" -> Reply(s, "DM", e.frame)
          [] e.name = "UA" -> IF e.frame.pf THEN Complete(s) ELSE Notify(s)
          [] e.name = "FRMR" ->
                Goto([EstablishDataLink([s EXCEPT !.isExtended = FALSE]) EXCEPT
                        !.layer3Initiated = TRUE], "AwaitingConnection")
          [] e.name = "DM" /\ e.frame.pf -> Down(s)
          [] e.name = "T1_expiry" ->
                IF s.rc = s.n2 THEN Down(s)
                ELSE StartT1(SendFrame([s EXCEPT !.rc = @ + 1],
                        UFrame(IF v22 THEN "SABME" ELSE "SABM", TRUE, TRUE)))
          [] OTHER -> s

AwaitingRelease(s, e) ==
    CASE e.name \in {"UA", "DM"} /\ e.frame.pf -> Down(s)
      [] e.name = "UA" /\ ~e.frame.pf -> Notify(s)
      [] e.name \in {"SABM", "SABME"} -> Reply(s, "DM", e.frame)
      [] e.name = "DISC" -> Reply(s, "UA", e.frame)
      [] e.name = "T1_expiry" ->
            IF s.rc = s.n2 THEN Down(s)
            ELSE StartT1(SendFrame([s EXCEPT !.rc = @ + 1], UFrame("DISC", TRUE, TRUE)))
      [] OTHER -> s

\* The reset a SABM(E) asks for on an up link: DL-ERROR (F), and a DL-CONNECT
\* indication if frames were outstanding.  Timer Recovery with none outstanding
\* keeps its sequence variables.
Reset(s, e) ==
    LET t == Notify(ClearExceptionConditions(Reply(SetVersion(s, e), "UA", e.frame)))
        u == IF s.vs # s.va THEN SignalUp(t) ELSE t
        v == IF s.state = "TimerRecovery" /\ s.vs = s.va THEN u ELSE ZeroSequenceVariables(u)
    IN  Goto(StartT3(StopT1(v)), "Connected")

\* The owner's primitives and the timers on an up link.
UpPrimitive(s, e) ==
    CASE e.name = "DL_CONNECT_request" ->
            Awaiting([EstablishDataLink(DiscardQueue(s)) EXCEPT !.layer3Initiated = TRUE])
      [] e.name = "DL_DISCONNECT_request" ->
            Goto(StartT1(StopT3(SendFrame([DiscardQueue(s) EXCEPT !.rc = 0],
                    UFrame("DISC", TRUE, TRUE)))), "AwaitingRelease")
      [] e.name = "DL_DATA_request" -> PushOnIFrameQueue(s, e.info)
      [] e.name = "DL_FLOW_OFF_request" /\ ~s.ownReceiverBusy ->
            ClearAcknowledgePending(SendSFrame([s EXCEPT !.ownReceiverBusy = TRUE],
                "RNR", FALSE, FALSE))
      [] e.name = "DL_FLOW_ON_request" /\ s.ownReceiverBusy ->
            LET t == ClearAcknowledgePending(SendSFrame([s EXCEPT !.ownReceiverBusy = FALSE],
                        "RR", TRUE, TRUE))
            IN  IF t.t1 THEN t ELSE StartT1(StopT3(t))
      [] e.name = "LM_SEIZE_confirm" /\ s.acknowledgePending -> Enquiry_Response(s, FALSE)
      [] e.name = "T1_expiry" /\ s.state = "Connected" ->
            Goto(Transmit_Enquiry([s EXCEPT !.rc = 1]), "TimerRecovery")
      [] e.name = "T1_expiry" /\ s.state = "TimerRecovery" /\ s.rc # s.n2 ->
            Transmit_Enquiry([s EXCEPT !.rc = @ + 1])
      [] e.name = "T1_expiry" /\ s.state = "TimerRecovery" /\ s.rc = s.n2 ->
            Down(SendFrame(s, UFrame("DM", FALSE, FALSE)))
      [] e.name = "T3_expiry" /\ s.state = "Connected" ->
            Goto(Transmit_Enquiry([s EXCEPT !.rc = 0]), "TimerRecovery")
      [] OTHER -> s

UpFrame(s, e) ==
    CASE e.name = "I" -> IFrame(s, e.frame)
      [] e.name \in {"RR", "RNR"} -> ReadyFrame(s, e.frame)
      [] e.name = "REJ"  -> RejectFrame(s, e.frame)
      [] e.name = "SREJ" -> SelectiveRejectFrame(s, e.frame)
      [] e.name \in {"SABM", "SABME"} -> Reset(s, e)
      [] e.name = "DISC" -> Down(Reply(s, "UA", e.frame))
      [] e.name = "UA" -> Awaiting([EstablishDataLink(Notify(s)) EXCEPT !.layer3Initiated = FALSE])
      [] e.name = "DM" -> Down(s)

\* The transition of the current page for the event, none for an event the
\* page does not have.
Page(s, e) ==
    CASE s.state = "Disconnected" -> Disconnected(s, e)
      [] s.state \in {"AwaitingConnection", "AwaitingV22Connection"} -> AwaitingConnection(s, e)
      [] s.state = "AwaitingRelease" -> AwaitingRelease(s, e)
      [] s.state \in {"Connected", "TimerRecovery"} ->
            IF e.frame = None THEN UpPrimitive(s, e) ELSE UpFrame(s, e)

=============================================================================
