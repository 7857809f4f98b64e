--------------------------- MODULE SessionDriver ---------------------------
(***************************************************************************)
(* sdl/session-driver.ts: how one session takes an event.  postEvent       *)
(* dispatches the event, then whatever the transition posted, then drains  *)
(* the I queue.  Around the page of the figure the driver repairs what the *)
(* figure gets wrong (the defaults of sdl/session-quirks.ts): a UA on a    *)
(* link that is up is kept until the peer shows it restarted, a repeat of  *)
(* the SABM that connected the link is only answered again, progress of    *)
(* V(a) gives Timer Recovery its retries back, and a v2.2 dial refused     *)
(* with DM falls back to v2.0.                                             *)
(*                                                                         *)
(* isRepeatedConnectUa is left out: with the defaults every UA it would    *)
(* drop is dropped by isUaOnUpLink before it is asked.                     *)
(***************************************************************************)
EXTENDS DataLinkFigures

Up(s) == s.state \in {"Connected", "TimerRecovery"}

Connecting(s) == s.state \in {"AwaitingConnection", "AwaitingV22Connection"}

SequenceEvents == {"I", "RR", "RNR", "REJ", "SREJ"}

FrameNames == SequenceEvents \cup {"SABM", "SABME", "DISC", "UA", "DM"}

-----------------------------------------------------------------------------
(* What is decided before a page is asked                                  *)

isUaOnUpLink(s, e) == e.name = "UA" /\ Up(s)

\* Mutant: the repeat is a reset like any other.
noRepeatedConnectSabm(s, e) == FALSE

isRepeatedConnectSabm(s, e) ==
    /\ s.peerCallAnswered /\ Up(s)
    /\ e.name = (IF s.isExtended THEN "SABME" ELSE "SABM")

\* An I frame numbered 0 with new bytes where V(r) is not 0.
peerSequenceRestarted(s, e) ==
    /\ e.name = "I" /\ Up(s)
    /\ e.frame.ns = 0 /\ s.vr # 0
    /\ s.lastFrameZero # e.frame.info

isInSequenceIFrame(s, e) == e.name = "I" /\ e.frame.ns # 0 /\ e.frame.ns = s.vr

\* A DM that refuses a v2.2 dial takes the FRMR transition of its page.
resolveDmDegradeMatch(s, e) ==
    IF s.isExtended /\ e.name = "DM" /\ s.state = "AwaitingV22Connection"
    THEN [e EXCEPT !.name = "FRMR"] ELSE e

\* Mutant: it waits where the figure says, in C4.2.
resolveNextStateAsDrawn(before, e, s) == s

\* A v2.2 dial waits in figure C4.6, where its retries stay SABME.
resolveNextState(before, e, s) ==
    IF e.name = "DL_CONNECT_request" /\ before.state = "Disconnected" /\ s.isExtended
    THEN Goto(s, "AwaitingV22Connection") ELSE s

-----------------------------------------------------------------------------
(* What is noted after it                                                  *)

noteConnectingUa(s) == IF Up(s) THEN s ELSE [s EXCEPT !.droppedUa = FALSE]

\* We answered the SABM(E) of a peer, and both ends are at zero since.
notePeerCall(s, e) ==
    LET answered == \/ e.name = "SABM" /\ (Up(s) \/ s.state = "AwaitingConnection")
                    \/ e.name = "SABME" /\ (Up(s) \/ s.state = "AwaitingV22Connection")
    IN  [s EXCEPT !.peerCallAnswered =
            IF ~Up(s) /\ ~Connecting(s) THEN FALSE
            ELSE IF answered THEN s.vs = 0 /\ s.va = 0 /\ s.vr = 0
            ELSE @ /\ e.name \notin SequenceEvents]

noteFrameZero(before, e, s) ==
    IF ~Up(s) THEN [s EXCEPT !.lastFrameZero = None]
    ELSE IF e.name = "I" /\ e.frame.ns = 0 /\ Up(before)
         THEN [s EXCEPT !.lastFrameZero = e.frame.info]
    ELSE s

noteProgress(before, s) ==
    IF s.va = before.va THEN s ELSE [s EXCEPT !.vaAdvancedSinceT1Expiry = TRUE]

-----------------------------------------------------------------------------
(* Dispatch                                                                *)

dispatchFigure(s, e) ==
    LET t == resolveNextState(s, e, Page(s, resolveDmDegradeMatch(s, e)))
    IN  noteProgress(s, noteFrameZero(s, e, notePeerCall(noteConnectingUa(t), e)))

\* Mutant: the retries start over at every expiry.
clampRcAlways(s) == [s EXCEPT !.rc = IF @ > 1 THEN 1 ELSE @]

\* V(a) moved since the last expiry: the retries start over, without losing
\* the one this expiry is.
clampRc(s) ==
    [s EXCEPT !.rc = IF s.vaAdvancedSinceT1Expiry /\ @ > 1 THEN 1 ELSE @,
              !.vaAdvancedSinceT1Expiry = FALSE]

\* The UA dropped before is the peer's reset after all: it is taken first.
takeDroppedUa(s, e) ==
    IF ~s.droppedUa THEN s
    ELSE IF peerSequenceRestarted(s, e)
         THEN dispatchFigure([s EXCEPT !.droppedUa = FALSE],
                Event("UA", UFrame("UA", FALSE, TRUE), None))
    ELSE [s EXCEPT !.droppedUa = ~isInSequenceIFrame(s, e)]

dispatchOne(s, e) ==
    LET t == IF e.name = "T1_expiry" THEN clampRc(s) ELSE s
    IN  IF isRepeatedConnectSabm(t, e) THEN Reply(t, "UA", e.frame)
        ELSE IF isUaOnUpLink(t, e) THEN [t EXCEPT !.droppedUa = TRUE]
        ELSE dispatchFigure(takeDroppedUa(t, e), e)

\* The LM-SEIZE confirm a transition posts is dispatched before the I queue.
drain(s) ==
    DrainIFrameQueue(
        IF s.seize THEN dispatchOne([s EXCEPT !.seize = FALSE], Primitive("LM_SEIZE_confirm"))
        ELSE s)

\* Mutant: what is pending goes out before the event, not after it.
postEventDrainFirst(s, e) == dispatchOne(drain(s), e)

postEvent(s, e) == drain(dispatchOne(s, e))

onTimerExpiry(s, name) ==
    IF name = "T1" THEN postEvent([s EXCEPT !.t1 = FALSE], Primitive("T1_expiry"))
                   ELSE postEvent([s EXCEPT !.t3 = FALSE], Primitive("T3_expiry"))

=============================================================================
