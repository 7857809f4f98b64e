---------------------------- MODULE LinkListener ----------------------------
(***************************************************************************)
(* listener.ts, for the one session it caches per peer: what it does with  *)
(* an inbound frame before the session sees it, and the calls of the       *)
(* owner.  Left out: the eviction of sessions (maxCachedPeers is above the *)
(* number of peers), UI and TEST frames, and the connect promise, which    *)
(* only listens.  acceptIncoming stays as it is set by default.            *)
(***************************************************************************)
EXTENDS SessionDriver

\* The first SABM(E) or XID command of a peer, and the first dial, put a session
\* in the cache; the one an XID command makes offers selective reject.
Cached(s) == [s EXCEPT !.known = TRUE]

\* A session that is down takes an I or S command as all_other_commands and
\* never sees such a response.
reclassifyForDisconnectedCatchAll(s, f) ==
    IF s.state # "Disconnected" \/ f.type \in {"SABM", "SABME", "DISC", "UA"}
    THEN FrameEvent(f)
    ELSE Event("all_other_commands", f, None)

\* A frame is read with the control field of the session it is for; one that
\* has not that many octets is taken as it was read before the session was known.
reparseAtSessionModulo(s, w) ==
    IF s.isExtended /\ decodeFrame(w, TRUE) # None THEN decodeFrame(w, TRUE)
    ELSE decodeFrame(w, FALSE)

dispatchInbound(s, w) ==
    LET f     == reparseAtSessionModulo(s, w)
        event == reclassifyForDisconnectedCatchAll(s, f)
    IN  CASE f.type = "XID" /\ f.cmd ->
                respondToXidCommand([Cached(s) EXCEPT !.srejEnabled = @ \/ ~s.known], f)
          [] f.type = "XID" /\ ~f.cmd -> onXidReceived(s, f)
          [] f.type # "XID" /\ event.name = "all_other_commands" /\ ~f.cmd -> s
          [] OTHER -> postEvent(IF f.type \in {"SABM", "SABME"} THEN Cached(s) ELSE s, event)

Dial(s) == postEvent(s, Primitive("DL_CONNECT_request"))

\* connect takes the version the caller wants; on a v2.0 dial it may ask for
\* selective reject first, and dials when that exchange is over.
connect(s, ext, preConnectXid) ==
    LET t == [Cached(Notify(s)) EXCEPT !.isExtended = ext]
    IN  IF ext \/ ~preConnectXid THEN Dial(t)
        ELSE negotiate([t EXCEPT !.srejEnabled = TRUE, !.probing = TRUE])

\* Mutant: the offer stands although nobody confirmed it.
keepOffer(s) == Dial([s EXCEPT !.probing = FALSE])

\* The peer has answered, or connect's patience is over: without an answer the
\* dial is for an implicit-reject link.
negotiateSrejBeforeConnect(s) ==
    Dial([s EXCEPT !.probing = FALSE, !.confirmed = FALSE,
                   !.srejEnabled = @ /\ s.confirmed])

disconnect(s) == postEvent(Notify(s), Primitive("DL_DISCONNECT_request"))

\* sendData: the payload as it is, or the series of its segments, each posted.
\* A payload that needs cutting is refused where the segmenter is not agreed on.
buildSendRequests(from, segments) ==
    IF segments = 1 THEN <<Whole(from)>>
    ELSE [i \in 1 .. segments |-> [n |-> from + i - 1, first |-> i = 1, rem |-> segments - i]]

sendData(s, segments) ==
    IF segments > 1 /\ ~s.segmenter THEN s
    ELSE FoldLeft(LAMBDA t, info : postEvent(t, Event("DL_DATA_request", None, info)),
             [s EXCEPT !.sub = @ + segments], buildSendRequests(s.sub + 1, segments))

=============================================================================
