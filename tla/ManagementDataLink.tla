------------------------- MODULE ManagementDataLink -------------------------
(***************************************************************************)
(* sdl/management-data-link.ts and sdl/xid-negotiator.ts: the XID exchange *)
(* that settles selective reject, the modulus, the segmenter, the window   *)
(* and the retry limit.  The two-state machine (Ready, Negotiating) is a   *)
(* page of ax25sdl, outside this repository; the responder is the source's *)
(* own.  The FRMR of a station that knows no XID is left out: both ends    *)
(* run this code.  The retry count, which the page zeroes when an exchange *)
(* begins, is zero between exchanges, and only connect, waiting for it,    *)
(* hears confirm.                                                          *)
(***************************************************************************)
EXTENDS SessionContext, Xid

isNegotiating(s) == s.mdl = "Negotiating"

defaultOfferFor(s) ==
    [hdlc |-> [selective |-> s.srejEnabled, modulo128 |-> s.isExtended,
               segmenter |-> s.segmenter],
     k |-> s.k, n2 |-> s.n2]

XidFrame(s, cmd) == Frame("XID", cmd, TRUE, 0, 0, encodeXid(defaultOfferFor(s)))

SendXidCommand(s) == [SendFrame(s, XidFrame(s, TRUE)) EXCEPT !.tm201 = TRUE]

\* What both ends offer is used, the smaller window and the larger retry limit;
\* of what the peer does not say, its functions are the default ones and the
\* rest is our own.
applyNegotiated(s, offered, response) ==
    LET theirs == IF HdlcOptionalFunctions \in DOMAIN response
                  THEN hdlcOptionalFunctionsFromOctets(response[HdlcOptionalFunctions])
                  ELSE DefaultFunctions
    IN  [s EXCEPT
            !.srejEnabled = offered.hdlc.selective /\ theirs.selective,
            !.isExtended  = offered.hdlc.modulo128 /\ theirs.modulo128,
            !.segmenter   = offered.hdlc.segmenter /\ theirs.segmenter,
            !.k  = Min({offered.k} \cup
                       {pv[1] % 128 : pv \in Value(response, WindowSizeRx)}),
            !.n2 = Max({offered.n2} \cup
                       {decodeUnsignedXid(pv) : pv \in Value(response, Retries)})]

\* A request while an exchange is open is ignored.
negotiate(s) ==
    IF isNegotiating(s) THEN s
    ELSE SendXidCommand([s EXCEPT !.mdl = "Negotiating"])

onXidReceived(s, f) ==
    IF ~isNegotiating(s) THEN s
    ELSE [applyNegotiated(s, defaultOfferFor(s), tryParseXid(f.info)) EXCEPT
            !.mdl = "Ready", !.mdlRc = 0, !.tm201 = FALSE, !.confirmed = s.probing]

onTm201Expiry(s) ==
    LET t == [s EXCEPT !.tm201 = FALSE]
    IN  IF s.mdlRc = s.nm201 THEN [t EXCEPT !.mdl = "Ready", !.mdlRc = 0]
        ELSE SendXidCommand([t EXCEPT !.mdlRc = @ + 1])

\* The agreed values are in force before the response is on its way.
respondToXidCommand(s, f) ==
    LET t == applyNegotiated(s, defaultOfferFor(s), tryParseXid(f.info))
    IN  SendFrame(t, XidFrame(t, FALSE))

=============================================================================
