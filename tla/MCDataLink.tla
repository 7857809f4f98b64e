----------------------------- MODULE MCDataLink -----------------------------
(* The modes DataLink is checked in, one or several per run.               *)
EXTENDS DataLink

CONSTANTS a, b, ModeNames

Answers(n) == [x \in Stations |-> IF x = b THEN n ELSE 0]

Both(n) == [x \in Stations |-> n]

Mode(name) == [name |-> name, srej |-> FALSE, segmenter |-> FALSE,
    k |-> Both(3), n2 |-> Both(2), extended |-> FALSE,
    xid |-> FALSE, redial |-> FALSE, patient |-> FALSE,
    dialers |-> {a}, senders |-> {a}, answers |-> Answers(0), segments |-> {1},
    calls |-> 1, hangups |-> 0, payloads |-> 0, flows |-> 0, idles |-> 0,
    copies |-> 0, defers |-> 0]

\* Both ends dial, crossing or one after the other, and hang up.
CallMode == [Mode("call") EXCEPT !.dialers = {a, b}, !.calls = 2, !.hangups = 1,
                                 !.payloads = 1]

\* The peer answers from its data callback, and an idle link is polled.
TalkMode == [Mode("talk") EXCEPT !.answers = Answers(1), !.payloads = 1, !.idles = 1]

\* Either end holds the other off.
HoldMode == [Mode("hold") EXCEPT !.payloads = 1, !.flows = 1]

\* Go-back-N past a full window and round the ring.
RejMode == [Mode("rej") EXCEPT !.payloads = 4]

\* The station that was called sends.
PeerMode == [Mode("peer") EXCEPT !.senders = {b}, !.payloads = 3]

\* Payloads of two segments, on one link and the next.
CutMode == [Mode("cut") EXCEPT !.segments = {2}, !.segmenter = TRUE, !.payloads = 4, !.calls = 2]

\* A frame is delivered twice.
CopyMode == [Mode("copy") EXCEPT !.payloads = 2, !.copies = 1]

\* A frame deferred on a busy channel is overtaken, on a window of less than
\* half the ring.
BusyMode == [Mode("busy") EXCEPT !.k = Both(1), !.payloads = 3, !.defers = 1]

\* A v2.2 dial with selective reject, more than half the ring asked for.
SrejMode == [Mode("srej") EXCEPT !.extended = TRUE, !.srej = TRUE, !.patient = TRUE,
                                 !.payloads = 4]

\* v2.0 dials that ask for selective reject first.
XidMode == [Mode("xid") EXCEPT !.xid = TRUE, !.calls = 2, !.payloads = 1]

\* v2.2 dials, the second after the first was given up.
V22Mode == [Mode("v22") EXCEPT !.extended = TRUE, !.calls = 2, !.payloads = 1]

\* Selective reject, and an owner who dials again while the link is up.
StaleMode == [Mode("stale") EXCEPT !.srej = TRUE, !.redial = TRUE, !.calls = 2, !.n2 = Both(1),
                                   !.payloads = 3]

ChosenModes ==
    {m \in {CallMode, TalkMode, HoldMode, RejMode, PeerMode, CutMode, CopyMode,
            BusyMode, SrejMode, XidMode, V22Mode, StaleMode} : m.name \in ModeNames}

=============================================================================
