--------------------------- MODULE MCNetRomConnector ---------------------------
(***************************************************************************)
(* The nodes, links and modes NetRomConnector is checked with.             *)
(***************************************************************************)
EXTENDS NetRomConnector

CONSTANTS A, B, C, D, X, P, Q, ModeNames

MCCallRank == [n \in Node |-> CASE n = A -> 1 [] n = B -> 2 [] n = C -> 3
                                [] n = D -> 4 [] n = X -> 5]
MCPortRank == [p \in Port |-> IF p = P THEN 1 ELSE 2]

\* Callsigns of one letter that differ in it: the letter shifted, then blanks.
MCShifted == [n \in Node |-> <<2 * (64 + MCCallRank[n]), 64, 64, 64, 64, 64, 96>>]

MCInRange == {<<{A, B}, P>>, <<{B, C}, P>>, <<{A, C}, P>>, <<{A, B}, Q>>}

\* A node that has heard a NODES broadcast of each of the others on each port.
Heard(others, ports) ==
    [EmptyTable EXCEPT
        !.neighbours = ports \X others,
        !.routes = {[dest |-> v[2], via |-> v, quality |-> PathQuality,
                     obsolescence |-> ObsoleteInitial, time |-> Horizon, hops |-> 0] :
                        v \in ports \X others}]

Pair(ports) == [n \in Node |-> IF n = A THEN Heard({B}, ports)
                               ELSE IF n = B THEN Heard({A}, ports) ELSE EmptyTable]

\* Three nodes each of which takes the next for the best way to D.
Round(n) == IF n = A THEN B ELSE IF n = B THEN C ELSE A

Way(via, quality, time) ==
    [dest |-> D, via |-> <<P, via>>, quality |-> quality,
     obsolescence |-> ObsoleteInitial, time |-> time,
     hops |-> IF time < Horizon THEN 1 ELSE 0]

Loop == [n \in Node |->
    IF n \notin {A, B, C} THEN EmptyTable
    ELSE LET t == Heard({A, B, C} \ {n}, {P})
         IN  [t EXCEPT !.routes = @ \cup {Way(Round(n), 2, IF n = A THEN 1 ELSE Horizon),
                                          Way(Round(Round(n)), 1, Horizon)}]]

BaseMode ==
    [inp3 |-> {A, B}, tables |-> Pair({P}), port |-> Q,
     openers |-> {A, B}, dests |-> {A, B}, border |-> {B}, outside |-> {C},
     breaks |-> FALSE, slow |-> FALSE, opens |-> 1, enters |-> 0, changes |-> 0,
     fails |-> 0, cuts |-> 0, detaches |-> 0]

\* Nothing fails, and B learns and loses C.
CalmMode == [BaseMode EXCEPT !.opens = 2, !.changes = 2]

\* Frames take their time.
SlowMode == [BaseMode EXCEPT !.slow = TRUE, !.openers = {A}]

\* A link that fails under the probes, and comes back when someone dials.
CutMode == [BaseMode EXCEPT !.breaks = TRUE, !.opens = 2, !.cuts = 1]

\* Dials that fail.
DialMode == [BaseMode EXCEPT !.breaks = TRUE, !.opens = 2, !.fails = 1]

\* Two links between the nodes, and the ends may come to select different ones.
PortsMode == [BaseMode EXCEPT !.tables = Pair({P, Q}), !.breaks = TRUE,
                                   !.opens = 2, !.fails = 1, !.openers = {A}]

\* A port is detached, and attached again.
DetachMode == [BaseMode EXCEPT !.breaks = TRUE, !.opens = 2, !.openers = {A},
                                     !.detaches = 1]

\* B does not speak INP3.
PlainMode == [BaseMode EXCEPT !.inp3 = {A}]

\* Datagrams for D go round.
RingMode == [BaseMode EXCEPT !.inp3 = {}, !.tables = Loop, !.openers = {A},
                !.dests = {D}, !.border = {A}, !.outside = {X}, !.breaks = TRUE,
                !.enters = 2, !.fails = 1]

ModeOf == [calm |-> CalmMode, slow |-> SlowMode, cut |-> CutMode, dial |-> DialMode,
           ports |-> PortsMode, detach |-> DetachMode, plain |-> PlainMode,
           ring |-> RingMode]

ChosenModes == {ModeOf[name] : name \in ModeNames}

=============================================================================
