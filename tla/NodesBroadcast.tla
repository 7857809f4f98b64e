----------------------------- MODULE NodesBroadcast -----------------------------
(***************************************************************************)
(* How an advertisement becomes NODES frames and is read from them         *)
(* (nodes-broadcast-builder.ts, nodes-broadcast.ts): the entries go out    *)
(* best first, so many to a frame, and each frame is a broadcast of its    *)
(* own to those who hear it.  A frame is the set of its entries; which of  *)
(* them comes first follows from the order of the advertisement.  The      *)
(* aliases are left out: no route depends on one.                          *)
(***************************************************************************)
EXTENDS RoutingTable

CONSTANT EntriesPerFrame  \* NODES_MAX_ENTRIES_PER_FRAME

ASSUME FrameAssumption == EntriesPerFrame \in Nat \ {0}

\* The order of buildAdvertisement: by quality, then by callsign.
Precedes(e, f) ==
    \/ e.quality > f.quality
    \/ e.quality = f.quality /\ CallRank[e.dest] < CallRank[f.dest]

Position(e, entries) == Cardinality({f \in entries : Precedes(f, e)})

\* One frame without entries announces a node that has nothing to advertise.
buildNodesBroadcast(entries) ==
    IF entries = {} THEN {{}}
    ELSE {{e \in entries : Position(e, entries) \div EntriesPerFrame = f} :
             f \in 0 .. (Cardinality(entries) - 1) \div EntriesPerFrame}

\* A reader takes no more entries from a frame than belong in one.
parseNodesBroadcast(frame) == {e \in frame : Position(e, frame) < EntriesPerFrame}

=============================================================================
