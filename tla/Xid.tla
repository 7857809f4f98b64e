---------------------------------- MODULE Xid ----------------------------------
(***************************************************************************)
(* The information field of an XID frame (xid.ts): a header and a run of   *)
(* parameters, each an identifier, a length and a value, all in octets.    *)
(* What is read is a function from the identifiers present to their        *)
(* values, empty for a field that is malformed.  Duplex, N1 and T1 are     *)
(* left out: no guard of the model reads them.                             *)
(***************************************************************************)
EXTENDS Integers, Sequences, SequencesExt

FormatIdentifier == 130
GroupIdentifier  == 128

HdlcOptionalFunctions == 3
WindowSizeRx          == 8
Retries               == 10

-----------------------------------------------------------------------------
(* Values                                                                  *)

\* A set of the bits 0 to 23 and its three octets, the highest first.
BitsToOctets(bits) ==
    LET octet(k) == FoldSet(LAMBDA b, sum : sum + 2 ^ (b % 8), 0,
                            {b \in bits : b \div 8 = k})
    IN  <<octet(2), octet(1), octet(0)>>

OctetsToBits(pv) == {b \in 0 .. 23 : (pv[3 - b \div 8] \div 2 ^ (b % 8)) % 2 = 1}

\* One of REJ and SREJ, one of modulo 8 and 128, and the bits that are always 1.
hdlcOptionalFunctionsToOctets(hof) ==
    BitsToOctets({7, 13, 15, 17}
        \cup (IF hof.selective THEN {2, 21} ELSE {1})
        \cup (IF hof.modulo128 THEN {11} ELSE {10})
        \cup (IF hof.segmenter THEN {22} ELSE {}))

\* SREJ and modulo 128 where neither choice is made, or both are.
hdlcOptionalFunctionsFromOctets(pv) ==
    LET bits == OctetsToBits(pv)
    IN  [selective |-> 2 \in bits \/ 1 \notin bits,
         modulo128 |-> 11 \in bits \/ 10 \notin bits,
         segmenter |-> 22 \in bits]

\* HDLC_OPTIONAL_FUNCTIONS_DEFAULT
DefaultFunctions == [selective |-> TRUE, modulo128 |-> TRUE, segmenter |-> FALSE]

\* A number in as few octets as it takes, the highest first.
encodeUnsignedXid(value) ==
    LET octets[v \in Nat] == IF v < 256 THEN <<v>> ELSE Append(octets[v \div 256], v % 256)
    IN  octets[value]

decodeUnsignedXid(pv) == FoldLeft(LAMBDA acc, octet : 256 * acc + octet, 0, pv)

-----------------------------------------------------------------------------
(* The field                                                               *)

pushParameter(sink, pi, pv) == sink \o <<pi, Len(pv)>> \o pv

\* An offer is [hdlc, k, n2].
encodeXid(offer) ==
    LET hdlc == pushParameter(<<>>, HdlcOptionalFunctions,
                              hdlcOptionalFunctionsToOctets(offer.hdlc))
        k    == pushParameter(hdlc, WindowSizeRx, <<offer.k % 128>>)
        pf   == pushParameter(k, Retries, encodeUnsignedXid(offer.n2))
    IN  <<FormatIdentifier, GroupIdentifier, Len(pf) \div 256, Len(pf) % 256>> \o pf

\* The parameter field is a run of whole parameters; the last of a kind counts
\* and an empty one is absent.
tryParseXid(info) ==
    LET pf == SubSeq(info, 5, 4 + 256 * info[3] + info[4])
        whole[o \in 1 .. Len(pf) + 257] ==
            o = Len(pf) + 1 \/ (o < Len(pf) /\ whole[o + 2 + pf[o + 1]])
        read[o \in 1 .. Len(pf) + 1] ==
            IF o > Len(pf) THEN <<>>
            ELSE LET rest == read[o + 2 + pf[o + 1]]
                     pv   == SubSeq(pf, o + 2, o + 1 + pf[o + 1])
                 IN  [pi \in DOMAIN rest \cup (IF pv = <<>> THEN {} ELSE {pf[o]}) |->
                         IF pi \in DOMAIN rest THEN rest[pi] ELSE pv]
    IN  IF /\ Len(info) >= 4 /\ info[1] = FormatIdentifier /\ info[2] = GroupIdentifier
           /\ 256 * info[3] + info[4] <= Len(info) - 4
           /\ whole[1]
        THEN read[1] ELSE <<>>

\* The value of a parameter, if it is there.
Value(params, pi) == {params[i] : i \in DOMAIN params \cap {pi}}

=============================================================================
