-------------------------------- MODULE Inp3Rif --------------------------------
(***************************************************************************)
(* What a RIF is on the wire and how it is read (inp3-rif.ts).  An octet   *)
(* is a number.  A RIP is the destination in seven of them, a hop count,   *)
(* the time in granules high octet first, and the end marker; the code     *)
(* sends no TLVs, but its reader takes them.  The reader is given by the   *)
(* position it has come to, so that a field that is taken for another one  *)
(* is read on from where that leaves it.                                   *)
(***************************************************************************)
EXTENDS Integers, Sequences

LOCAL INSTANCE SequencesExt

CONSTANTS
    Shifted,     \* [node]: its callsign as seven octets (writeShifted)
    RipGranule,  \* the time unit of the wire
    N1           \* the longest information field of an interlink

ASSUME RifAssumption ==
    /\ \A n, m \in DOMAIN Shifted : Shifted[n] = Shifted[m] => n = m
    /\ \A n \in DOMAIN Shifted :
          Len(Shifted[n]) = 7 /\ \A i \in 1 .. 7 : Shifted[n][i] \in 0 .. 255
    /\ RipGranule \in Nat \ {0} /\ N1 \in Nat \ {0}

Signature   == 255   \* INP3_RIF_SIGNATURE
EndOfPacket == 0     \* INP3_END_OF_PACKET

Prefix == 7 + 1 + 2  \* INP3_RIP_PREFIX_LENGTH

-----------------------------------------------------------------------------
(* Writing *)

writeInp3Rip(rip) ==
    LET units == rip.time \div RipGranule
    IN  Shifted[rip.dest] \o <<rip.hops % 256, units \div 256, units % 256, EndOfPacket>>

inp3RifToBytes(rips) ==
    FoldLeft(LAMBDA octets, rip : octets \o writeInp3Rip(rip), <<Signature>>, rips)

\* An interlink carries no segments: a RIF too long for one frame is refused.
Fits(octets) == Len(octets) <= N1

-----------------------------------------------------------------------------
(* Reading *)

\* The octets at o could be a TLV that ends within the information field.
isTlv(s, o) == o + 1 <= Len(s) /\ o + 1 + s[o + 1] <= Len(s)

\* Where the RIP whose TLVs begin at o is over, and 0 if the field is over
\* before: an end marker that could begin a TLV is an alias.
AfterTlvs(s) ==
    LET after[o \in 1 .. Len(s) + 257] ==
            IF o > Len(s) THEN 0
            ELSE IF isTlv(s, o) THEN after[o + 2 + s[o + 1]]
            ELSE IF s[o] = EndOfPacket THEN o + 1
            ELSE 0
    IN  after

\* There is a whole RIP at o, with a callsign.
isRip(s, o) == o + Prefix <= Len(s) /\ AfterTlvs(s)[o + Prefix] # 0

Calls(s, o) == {n \in DOMAIN Shifted : Shifted[n] = SubSeq(s, o, o + 6)}

parseInp3Rip(s, o) ==
    [dest |-> CHOOSE n \in Calls(s, o) : TRUE,
     time |-> (256 * s[o + 8] + s[o + 9]) * RipGranule,
     hops |-> s[o + 7]]

\* The RIPs of a RIF, up to the first that cannot be read; none of any other
\* frame.
parseInp3Rif(s) ==
    LET rips[o \in 1 .. Len(s) + 1] ==
            IF ~isRip(s, o) \/ Calls(s, o) = {} THEN <<>>
            ELSE <<parseInp3Rip(s, o)>> \o rips[AfterTlvs(s)[o + Prefix]]
    IN  IF s = <<>> \/ s[1] # Signature THEN <<>> ELSE rips[2]

=============================================================================
