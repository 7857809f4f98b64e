----------------------------- MODULE FrameCodec -----------------------------
(***************************************************************************)
(* frame.ts: a frame as it is on the air, its command and response bits    *)
(* and the octets of its control and PID fields, and as it is read back.   *)
(* I and S frames of a v2.2 link carry a control field of two octets, and  *)
(* nothing in a frame says so: the reader has to know.  Addresses and the  *)
(* octets of the information field are left out.                           *)
(***************************************************************************)
EXTENDS Integers, Sequences

CONSTANT None   \* the absent value

ASSUME NoneIsNoPayload == None \notin [n : Nat, first : BOOLEAN, rem : Nat]

Frame(type, cmd, pf, nr, ns, info) ==
    [type |-> type, cmd |-> cmd, pf |-> pf, nr |-> nr, ns |-> ns, info |-> info]

UFrame(type, cmd, pf) == Frame(type, cmd, pf, 0, 0, None)

\* The two bits of an S frame's control field, and the base octet of a U frame.
Supervisory == [RR |-> 0, RNR |-> 1, REJ |-> 2, SREJ |-> 3]

Unnumbered == [SABM |-> 47, SABME |-> 111, DISC |-> 67, UA |-> 99, DM |-> 15, XID |-> 175]

\* What the PID octet of an I frame says: no layer 3, or a segment.
PidNoLayer3  == 240
PidSegmented == 8

\* A payload, or the segment of one: n numbers it, rem segments follow it.
Whole(n) == [n |-> n, first |-> TRUE, rem |-> 0]

\* What is left of a payload that is read one octet off.
Garbled == Whole(0)

Bit(isSet) == IF isSet THEN 1 ELSE 0

extendedControl(nr, pf) == 2 * (nr % 128) + Bit(pf)

controlField(f, extended) ==
    IF f.type \in DOMAIN Unnumbered THEN <<Unnumbered[f.type] + 16 * Bit(f.pf)>>
    ELSE LET ns  == f.ns % (IF extended THEN 128 ELSE 8)
             low == IF f.type = "I" THEN 2 * ns ELSE 4 * Supervisory[f.type] + 1
         IN  IF extended THEN <<low, extendedControl(f.nr, f.pf)>>
             ELSE <<32 * (f.nr % 8) + 16 * Bit(f.pf) + low>>

\* The bits of the two addresses tell a command from a response.
makeAddressChain(cmd) == [destination |-> cmd, source |-> ~cmd]

encodeFrame(f, extended) ==
    [crh    |-> makeAddressChain(f.cmd),
     octets |-> controlField(f, extended) \o
                (IF f.type # "I" THEN <<>>
                 ELSE <<IF f.info = Whole(f.info.n) THEN PidNoLayer3 ELSE PidSegmented>>),
     info   |-> f.info]

-----------------------------------------------------------------------------
isCommand(w) == w.crh.destination /\ ~w.crh.source

isUFrame(w) == w.octets[1] % 4 = 3

classify(w) ==
    LET control == w.octets[1]
    IN  IF control % 2 = 0 THEN "I"
        ELSE IF isUFrame(w)
        THEN CHOOSE type \in DOMAIN Unnumbered :
                Unnumbered[type] = control - 16 * ((control \div 16) % 2)
        ELSE CHOOSE type \in DOMAIN Supervisory : Supervisory[type] = (control \div 4) % 4

\* The fields of a control field of one octet, or of two.
pollFinal(w, two) == IF two THEN w.octets[2] % 2 = 1 ELSE (w.octets[1] \div 16) % 2 = 1

getNs(w, two) == (w.octets[1] \div 2) % (IF two THEN 128 ELSE 8)

getNr(w, two) == IF two THEN (w.octets[2] \div 2) % 128 ELSE w.octets[1] \div 32

\* None where the octets run out.
decodeFrame(w, extended) ==
    LET two  == extended /\ ~isUFrame(w)
        read == IF two THEN 2 ELSE 1
    IN  IF Len(w.octets) < read THEN None
        ELSE [type |-> classify(w), cmd |-> isCommand(w), pf |-> pollFinal(w, two),
              nr   |-> getNr(w, two), ns |-> getNs(w, two),
              info |-> IF classify(w) = "I" /\ Len(w.octets) # read + 1 THEN Garbled
                       ELSE w.info]

=============================================================================
