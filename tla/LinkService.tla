---------------------------- MODULE LinkService ----------------------------
(***************************************************************************)
(* What a data link promises, per direction x (named after its sender).    *)
(* The sender's owner submits payloads numbered 1, 2, ...  The receiver's  *)
(* owner gets them in order and once on any one link; a payload is passed  *)
(* over only after the sender's owner was told that what it had submitted  *)
(* may be lost, and a new link may repeat what an earlier one delivered.   *)
(***************************************************************************)
EXTENDS Integers

CONSTANT Directions

VARIABLES
    sub,    \* payloads submitted so far
    told,   \* payloads up to this one were announced as possibly lost
    got,    \* the numbers delivered so far
    last    \* the latest of them on the present link, 0 for none

Init ==
    \A x \in Directions : sub[x] = 0 /\ told[x] = 0 /\ got[x] = {} /\ last[x] = 0

SenderIdle(x)   == sub'[x] = sub[x] /\ told'[x] = told[x]
ReceiverIdle(x) == got'[x] = got[x] /\ last'[x] = last[x]

Submit(x) == sub'[x] > sub[x] /\ told'[x] = told[x] /\ ReceiverIdle(x)

\* The sender's owner hears of a reset or of the end of the link.
Announce(x) ==
    /\ told'[x] > told[x] /\ told'[x] = sub[x]
    /\ sub'[x] = sub[x] /\ ReceiverIdle(x)

\* The receiver's owner hears of a new link.
Renew(x) == last'[x] = 0 /\ got'[x] = got[x] /\ SenderIdle(x)

\* Payloads are delivered, in order, and none is passed over untold.
Deliver(x) ==
    /\ last[x] < last'[x] /\ last'[x] <= sub[x] /\ last'[x] \in got'[x]
    /\ got[x] \subseteq got'[x]
    /\ got'[x] \ got[x] \subseteq last[x] + 1 .. last'[x]
    /\ 1 .. last'[x] \subseteq got'[x] \cup (1 .. told[x])
    /\ SenderIdle(x)

Step(x) ==
    \/ Submit(x) \/ Announce(x) \/ Renew(x) \/ Deliver(x)
    \/ SenderIdle(x) /\ ReceiverIdle(x)

\* One event of a station can touch both directions.
Next == \A x \in Directions : Step(x)

Spec == Init /\ [][Next]_<<sub, told, got, last>>

=============================================================================
