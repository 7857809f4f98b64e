------------------------------ MODULE Inp3Engine ------------------------------
(***************************************************************************)
(* INP3 link timing at one node (inp3-engine.ts, inp3-l3rtt.ts,            *)
(* inp3-sntt.ts): what each call does to the neighbours the engine knows,  *)
(* a function from some callsigns to their state.                          *)
(*                                                                         *)
(* The code stamps events with the time since the engine was made; here a  *)
(* stamp is its age, which Elapse counts up in the units of the host's     *)
(* tick.  The IP version a neighbour accepts, which nothing reads, is left *)
(* out.                                                                    *)
(***************************************************************************)
EXTENDS Integers

CONSTANTS
    Interval,      \* l3RttIntervalMs
    ResetWindow,   \* l3RttResetWindowMs
    GainShift,     \* snttGainShift
    SampleMax,     \* SNTT_SAMPLE_MAX_MS
    ProbeUnknown   \* probeUnknownCapability

\* validateInp3Options
ASSUME EngineAssumption ==
    /\ Interval \in Nat \ {0} /\ ResetWindow \in Nat /\ ResetWindow > Interval
    /\ GainShift \in 1 .. 8 /\ SampleMax \in Nat /\ ProbeUnknown \in BOOLEAN

Never     == -1   \* NEVER_PROBED
SnttUnset == -1   \* SNTT_UNSET

Smaller(x, y) == IF x < y THEN x ELSE y

-----------------------------------------------------------------------------
(* The smoother *)

\* The first sample as it is; later ones at a gain of one in 2^GainShift,
\* rounded.
smoothSntt(current, sample) ==
    LET denom == 2 ^ GainShift
    IN  IF current = SnttUnset THEN sample
        ELSE ((denom - 1) * current + sample + denom \div 2) \div denom

-----------------------------------------------------------------------------
(* L3RTT frames: the node that built one, which the capability text says     *)
(* speaks INP3.                                                              *)

build(me) == [kind |-> "L3RTT", origin |-> me, capable |-> TRUE]

isReflectionOf(f, me) == f.origin = me

-----------------------------------------------------------------------------
(* The neighbours *)

\* A neighbour just heard of: as good as reflected now, never probed.
NewNeighbour == [sntt |-> SnttUnset, sent |-> Never, refl |-> 0,
                 capable |-> FALSE, awaiting |-> FALSE]

\* E with r for n, whom it may not know yet.
Put(E, n, r) == [m \in DOMAIN E \cup {n} |-> IF m = n THEN r ELSE E[m]]

observeNeighbour(E, n) == IF n \in DOMAIN E THEN E ELSE Put(E, n, NewNeighbour)

\* Mutant of Expired: one unit too early.
ExpiredEarly(r) == r.refl >= ResetWindow

Expired(r) == r.refl > ResetWindow

\* Mutant of Due: a probe goes out at every interval, answered or not.
DueAnyway(r) == \/ r.sent = Never
                \/ r.sent >= Interval

Due(r) == /\ r.capable \/ ProbeUnknown
          /\ ~r.awaiting
          /\ r.sent = Never \/ r.sent >= Interval

\* What a tick does: the neighbours it probes, those it gives up and raises as
\* down, and what it keeps.
Probed(E) == {n \in DOMAIN E : ~Expired(E[n]) /\ Due(E[n])}
Silent(E) == {n \in DOMAIN E : Expired(E[n]) /\ E[n].capable}

engineTick(E) ==
    [n \in {x \in DOMAIN E : ~Expired(E[x])} |->
        IF Due(E[n]) THEN [E[n] EXCEPT !.sent = 0, !.awaiting = TRUE] ELSE E[n]]

\* handleL3Rtt: the reflection of a probe that is awaited is timed, a sample
\* being half its round trip; anything else is reflected.
Answers(E, me, n, f) ==
    isReflectionOf(f, me) /\ observeNeighbour(E, n)[n].awaiting

handleL3Rtt(E, me, n, f) ==
    LET r == observeNeighbour(E, n)[n]
        s == [r EXCEPT !.capable = @ \/ f.capable]
    IN  Put(E, n, IF Answers(E, me, n, f)
                  THEN [s EXCEPT !.awaiting = FALSE, !.refl = 0,
                           !.sntt = smoothSntt(@, Smaller(r.sent \div 2, SampleMax))]
                  ELSE s)

\* Neighbours whose updates the routing layer sends.
CapableNeighbours(E) == {n \in DOMAIN E : E[n].capable}

\* Time passes: a probe that was answered is as old as it needs to be once the
\* next is due.
Elapse(E) ==
    [n \in DOMAIN E |->
        [E[n] EXCEPT !.refl = @ + 1,
                     !.sent = IF @ = Never THEN Never
                              ELSE IF E[n].awaiting THEN @ + 1
                              ELSE Smaller(@ + 1, Interval)]]

=============================================================================
