-------------------------- MODULE Inp3UpdateScheduler --------------------------
(***************************************************************************)
(* When a node advertises its time-routes (inp3-update-scheduler.ts): each *)
(* call as an operator on the scheduler's state.  As in Inp3Engine a stamp *)
(* is its age.  One tick raises one full update per target at most.        *)
(***************************************************************************)
EXTENDS Integers, TLC

CONSTANTS
    RifInterval,      \* rifIntervalMs
    PositiveDebounce  \* positiveDebounceMs

\* validateInp3Options
ASSUME SchedulerAssumption ==
    /\ RifInterval \in Nat \ {0}
    /\ PositiveDebounce \in Nat \ {0} /\ PositiveDebounce < RifInterval

NeverMarked == -1   \* NEVER_MARKED

NewScheduler == [targets |-> {}, dirty |-> <<>>, positive |-> NeverMarked, periodic |-> 0]

setTargetNeighbours(s, neighbours) == [s EXCEPT !.targets = neighbours]

\* mark: bad news overrides good, never the other way round.
mark(s, d, class) ==
    IF d \in DOMAIN s.dirty
    THEN IF class = "Negative" THEN [s EXCEPT !.dirty[d] = "Negative"] ELSE s
    ELSE [s EXCEPT !.dirty = (d :> class) @@ @,
                   !.positive = IF class = "Positive" /\ @ = NeverMarked THEN 0 ELSE @]

markWithdrawn(s, d) == mark(s, d, "Negative")

PeriodicDue(s) == s.periodic >= RifInterval

\* Mutant of NegativeDue: a withdrawal waits for the periodic update.
NegativeNeverDue(s) == FALSE

NegativeDue(s) == \E d \in DOMAIN s.dirty : s.dirty[d] = "Negative"

PositiveDue(s) == s.positive # NeverMarked /\ s.positive >= PositiveDebounce

UpdateDue(s) == PeriodicDue(s) \/ NegativeDue(s) \/ PositiveDue(s)

\* The neighbours a tick advertises to, and what it leaves.
Advertised(s) == IF UpdateDue(s) THEN s.targets ELSE {}

schedulerTick(s) ==
    IF ~UpdateDue(s) THEN s
    ELSE [s EXCEPT !.dirty = <<>>, !.positive = NeverMarked,
                   !.periodic = IF PeriodicDue(s) THEN 0 ELSE @]

\* Time passes, up to the ages the tick asks about.
SchedulerElapse(s) ==
    [s EXCEPT !.periodic = IF @ < RifInterval THEN @ + 1 ELSE @,
              !.positive = IF @ \in 0 .. PositiveDebounce - 1 THEN @ + 1 ELSE @]

=============================================================================
