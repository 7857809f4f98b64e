-------------------------- MODULE MCCircuitManager --------------------------
(***************************************************************************)
(* CircuitManager on two nodes: values for the constants a configuration   *)
(* file cannot write.                                                      *)
(***************************************************************************)
EXTENDS CircuitManager

CONSTANTS A, B

\* Both nodes propose the largest window, or one of them exceeds it and the
\* other asks for less.
MCSameWindow     == [n \in Node |-> MaxWindow]
MCUnequalWindows == [n \in Node |-> IF n = A THEN MaxWindow + 1 ELSE MaxWindow - 1]

MCUnlimited == Unlimited

=============================================================================
