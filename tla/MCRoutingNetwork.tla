--------------------------- MODULE MCRoutingNetwork ---------------------------
(***************************************************************************)
(* RoutingNetwork on a few nodes: values for the constants a configuration *)
(* file cannot write.                                                      *)
(***************************************************************************)
EXTENDS RoutingNetwork

CONSTANTS A, B, C, D, P, Q

MCCallRank == [n \in Node |-> CASE n = A -> 1 [] n = B -> 2 [] n = C -> 3 [] n = D -> 4]
MCPortRank == [p \in Port |-> IF p = P THEN 1 ELSE 2]

\* A line through B; the same with two links between A and B; a ring of A, B
\* and C, with D at a port of A that may be detached.
MCLine     == {<<{A, B}, P>>, <<{B, C}, P>>}
MCTwoPorts == {<<{A, B}, P>>, <<{A, B}, Q>>, <<{B, C}, Q>>}
MCRing     == {<<{A, B}, Q>>, <<{A, C}, Q>>, <<{B, C}, P>>, <<{A, D}, P>>}
MCFickle   == {<<{A, B}, Q>>}

MCSntt == {1}

=============================================================================
