---------------------------- MODULE MCBootstrap ----------------------------
(* Bootstrap for TLC: the TRC n1 is pinned to c1, the others are not.       *)
EXTENDS Bootstrap, TLC

CONSTANTS n1, c1

MCPins == [n \in Names |-> IF n = n1 THEN c1 ELSE None]

Symmetry == Permutations(Topologies) \cup Permutations(Names \ {n1})
=============================================================================
