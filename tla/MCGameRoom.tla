----------------------------- MODULE MCGameRoom -----------------------------
(* An instance of GameRoom for TLC: any client sends any of the ids, the id*)
(* 0 that stands for "no player" among them.                               *)
EXTENDS GameRoom, TLC

CONSTANTS idA, idB

Symmetry == Permutations(Sessions) \cup Permutations(IoThreads) \cup Permutations({idA, idB})
===============================================================================
