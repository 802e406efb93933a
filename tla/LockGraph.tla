------------------------------ MODULE LockGraph ------------------------------
(* What a cycle is in the graph of the lock orders, for the detector, which *)
(* is given the answer, and for CheckCycle, which finds it.                 *)

\* Some nonempty set of locks has a next lock in the set for each of its
\* members: this is what a cycle of a finite graph comes down to.
Cyclic(vertices, graph) ==
    \E S \in SUBSET vertices : S # {} /\ \A x \in S : \E y \in S : <<x, y>> \in graph
===============================================================================
