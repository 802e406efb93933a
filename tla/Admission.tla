----------------------------- MODULE Admission -----------------------------
(***************************************************************************)
(* What a server service with its listener promises its clients: every     *)
(* client is let in once, turned away only while the service is full, or   *)
(* lost to an error of the network.                                        *)
(***************************************************************************)
EXTENDS Naturals, FiniteSets

CONSTANTS Clients, Limit

VARIABLE fate  \* what has become of each client

Init == fate = [c \in Clients |-> "away"]

Served == {c \in Clients : fate[c] = "served"}
Becomes(c, from, to) == fate[c] = from /\ fate' = [fate EXCEPT ![c] = to]

Arrive(c) == Becomes(c, "away", "waiting")
Admit(c)  == Cardinality(Served) < Limit /\ Becomes(c, "waiting", "served")
Refuse(c) == Cardinality(Served) = Limit /\ Becomes(c, "waiting", "refused")
Lose(c)   == Becomes(c, "waiting", "failed")
Leave(c)  == Becomes(c, "served", "left")

Next == \E c \in Clients : Arrive(c) \/ Admit(c) \/ Refuse(c) \/ Lose(c) \/ Leave(c)

Spec == Init /\ [][Next]_fate
=============================================================================
