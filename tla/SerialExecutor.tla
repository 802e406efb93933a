---------------------------- MODULE SerialExecutor ----------------------------
(***************************************************************************)
(* What JobQueue (Core/Job/Queue.h:54-63) promises to the game code, with  *)
(* no counter, worker or condition variable in sight: a queue is an actor. *)
(* It runs one job at a time, and the jobs one thread gave it in the order *)
(* that thread gave them.  The job that thread p creates as its k-th one   *)
(* is named by the pair of p and k.                                        *)
(***************************************************************************)
EXTENDS Naturals, Sequences

CONSTANTS Pushers, Queues, MaxPush, NoJob

VARIABLES pending,   \* pending[q][p]: jobs q holds from p, oldest first
          running,   \* running[q]: the job q is running, or NoJob
          lastDone   \* lastDone[q][p]: the last job of p that q finished, 0 at first

vars == <<pending, running, lastDone>>

Init == /\ pending = [q \in Queues |-> [p \in Pushers |-> <<>>]]
        /\ running = [q \in Queues |-> NoJob]
        /\ lastDone = [q \in Queues |-> [p \in Pushers |-> 0]]

Submit(q, p, k) ==
    /\ pending' = [pending EXCEPT ![q][p] = Append(@, k)]
    /\ UNCHANGED <<running, lastDone>>

Start(q, p) ==
    /\ running[q] = NoJob
    /\ pending[q][p] # <<>>
    /\ running' = [running EXCEPT ![q] = <<p, Head(pending[q][p])>>]
    /\ pending' = [pending EXCEPT ![q][p] = Tail(@)]
    /\ UNCHANGED lastDone

Finish(q, p, k) ==
    /\ running[q] = <<p, k>>
    /\ running' = [running EXCEPT ![q] = NoJob]
    /\ lastDone' = [lastDone EXCEPT ![q][p] = k]
    /\ UNCHANGED pending

Next == \E q \in Queues, p \in Pushers :
            \/ Start(q, p)
            \/ \E k \in 1..MaxPush : Submit(q, p, k) \/ Finish(q, p, k)

Spec == Init /\ [][Next]_vars
===============================================================================
