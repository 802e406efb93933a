------------------------- MODULE MCDeadlockDetector -------------------------
(* An instance for TLC of DeadlockDetector and of the search it relies on.   *)
(* The detector has three classes, one of them with two objects; the search  *)
(* is given every graph it can be given for four classes.  A behaviour is    *)
(* one of the detector or one of the search, the other half being at rest.   *)
EXTENDS DeadlockDetector, DeadlockDfs, TLC

CONSTANTS l1, l2, l3, l4, A, B, C

MCNameOf == l1 :> A @@ l2 :> B @@ l3 :> C @@ l4 :> C
Symmetry == Permutations(LockingThreads)

\* The process has ended.
DetectorRests ==
    /\ stack = [t \in LockingThreads |-> <<>>]
    /\ waiting = [t \in LockingThreads |-> FALSE]
    /\ mlockGraph = {}
    /\ ended = TRUE

\* CheckCycle has returned.
SearchRests ==
    /\ lockGraph = {}
    /\ mVisitHistory = [v \in Ids |-> 0] /\ mNextVisitOrder = LockCount
    /\ mDfsFinished = [v \in Ids |-> TRUE] /\ mParent = [v \in Ids |-> -1]
    /\ nextRoot = LockCount /\ frames = <<>> /\ unmet = [v \in Ids |-> {}]
    /\ walk = -1 /\ log = <<>> /\ outcome = "acyclic"

MCInit ==
    \/ DetInit /\ SearchRests
    \/ DfsInit /\ DetectorRests

MCNext ==
    \/ DetNext /\ UNCHANGED dfsVars
    \/ DfsNext /\ UNCHANGED detVars

MCSpec == MCInit /\ [][MCNext]_<<detVars, dfsVars>>
===============================================================================
