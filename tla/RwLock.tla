-------------------------------- MODULE RwLock --------------------------------
(***************************************************************************)
(* A readers-writer lock as its users see it (Lock.h:15): either any       *)
(* number of readers hold it or one writer does.                           *)
(***************************************************************************)
CONSTANT Threads
VARIABLES readers, writers

vars == <<readers, writers>>

Init == readers = {} /\ writers = {}

AcquireRead(t) == /\ writers = {}
                  /\ readers' = readers \cup {t}
                  /\ UNCHANGED writers

AcquireWrite(t) == /\ writers = {} /\ readers = {}
                   /\ writers' = {t}
                   /\ UNCHANGED readers

Release(t) == /\ t \in readers \cup writers
              /\ readers' = readers \ {t}
              /\ writers' = writers \ {t}

Next == \E t \in Threads : AcquireRead(t) \/ AcquireWrite(t) \/ Release(t)

Spec == Init /\ [][Next]_vars
===============================================================================
