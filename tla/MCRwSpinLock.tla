----------------------------- MODULE MCRwSpinLock -----------------------------
(* An instance of RwSpinLock for TLC, with as many threads as the reader   *)
(* count can hold.                                                         *)
EXTENDS RwSpinLock
===============================================================================
