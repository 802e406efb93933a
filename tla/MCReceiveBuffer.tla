--------------------------- MODULE MCReceiveBuffer ---------------------------
(* An instance of ReceiveBuffer for TLC.  Clear moves the backlog when more*)
(* than 8 of the 12 cells are full.  Packets of 2 and 3 bytes overlap their*)
(* copy only when they pile up unqueued; one of 6 bytes does so by itself. *)
EXTENDS ReceiveBuffer
===============================================================================
