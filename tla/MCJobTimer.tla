----------------------------- MODULE MCJobTimer -----------------------------
(* Two loops of different periods, one of which may end.                   *)
EXTENDS JobTimer

CONSTANTS room, player

MCLoopMs == [l \in Loops |-> IF l = room THEN 2 ELSE 1]
=============================================================================
