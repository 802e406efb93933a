----------------------------- MODULE MCListener -----------------------------
(* Two accept events and sessions, two IO threads, three clients.           *)
EXTENDS Listener
=============================================================================
