---------------------------- MODULE MCDummyClient ----------------------------
(* An instance of DummyClient for TLC.                                     *)
EXTENDS DummyClient
===============================================================================
