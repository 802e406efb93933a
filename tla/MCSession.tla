------------------------------ MODULE MCSession ------------------------------
(* The instance of Session for TLC.                                        *)
EXTENDS Session
===============================================================================
