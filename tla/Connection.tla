----------------------------- MODULE Connection -----------------------------
(***************************************************************************)
(* What a session promises the code that uses it: one connection with at   *)
(* most one notice of its opening and one of its end, over which the       *)
(* buffers leave in the order they were accepted, none twice and none      *)
(* skipped.  A connection the service refuses ends without having opened.  *)
(* A send that fails with an error nobody acts upon breaks the promise     *)
(* about the buffers, never the one about the notices.                     *)
(***************************************************************************)
EXTENDS Naturals

CONSTANT MaxBuf  \* bound: buffers given to SendAsync

VARIABLES opened,    \* OnConnected has been called
          ended,     \* OnDisconnected has been called
          accepted,  \* buffers taken by SendAsync
          sent,      \* how many of them, from the first on, have been handed to the network
          broken     \* a send has failed and the connection has been left as it was

vars == <<opened, ended, accepted, sent, broken>>

Init == opened = FALSE /\ ended = FALSE /\ accepted = 0 /\ sent = 0 /\ broken = FALSE

Open == /\ ~opened /\ ~ended
        /\ opened' = TRUE
        /\ UNCHANGED <<ended, accepted, sent, broken>>

End == /\ ~ended
       /\ ended' = TRUE
       /\ UNCHANGED <<opened, accepted, sent, broken>>

Accept == /\ opened /\ accepted < MaxBuf
          /\ accepted' = accepted + 1
          /\ UNCHANGED <<opened, ended, sent, broken>>

Transmit == /\ ~broken
            /\ sent' \in (sent + 1)..accepted
            /\ UNCHANGED <<opened, ended, accepted, broken>>

\* From here on nothing is promised about what is sent.
Break == /\ opened /\ ~broken
         /\ broken' = TRUE
         /\ sent' = 0
         /\ UNCHANGED <<opened, ended, accepted>>

Next == Open \/ End \/ Accept \/ Transmit \/ Break

Spec == Init /\ [][Next]_vars
=============================================================================
