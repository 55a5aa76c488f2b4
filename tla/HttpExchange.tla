----------------------------- MODULE HttpExchange -----------------------------
(***************************************************************************)
(* What an HTTP server promises on one connection, as its client sees it:  *)
(* requests are answered one at a time, each by one response that the      *)
(* client can tell from the next, and a connection on which the last       *)
(* response is an error or the Limit-th one carries no further request.    *)
(***************************************************************************)
EXTENDS Naturals

CONSTANT Limit      \* the most requests served on a connection

VARIABLES
    asked,      \* requests the server has begun to process
    got,        \* responses the client has
    last,       \* the status of the last one, 0 while it is outstanding
    up          \* another request may be served

vars == <<asked, got, last, up>>

Idle == asked = got

Init == asked = 0 /\ got = 0 /\ last = 0 /\ up = TRUE

Ask ==
    /\ up /\ Idle
    /\ asked' = asked + 1
    /\ last' = 0
    /\ UNCHANGED <<got, up>>

(* An error or the last response allowed ends the connection. *)
Respond ==
    /\ asked = got + 1
    /\ got' = got + 1
    /\ last' \in 200..599
    /\ up' \in {b \in BOOLEAN : b => last' < 400 /\ got' < Limit}
    /\ UNCHANGED asked

(* The server gives up waiting for a request. *)
Close == up /\ Idle /\ up' = FALSE /\ UNCHANGED <<asked, got, last>>

Terminated == ~up /\ Idle /\ UNCHANGED vars

Next == Ask \/ Respond \/ Close \/ Terminated

Spec == Init /\ [][Next]_vars

(* Every request that was begun is answered. *)
FairSpec == Spec /\ WF_vars(Respond)
=============================================================================
