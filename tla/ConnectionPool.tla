--------------------------- MODULE ConnectionPool ----------------------------
(***************************************************************************)
(* What the connection manager of the Abyss server promises, without its   *)
(* list, its scans or its flags: while the server is up, an accepted       *)
(* connection waits until one of at most Limit workers takes it, or is     *)
(* refused; a worker closes its connection, once, before it is reaped;     *)
(* and the server goes down only when nobody waits and no worker is left.  *)
(***************************************************************************)
EXTENDS Integers, FiniteSets

CONSTANTS Worker, Socket, NoSocket, Limit

VARIABLES
    up,         \* the server is running
    waiting,    \* the accepted socket no worker has taken, or NoSocket
    state,      \* of each worker: "free", "busy" or "closed"
    serves      \* the socket a busy worker serves, else NoSocket

vars == <<up, waiting, state, serves>>

Taken == {w \in Worker : state[w] # "free"}

InUse(s) == s = waiting \/ \E w \in Worker : serves[w] = s

Init ==
    /\ up = FALSE
    /\ waiting = NoSocket
    /\ state = [w \in Worker |-> "free"]
    /\ serves = [w \in Worker |-> NoSocket]

Start ==
    /\ ~up
    /\ up' = TRUE
    /\ UNCHANGED <<waiting, state, serves>>

Accept(s) ==
    /\ up
    /\ waiting = NoSocket
    /\ ~InUse(s)
    /\ waiting' = s
    /\ UNCHANGED <<up, state, serves>>

Refuse ==
    /\ waiting # NoSocket
    /\ waiting' = NoSocket
    /\ UNCHANGED <<up, state, serves>>

Assign(w) ==
    /\ waiting # NoSocket
    /\ state[w] = "free"
    /\ Cardinality(Taken) < Limit
    /\ state' = [state EXCEPT ![w] = "busy"]
    /\ serves' = [serves EXCEPT ![w] = waiting]
    /\ waiting' = NoSocket
    /\ UNCHANGED up

Close(w) ==
    /\ state[w] = "busy"
    /\ state' = [state EXCEPT ![w] = "closed"]
    /\ serves' = [serves EXCEPT ![w] = NoSocket]
    /\ UNCHANGED <<up, waiting>>

Reap(w) ==
    /\ state[w] = "closed"
    /\ state' = [state EXCEPT ![w] = "free"]
    /\ UNCHANGED <<up, waiting, serves>>

Stop ==
    /\ up
    /\ waiting = NoSocket
    /\ Taken = {}
    /\ up' = FALSE
    /\ UNCHANGED <<waiting, state, serves>>

Next ==
    \/ Start
    \/ Stop
    \/ Refuse
    \/ \E s \in Socket : Accept(s)
    \/ \E w \in Worker : Assign(w) \/ Close(w) \/ Reap(w)

Spec == Init /\ [][Next]_vars

(* Nobody waits for ever, and every worker ends its connection. *)
FairSpec ==
    /\ Spec
    /\ WF_vars(Refuse \/ \E w \in Worker : Assign(w))
    /\ \A w \in Worker : WF_vars(Close(w))
=============================================================================
