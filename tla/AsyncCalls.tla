------------------------------ MODULE AsyncCalls ------------------------------
(***************************************************************************)
(* What the asynchronous interface of the client library promises to the   *)
(* program that uses it, whatever transport carries the calls: a call that *)
(* is not refused at once is answered by one call of its response handler, *)
(* and by no second one.  A wait without a time limit ends when no call is *)
(* open, but for those that response handlers have started while the       *)
(* program was waiting.                                                    *)
(***************************************************************************)
CONSTANT Calls

VARIABLES status,   \* what the program knows of each call
          waiting,  \* the program is in a wait without a time limit
          fresh,    \* calls that handlers have started since the wait began
          broken    \* the wait (the last one, when there is none) was given up

vars == <<status, waiting, fresh, broken>>

Open == {c \in Calls : status[c] = "open"}

Init ==
    /\ status = [c \in Calls |-> "new"]
    /\ waiting = FALSE
    /\ fresh = {}
    /\ broken = FALSE

(* The program or, with nested = TRUE, a response handler starts a call.   *)
Start(c, nested) ==
    /\ status[c] = "new"
    /\ status' = [status EXCEPT ![c] = "open"]
    /\ fresh' = IF nested THEN fresh \cup {c} ELSE fresh
    /\ UNCHANGED <<waiting, broken>>

(* A call is refused by a return code, without its handler.                *)
Refuse(c) ==
    /\ status[c] = "new"
    /\ status' = [status EXCEPT ![c] = "refused"]
    /\ UNCHANGED <<waiting, fresh, broken>>

(* The handler is called: later, or while the call is being started.       *)
Answer(c) ==
    /\ status[c] \in {"new", "open"}
    /\ status' = [status EXCEPT ![c] = "answered"]
    /\ UNCHANGED <<waiting, fresh, broken>>

Wait ==
    /\ ~waiting
    /\ waiting' = TRUE
    /\ fresh' = {}
    /\ broken' = FALSE
    /\ UNCHANGED status

(* A wait with a time limit begins: the program is promised nothing of it. *)
Forget ==
    /\ ~waiting
    /\ fresh' = {}
    /\ broken' = FALSE
    /\ UNCHANGED <<status, waiting>>

(* The wait ends for want of calls, ...                                    *)
Return ==
    /\ waiting
    /\ Open \subseteq fresh
    /\ waiting' = FALSE
    /\ UNCHANGED <<status, fresh, broken>>

(* ... or because the transport gives up, and then it is known to be broken. *)
GiveUp ==
    /\ waiting' = FALSE
    /\ broken' = TRUE
    /\ UNCHANGED <<status, fresh>>

Next ==
    \/ \E c \in Calls :
          \/ \E nested \in BOOLEAN : Start(c, nested)
          \/ Refuse(c)
          \/ Answer(c)
    \/ Wait
    \/ Forget
    \/ Return
    \/ GiveUp

Spec == Init /\ [][Next]_vars
===============================================================================
