----------------------------- MODULE AsyncClient -----------------------------
(***************************************************************************)
(* The asynchronous calls of the XML-RPC client library: the functions     *)
(* that start a call (src/xmlrpc_client.c and, for the one global client,  *)
(* src/xmlrpc_client_global.c) and the two transports that carry it, libwww *)
(* and curl (lib/libwww_transport, lib/curl_transport).                    *)
(*                                                                         *)
(* The program has one thread.  It creates the client, starts calls, waits *)
(* for them, with or without a time limit, and makes synchronous calls.    *)
(* Each call has a response handler; the library calls it when the call    *)
(* ends, and most of the interface also calls it, from inside the start    *)
(* function, to report that the call could not be started.  A handler may  *)
(* start calls, so handlers nest: the stack holds the calls whose handlers *)
(* are running, the innermost first.  client_global.h forbids a            *)
(* synchronous call in a handler, and no handler here waits.               *)
(*                                                                         *)
(* A call owns a record (xmlrpc_call_info), whose data holder has a        *)
(* reference to the parameter array.  A format interface builds that array *)
(* and has a reference of its own until it returns.  References of the     *)
(* program to an array it passes are its own affair and not counted.       *)
(***************************************************************************)
EXTENDS Naturals, Sequences, FiniteSets

CONSTANTS Calls,      \* the calls the program makes
          Apis,       \* the interfaces it may start each of them with
          Transports  \* the transports the library is built with

(* The interfaces on the global client; the others are given a client.     *)
Global == {"call_server_asynch_params", "call_asynch_params",
           "call_server_asynch", "call_asynch"}

(* The interfaces that build the parameter array from a format.            *)
Formatted == {"start_rpcf", "call_server_asynch", "call_asynch"}

AllApis == Global \cup {"start_rpc", "start_rpcf"}

ASSUME CallsFinite == IsFiniteSet(Calls)
ASSUME ApisKnown == Apis \in [Calls -> SUBSET AllApis]
ASSUME TransportsKnown == Transports \subseteq {"libwww", "curl"}

VARIABLES
    transport,    \* clientTransportOps of the client
    where,        \* what the program is in: no client, its own code, a wait
    api,          \* the interface each call was started with
    fault,        \* why a call could not be started
    st,           \* the life of each call
    called,       \* how often its handler has been called
    info,         \* its xmlrpc_call_info
    refs,         \* references the library holds to its parameter array
    keeps,        \* calls whose start function releases one when it returns
    stack,        \* calls whose handlers are running, innermost first
    nested,       \* calls that handlers have started since a wait began
    outstanding,  \* libwww: outstanding_asynch_calls
    stop,         \* libwww: HTEndLoop.  curl: the deadline has passed
    syncDone,     \* libwww: is_done of the synchronous call
    phase,        \* curl: what the wait does next
    finished,     \* curl: transfers whose "done" message is queued
    running,      \* curl: *rpcStillRunningP
    failed        \* curl: the wait was given up

callVars == <<api, fault, st, called, info, refs, keeps>>
libwwwVars == <<outstanding, stop, syncDone>>
curlVars == <<phase, finished, running, failed>>
vars == <<transport, where, callVars, stack, nested, libwwwVars, curlVars>>

Pending == {c \in Calls : st[c] = "pending"}

Exists == where # "absent"
Idle == where = "app" /\ stack = <<>>
(* The program's own code runs: outside of any wait, or in a handler.      *)
InProgram == where \in {"absent", "app"} \/ stack # <<>>

Counted == transport = "libwww"

Init ==
    /\ transport \in Transports
    /\ where = "absent"
    /\ api = [c \in Calls |-> "none"]
    /\ fault = [c \in Calls |-> "none"]
    /\ st = [c \in Calls |-> "new"]
    /\ called = [c \in Calls |-> 0]
    /\ info = [c \in Calls |-> "none"]
    /\ refs = [c \in Calls |-> 0]
    /\ keeps = {}
    /\ stack = <<>>
    /\ nested = {}
    /\ outstanding = 0
    /\ stop = FALSE
    /\ syncDone = FALSE
    /\ phase = "work"
    /\ finished = {}
    /\ running = FALSE
    /\ failed = FALSE

-----------------------------------------------------------------------------
(* The client object.                                                      *)

(* xmlrpc_client_init2.  A failure leaves no client.                       *)
Create ==
    /\ where = "absent"
    /\ stack = <<>>
    /\ where' = "app"
    /\ UNCHANGED <<transport, callVars, stack, nested, libwwwVars, curlVars>>

(* xmlrpc_client_cleanup.  "A condition of destroying the transport is that *)
(* there be no outstanding RPCs" (xmlrpc_curl_transport.c:1031).           *)
Destroy ==
    /\ Idle
    /\ Pending = {}
    /\ where' = "absent"
    /\ UNCHANGED <<transport, callVars, stack, nested, libwwwVars, curlVars>>

-----------------------------------------------------------------------------
(* Starting a call.                                                        *)

Unregister ==
    /\ outstanding' = outstanding - 1
    /\ stop' = (stop \/ outstanding = 1)

(* Mutant: a call is registered only once its transfer has started. *)
MutantLateRegister ==
    /\ outstanding' = outstanding - 1
    /\ stop' = (stop \/ outstanding = 1)

(* Mutant: a transfer that could not be started stays registered. *)
MutantStaysRegistered ==
    /\ outstanding' = outstanding + 1
    /\ UNCHANGED stop

(* register_asynch_call and unregister_asynch_call within one call.        *)
RegisterInVain ==
    /\ stop' = (stop \/ outstanding = 0)
    /\ UNCHANGED outstanding

(* Mutant: the holder takes no reference to the array. *)
MutantNoHolderRef(a) == IF a = "call_asynch" THEN 1 ELSE 0

(* The holder's reference, and the one that xmlrpc_client_call_asynch      *)
(* never releases.                                                         *)
RefsOfPending(a) == IF a = "call_asynch" THEN 2 ELSE 1

(* sendRequest leaves the call to the transport.                           *)
StartAccepted(c, a) ==
    /\ InProgram
    /\ Exists
    /\ st[c] = "new"
    /\ st' = [st EXCEPT ![c] = "pending"]
    /\ api' = [api EXCEPT ![c] = a]
    /\ info' = [info EXCEPT ![c] = "live"]
    /\ refs' = [refs EXCEPT ![c] = RefsOfPending(a)]
    /\ nested' = IF stack = <<>> THEN nested ELSE nested \cup {c}
    /\ outstanding' = IF Counted THEN outstanding + 1 ELSE outstanding
    /\ UNCHANGED <<transport, where, fault, called, keeps, stack,
                   stop, syncDone, curlVars>>

(* libwww ends the request, well or not, inside HTPostAnchor: the handler  *)
(* runs before the start function has returned.                            *)
StartAnsweredAtOnce(c, a) ==
    /\ InProgram
    /\ Exists
    /\ Counted
    /\ st[c] = "new"
    /\ st' = [st EXCEPT ![c] = "completing"]
    /\ api' = [api EXCEPT ![c] = a]
    /\ called' = [called EXCEPT ![c] = @ + 1]
    /\ info' = [info EXCEPT ![c] = "live"]
    /\ refs' = [refs EXCEPT ![c] = IF a \in Formatted THEN 2 ELSE 1]
    /\ keeps' = IF a \in Formatted \ {"call_asynch"} THEN keeps \cup {c} ELSE keeps
    /\ stack' = <<c>> \o stack
    /\ RegisterInVain
    /\ UNCHANGED <<transport, where, fault, nested, syncDone, curlVars>>

(* What can go wrong: no client; the server object, the parameters or what *)
(* follows them in the format; the XML; the holder; the transport's own    *)
(* objects; the start of the transfer.  (That start_rpcf also fails when   *)
(* the server object cannot be made is left out: see the README.)          *)
Faults(a) ==
    {"xml", "data", "create", "post"}
        \cup (IF a \in Global THEN {"absent"} ELSE {})
        \cup (IF a \in Formatted THEN {"build", "junk"} ELSE {})
        \cup (IF a \in {"call_asynch_params", "call_asynch"} THEN {"info"} ELSE {})

(* Of these, what is found before the client is looked for.                *)
BeforeClient(a) ==
    CASE a = "call_server_asynch" -> {"build", "junk"}
      [] a = "call_asynch_params" -> {"info"}
      [] OTHER -> {}

CanFail(a, f) ==
    /\ f \in Faults(a)
    /\ IF Exists THEN f # "absent"
       ELSE a \in Global /\ f \in BeforeClient(a) \cup {"absent"}

(* The array exists when the failure is reported, ...                      *)
Built(a, f) ==
    a \in Formatted /\ f # "build" /\ ~(a = "call_asynch" /\ f = "absent")

(* ... and is released then, later by the function that built it, or never. *)
KeepsDuringReport(a, f) == a = "call_server_asynch" /\ Built(a, f) /\ f # "junk"
Forgets(a, f) == a = "call_asynch" /\ Built(a, f)

(* Mutant: start_rpc does not free the record when rpcCreate fails. *)
MutantKeepsUnsent(f) ==
    CASE f \in {"xml", "create"} -> "live"
      [] f \in {"data", "post"} -> "freed"
      [] OTHER -> "none"

(* call_info_new loses the record it has made when the XML fails.          *)
InfoAfter(f) ==
    CASE f = "xml" -> "live"
      [] f \in {"data", "create", "post"} -> "freed"
      [] OTHER -> "none"

(* The start function fails.  The interfaces with an environment argument  *)
(* say so there; the global ones call the handler, and the array that they *)
(* have built stays until it returns.                                      *)
StartFails(c, a, f) ==
    /\ InProgram
    /\ st[c] = "new"
    /\ CanFail(a, f)
    /\ api' = [api EXCEPT ![c] = a]
    /\ fault' = [fault EXCEPT ![c] = f]
    /\ info' = [info EXCEPT ![c] = InfoAfter(f)]
    /\ refs' = [refs EXCEPT ![c] =
                  IF KeepsDuringReport(a, f) \/ Forgets(a, f) THEN 1 ELSE 0]
    /\ keeps' = IF KeepsDuringReport(a, f) THEN keeps \cup {c} ELSE keeps
    /\ IF a \in Global
       THEN /\ st' = [st EXCEPT ![c] = "erring"]
            /\ called' = [called EXCEPT ![c] = @ + 1]
            /\ stack' = <<c>> \o stack
       ELSE /\ st' = [st EXCEPT ![c] = "refused"]
            /\ UNCHANGED <<called, stack>>
    /\ IF Counted /\ f = "post"
       THEN RegisterInVain
       ELSE UNCHANGED <<outstanding, stop>>
    /\ UNCHANGED <<transport, where, nested, syncDone, curlVars>>

-----------------------------------------------------------------------------
(* Handlers.                                                               *)

(* complete() of the transport: asynchComplete calls the handler.          *)
Complete(c) ==
    /\ st' = [st EXCEPT ![c] = "completing"]
    /\ called' = [called EXCEPT ![c] = @ + 1]
    /\ stack' = <<c>> \o stack
    /\ UNCHANGED <<api, fault, info, refs, keeps>>

(* asynchComplete frees the record, with the holder's reference; a start   *)
(* function that was waiting for the handler returns.                      *)
HandlerReturns ==
    /\ stack # <<>>
    /\ LET c == Head(stack)
           done == st[c] = "completing"
       IN /\ st' = [st EXCEPT ![c] = "done"]
          /\ info' = IF done THEN [info EXCEPT ![c] = "freed"] ELSE info
          /\ refs' = [refs EXCEPT ![c] =
                        @ - (IF done THEN 1 ELSE 0) - (IF c \in keeps THEN 1 ELSE 0)]
          /\ keeps' = keeps \ {c}
    /\ stack' = Tail(stack)
    /\ UNCHANGED <<transport, where, api, fault, called, nested,
                   libwwwVars, curlVars>>

-----------------------------------------------------------------------------
(* Waiting: xmlrpc_client_event_loop_finish and ..._finish_timeout.        *)

(* eventLoopRun returns at once when no call is registered; the curl       *)
(* transport always goes round its loop.                                   *)
StartWait(w) ==
    /\ Idle
    /\ Counted => outstanding > 0
    /\ where' = w
    /\ nested' = {}
    /\ stop' = FALSE
    /\ phase' = "work"
    /\ running' = TRUE
    /\ failed' = FALSE
    /\ UNCHANGED <<transport, callVars, stack, outstanding, syncDone, finished>>

(* The time limit, for both transports.                                    *)
TimerFires ==
    /\ where = "timed"
    /\ stack = <<>>
    /\ ~stop
    /\ stop' = TRUE
    /\ UNCHANGED <<transport, where, callVars, stack, nested, outstanding,
                   syncDone, curlVars>>

(* libwww: asynch_terminate_handler, in any run of the event loop.  The    *)
(* loop looks at its end flag once per round, so a request may still end   *)
(* after the flag is set.                                                  *)
RequestEnds(c) ==
    /\ Counted
    /\ where \in {"finish", "timed", "sync"}
    /\ stack = <<>>
    /\ st[c] = "pending"
    /\ Unregister
    /\ Complete(c)
    /\ UNCHANGED <<transport, where, nested, syncDone, curlVars>>

(* Mutant: HTEventList_newLoop is trusted to return only for the flag. *)
MutantLoopReturns ==
    /\ Counted
    /\ where \in {"finish", "timed"}
    /\ stack = <<>>
    /\ where' = "app"
    /\ UNCHANGED <<transport, callVars, stack, nested, libwwwVars, curlVars>>

LoopEnds ==
    /\ Counted
    /\ where \in {"finish", "timed"}
    /\ stack = <<>>
    /\ stop
    /\ where' = "app"
    /\ UNCHANGED <<transport, callVars, stack, nested, libwwwVars, curlVars>>

(* libwww: a synchronous call runs the same event loop (call).             *)
StartSync ==
    /\ Counted
    /\ Idle
    /\ where' = "sync"
    /\ nested' = {}
    /\ stop' = FALSE
    /\ syncDone' = FALSE
    /\ failed' = FALSE
    /\ UNCHANGED <<transport, callVars, stack, outstanding, phase, finished, running>>

(* Mutant: the end of the synchronous call stops the loop and no more. *)
MutantNotDone ==
    /\ where = "sync"
    /\ stack = <<>>
    /\ ~syncDone
    /\ stop' = TRUE
    /\ UNCHANGED <<transport, where, callVars, stack, nested, outstanding,
                   syncDone, curlVars>>

(* synch_terminate_handler.                                                *)
SyncEnds ==
    /\ where = "sync"
    /\ stack = <<>>
    /\ ~syncDone
    /\ syncDone' = TRUE
    /\ stop' = TRUE
    /\ UNCHANGED <<transport, where, callVars, stack, nested, outstanding, curlVars>>

(* The loop ends for this call or for another reason: then it runs again.  *)
SyncLoopEnds ==
    /\ where = "sync"
    /\ stack = <<>>
    /\ stop
    /\ IF syncDone
       THEN where' = "app" /\ UNCHANGED stop
       ELSE stop' = FALSE /\ UNCHANGED where
    /\ UNCHANGED <<transport, callVars, stack, nested, outstanding, syncDone, curlVars>>

-----------------------------------------------------------------------------
(* curl: finishCurlSessions, whose loop waits for work, does it, and ends   *)
(* the calls whose transfers are over.                                     *)

InCurlWait == transport = "curl" /\ where \in {"finish", "timed"} /\ stack = <<>>

(* select or curl_multi_perform fails: finishAsynch writes to stderr and   *)
(* returns.                                                                *)
CurlGivesUp ==
    /\ InCurlWait
    /\ phase = "work"
    /\ failed' = TRUE
    /\ where' = "app"
    /\ UNCHANGED <<transport, callVars, stack, nested, libwwwVars,
                   phase, finished, running>>

(* waitForWork and curlMulti_perform: the transfers in over end, and the   *)
(* number of the others is taken.                                          *)
CurlPerform(over) ==
    /\ InCurlWait
    /\ phase = "work"
    /\ finished' = finished \cup over
    /\ running' = (Pending \ finished' # {})
    /\ phase' = "messages"
    /\ UNCHANGED <<transport, where, callVars, stack, nested, libwwwVars, failed>>

(* Mutant: the handle is not removed, and its message comes again. *)
MutantMessageStays(c) ==
    /\ InCurlWait
    /\ phase = "messages"
    /\ c \in finished
    /\ Complete(c)
    /\ UNCHANGED <<transport, where, nested, libwwwVars, curlVars>>

(* processCurlMessages, one message: finishCurlTransaction.                *)
CurlMessage(c) ==
    /\ InCurlWait
    /\ phase = "messages"
    /\ c \in finished
    /\ finished' = finished \ {c}
    /\ Complete(c)
    /\ UNCHANGED <<transport, where, nested, libwwwVars, phase, running, failed>>

(* The queue is empty: the loop ends or goes round again.                  *)
CurlTurn ==
    /\ InCurlWait
    /\ phase = "messages"
    /\ finished = {}
    /\ IF running /\ ~(where = "timed" /\ stop)
       THEN phase' = "work" /\ UNCHANGED where
       ELSE where' = "app" /\ UNCHANGED phase
    /\ UNCHANGED <<transport, callVars, stack, nested, libwwwVars,
                   finished, running, failed>>

-----------------------------------------------------------------------------
Start(c, a) ==
    \/ StartAccepted(c, a)
    \/ StartAnsweredAtOnce(c, a)
    \/ \E f \in Faults(a) : StartFails(c, a, f)

Library ==
    \/ \E c \in Calls : RequestEnds(c) \/ CurlMessage(c)
    \/ LoopEnds
    \/ SyncEnds
    \/ SyncLoopEnds
    \/ CurlGivesUp
    \/ \E over \in SUBSET (Pending \ finished) : CurlPerform(over)
    \/ CurlTurn
    \/ TimerFires

Next ==
    \/ Create
    \/ Destroy
    \/ \E c \in Calls : \E a \in Apis[c] : Start(c, a)
    \/ HandlerReturns
    \/ \E w \in {"finish", "timed"} : StartWait(w)
    \/ StartSync
    \/ Library

Spec == Init /\ [][Next]_vars

(* Handlers return, every transfer ends, a timer fires, and the loops go   *)
(* on: that is what libwww, curl and the system provide.  The program need *)
(* not do anything.                                                        *)
Fairness ==
    /\ WF_vars(HandlerReturns)
    /\ WF_vars(\E c \in Calls : RequestEnds(c))
    /\ WF_vars(LoopEnds)
    /\ WF_vars(SyncEnds)
    /\ WF_vars(SyncLoopEnds)
    /\ WF_vars(TimerFires)
    /\ WF_vars(\E over \in SUBSET (Pending \ finished) : CurlPerform(over))
    /\ SF_vars(\E over \in SUBSET (Pending \ finished) \ {{}} : CurlPerform(over))
    /\ WF_vars(\E c \in Calls : CurlMessage(c))
    /\ WF_vars(CurlTurn)

FairSpec == Spec /\ Fairness

-----------------------------------------------------------------------------
TypeOK ==
    /\ transport \in {"libwww", "curl"}
    /\ where \in {"absent", "app", "finish", "timed", "sync"}
    /\ api \in [Calls -> AllApis \cup {"none"}]
    /\ fault \in [Calls -> {"none", "absent", "build", "junk", "info",
                            "xml", "data", "create", "post"}]
    /\ st \in [Calls -> {"new", "pending", "completing", "erring", "done", "refused"}]
    /\ called \in [Calls -> Nat]
    /\ info \in [Calls -> {"none", "live", "freed"}]
    /\ refs \in [Calls -> 0..2]
    /\ keeps \subseteq Calls
    /\ stack \in Seq(Calls)
    /\ nested \subseteq Calls
    /\ outstanding \in Nat
    /\ stop \in BOOLEAN
    /\ syncDone \in BOOLEAN
    /\ phase \in {"work", "messages"}
    /\ finished \subseteq Calls
    /\ running \in BOOLEAN
    /\ failed \in BOOLEAN

(* A call's handler is called once, when the call ends or when it could    *)
(* not be started, and never for a call that was refused by a fault        *)
(* (xmlrpc_client_global.c, asynchComplete).                               *)
HandledOnce ==
    \A c \in Calls :
        called[c] = IF st[c] \in {"completing", "erring", "done"} THEN 1 ELSE 0

(* libwww's counter is the number of requests under way: it decides when a *)
(* wait ends (register_asynch_call, unregister_asynch_call).               *)
CountExact == outstanding = IF Counted THEN Cardinality(Pending) ELSE 0

(* A call that is under way, or whose handler runs with its answer, has    *)
(* its record and its parameters (call_info_set_asynch_data).              *)
ParamsAlive ==
    \A c \in Calls :
        st[c] \in {"pending", "completing"} => info[c] = "live" /\ refs[c] >= 1

(* What a call that is over leaves behind: the record of a call that could *)
(* not be serialised, the array xmlrpc_client_call_asynch has built, and   *)
(* nothing else.                                                           *)
LeaksExplained ==
    \A c \in Calls :
        st[c] \in {"done", "refused"} =>
            /\ info[c] = "live" <=> fault[c] = "xml"
            /\ refs[c] = IF Forgets(api[c], fault[c]) THEN 1 ELSE 0

(* Every wait ends: the calls it waits for do, or the time is up.          *)
WaitsEnd == where \in {"finish", "timed", "sync"} ~> where = "app"

(* To the program the library is AsyncCalls.  A call that could not be     *)
(* started is answered when its handler is called; a wait with a time      *)
(* limit, or for a synchronous call, is no wait there.                     *)
AbstractStatus ==
    [c \in Calls |->
        CASE st[c] = "new" -> "new"
          [] st[c] = "pending" -> "open"
          [] st[c] = "refused" -> "refused"
          [] OTHER -> "answered"]

AsyncSpec == INSTANCE AsyncCalls
    WITH status <- AbstractStatus, waiting <- (where = "finish"),
         fresh <- nested, broken <- failed

ImplementsCalls == AsyncSpec!Spec

(* "Return when there are no more outstanding responses"                   *)
(* (xmlrpc_libwww_transport.c:742): a wait without a time limit ends only  *)
(* when no call is under way.                                              *)
FinishCompletesAll ==
    [][where = "finish" /\ where' = "app" => Pending = {}]_vars
=============================================================================
