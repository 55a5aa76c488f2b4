---------------------------- MODULE MCAsyncClient ----------------------------
(* AsyncClient on three calls: one may use every interface, one those that *)
(* report a failure by the handler and build the parameters, and one the   *)
(* plain one.                                                              *)
EXTENDS AsyncClient

CONSTANTS c1, c2, c3

EveryInterface ==
    [c \in Calls |-> CASE c = c1 -> AllApis
                       [] c = c2 -> {"call_server_asynch", "call_asynch"}
                       [] OTHER -> {"start_rpc"}]

PlainInterface == [c \in Calls |-> {"start_rpc"}]
=============================================================================
