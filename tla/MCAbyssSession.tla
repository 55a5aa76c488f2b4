---------------------------- MODULE MCAbyssSession ----------------------------
(* Requests for AbyssSession. *)
EXTENDS AbyssSession

NoFields == [name \in {} |-> ""]

Req(method, uri, version, fields) ==
    [error |-> 0, method |-> method, uri |-> uri, version |-> version,
     query |-> "ok", fields |-> fields]

Keep   == [connection |-> "keep-alive"]
Close  == [connection |-> "close"]
V10    == <<1, 0>>
V11    == <<1, 1>>
Get(uri)  == Req("GET", uri, V11, NoFields)
HeadOf(uri) == Req("HEAD", uri, V11, NoFields)

RpcFields == ("content-type" :> "text/xml") @@ ("content-length" :> "3")
Call(version, fields) == Req("POST", "/RPC2", version, RpcFields @@ fields)

MCHandlers == <<[uriPath |-> "/RPC2", chunkResponse |-> FALSE],
                [uriPath |-> "/RPC3", chunkResponse |-> TRUE]>>

(* What clients of the XML-RPC server send, and what it has to refuse. *)
RpcRequests ==
    {Call(V11, NoFields), Call(V11, Close), Call(V10, NoFields),
     Call(V10, Keep), Call(<<2, 0>>, NoFields),
     [Call(V11, NoFields) EXCEPT !.uri = "/RPC3"],
     [Call(V10, Keep) EXCEPT !.uri = "/RPC3"],
     Req("POST", "/RPC2", V11, "content-length" :> "3"),
     Req("POST", "/RPC2", V11, "content-type" :> "text/xml"),
     Req("POST", "/RPC2", V11, ("content-type" :> "text/xml") @@
                               ("content-length" :> "bad")),
     Req("POST", "/RPC2", <<>>, NoFields),
     Get("/RPC2"), HeadOf("/RPC2"), Get("/f"), Req("OPTIONS", "*", V11, NoFields),
     Get("*"), Get("/a*"),
     [Get("/f") EXCEPT !.error = 400], [Call(V11, NoFields) EXCEPT !.error = 408]}

Ims(date)   == "if-modified-since" :> date
Ranges(list) == "range" :> list
From(n)     == [form |-> "from", first |-> n]
Span(m, n)  == [form |-> "span", first |-> m, last |-> n]
Suffix(n)   == [form |-> "suffix", count |-> n]

(* What the file handler answers so that a client can follow. *)
FileRequests ==
    {Get("/f"), HeadOf("/f"), Req("GET", "/f", V10, Keep),
     Req("GET", "/f", V11, Ims("current")),
     Req("GET", "/f", V11, Ims("old") @@ Ranges(<<From(0)>>)),
     Req("GET", "/f", V11, Ims("garbled")),
     Req("GET", "/f", V11, Ranges(<<From(0)>>)),
     Req("GET", "/f", V11, Ranges(<<Span(1, 0)>>)),
     Req("GET", "/f", V11, Close @@ Ranges(<<From(0), Span(1, 0), Suffix(1)>>)),
     Get("/h/"), Get("/d/"), Req("HEAD", "/d/", V11, Close), Req("GET", "/d/", V10, NoFields),
     [Get("/d/") EXCEPT !.query = "bad"], Req("GET", "/d", V11, Close),
     Get("/n"), Get("/.."), Req("POST", "/f", V11, NoFields),
     Req("OPTIONS", "/f", V11, Close), Call(V11, NoFields)}

ASSUME FileRequestsFollowable == \A r \in FileRequests : Followable(r)

(***************************************************************************)
(* Sets of requests with which ResponsesDelimited fails, for use in place  *)
(* of FileRequests: responses without a length on a connection that lives. *)
(***************************************************************************)
OptionsRequests   == {Req("OPTIONS", "/f", V11, NoFields), Get("/f")}
HeadRequests      == {HeadOf("/d/"), Get("/f")}
RedirectRequests  == {Get("/d"), Get("/f")}
LongRangeRequests == {Req("GET", "/f", V11, Ranges(<<Span(0, 3)>>)), Get("/f")}
=============================================================================
