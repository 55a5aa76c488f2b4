----------------------------- MODULE MCAbyssConn -----------------------------
(* Scripts for AbyssConn: what clients of an XML-RPC server send. *)
EXTENDS AbyssConn

Rpc      == <<"post", "LF", "type", "LF", "len2", "LF", "LF", "b", "b">>
RpcShort == <<"post", "LF", "len1", "LF", "type", "LF", "LF", "b">>
RpcLast  == <<"post", "LF", "type", "LF", "len1", "LF", "close", "LF", "LF",
              "b">>
Folded   == <<"post", "LF", "type", "LF", "SP", "LF", "len1", "LF", "LF", "b">>
NoLength == <<"post", "LF", "type", "LF", "LF">>
NoType   == <<"post", "LF", "len1", "LF", "LF", "b">>
Get      == <<"get", "LF", "x", "LF", "LF">>
Garbled  == <<"post", "LF", "SP", "LF", "b", "LF", "LF">>
TooLong  == <<"post", "LF", "x", "LF", "x", "LF", "type", "LF", "x", "LF",
              "len1", "LF", "LF", "b">>
Padded   == <<"LF", "post", "LF", "type", "LF", "len1", "LF", "LF", "b">>

MCScripts ==
    {<<Rpc, RpcShort, RpcShort>>, <<RpcShort, RpcLast, Rpc>>,
     <<Folded, Padded>>, <<Padded, Get>>, <<RpcShort, NoLength>>, <<NoType>>,
     <<Garbled>>, <<TooLong>>, <<RpcShort, Garbled>>}

=============================================================================
