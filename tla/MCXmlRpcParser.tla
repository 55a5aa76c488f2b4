---------------------------- MODULE MCXmlRpcParser ----------------------------
(* Documents for XmlRpcParser: good ones, and each with one thing wrong.   *)
EXTENDS XmlRpcParser

El(name, children) == [name |-> name, text |-> <<>>, children |-> children]
Tx(name, piece)    == [name |-> name, text |-> <<piece>>, children |-> <<>>]

Str(piece)    == Tx("value", piece)
Number(piece)    == El("value", <<Tx("int", piece)>>)
Nil           == El("value", <<El("nil", <<>>)>>)
Array(items)  == El("value", <<El("array", <<El("data", items)>>)>>)
Member(name, value) == El("member", <<Tx("name", name), value>>)
Struct(members) == El("value", <<El("struct", members)>>)
Param(value)  == El("param", <<value>>)
Params(values_) == El("params", [i \in DOMAIN values_ |-> Param(values_[i])])
Name          == Tx("methodName", "m")
Call(values_) == El("methodCall", <<Name, Params(values_)>>)
Response(value) == El("methodResponse", <<Params(<<value>>)>>)
FaultOf(value)  == El("methodResponse", <<El("fault", <<value>>)>>)

Split == [name |-> "value", text |-> <<"a", "b">>, children |-> <<>>]
Twice == Struct(<<Member("k", Str("a")), Member("l", Nil), Member("k", Number("b"))>>)
Code   == Member("faultCode", Number("a"))
String == Member("faultString", Str("b"))

GoodCalls ==
    {El("methodCall", <<Name>>), Call(<<>>), Call(<<Split, Number("a")>>),
     El("methodCall", <<Params(<<Nil>>), Name>>),
     Call(<<Array(<<Str("a"), Array(<<>>), Number("b")>>)>>),
     Call(<<Twice>>), Call(<<Struct(<<Member("k", Array(<<Nil>>))>>)>>)}

GoodResponses ==
    {Response(Str("a")), Response(Array(<<Twice, Str("a")>>)),
     FaultOf(Struct(<<Code, String>>)), FaultOf(Struct(<<String, Code, Code>>))}

(* Every document that differs from a good one in one element: another     *)
(* name, text no type takes, an element less, one twice, one too many.     *)
OtherNames == {"value", "data", "string", "methodResponse", "fault"}
Stray == Tx("x", "a")

RECURSIVE Wrong(_)
Wrong(e) ==
    LET n == Len(e.children)
        within(i) == {[e EXCEPT !.children[i] = w] : w \in Wrong(e.children[i])}
    IN  {[e EXCEPT !.name = other] : other \in OtherNames \ {e.name}}
        \cup {[e EXCEPT !.text = <<"a", "bad">>]}
        \cup {[e EXCEPT !.children = RemoveAt(@, i)] : i \in 1..n}
        \cup {[e EXCEPT !.children = Append(@, @[i])] : i \in 1..n}
        \cup {[e EXCEPT !.children = Append(@, Stray)]}
        \cup UNION {within(i) : i \in 1..n}

Deep(n) == FoldFunction(LAMBDA i, v : Array(<<v>>), Nil, [i \in 1..n |-> i])

(* NestingLimit is 3: arrays in arrays in arrays are one too many.  White  *)
(* space makes a document as long as the limit allows, or a byte longer.   *)
MCDocuments ==
    [purpose : {"call"}, length : {SizeLimit},
     root : GoodCalls \cup UNION {Wrong(d) : d \in GoodCalls}
                \cup {Call(<<Deep(n)>>) : n \in 1..3}]
    \cup [purpose : {"response"}, length : {SizeLimit},
          root : GoodResponses \cup UNION {Wrong(d) : d \in GoodResponses}]
    \cup [purpose : {"call"}, length : {SizeLimit + 1}, root : GoodCalls]
    \cup [purpose : {"response"}, length : {SizeLimit + 1}, root : GoodResponses]

(* What they are made of; an element lies at most 14 levels deep.  TLC     *)
(* looks things up quickly in a subset of a constant.                      *)
Deeper(elements) == elements \cup UNION {ToSet(e.children) : e \in elements}
Everything ==
    FoldFunction(LAMBDA i, found : Deeper(found),
                 {d.root : d \in MCDocuments}, [i \in 1..14 |-> i])
MCElements == {e \in Everything : TRUE}
=============================================================================
