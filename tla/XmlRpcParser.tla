----------------------------- MODULE XmlRpcParser -----------------------------
(***************************************************************************)
(* How a call or a response becomes values: the tree of XML elements that  *)
(* expat's events build (xmlrpc_expat.c), and xmlrpc_parse_call and        *)
(* xmlrpc_parse_response2 (xmlrpc_parse.c), which turn it into values with *)
(* counted references.  XmlRpcGrammar says what a document means.          *)
(*                                                                         *)
(* At any event expat may find that the document is not XML.  Allocations  *)
(* fail at the places in Scarce:                                           *)
(*   "parser"   expat's parser             "value"    an xmlrpc_value      *)
(*   "element"  an xml_element             "array"    one for build_value  *)
(*   "child"    room for a child element   "contents" its memory block     *)
(*   "text"     room for text              "append"   room for an item     *)
(*   "close"    room for the final NUL     "string"   a method's name or a *)
(*                                                    fault's string       *)
(***************************************************************************)
EXTENDS XmlRpcGrammar, ReferenceCounts

CONSTANTS
    Documents,  \* what arrives: [purpose, root, length]
    SizeLimit,  \* xmlrpc_limit_get(XMLRPC_XML_SIZE_LIMIT_ID)
    Scarce

ASSUME DocumentsAssumption ==
    Documents \subseteq [purpose : {"call", "response"}, root : Elements,
                         length : Nat]
ASSUME SizeAssumption == SizeLimit \in Nat
ASSUME ScarceAssumption ==
    Scarce \subseteq {"parser", "element", "child", "text", "close",
                      "value", "array", "contents", "append", "string"}

VARIABLES
    document,
    pc,         \* "start", "expat", "tree", "convert", "ending", "done"
    reading,    \* what expat has still to read of each open element,
                \* the document itself first
    nodes,      \* the live xml_elements, by address
    rootP, currentP, barfed,    \* parseContext; barfed is its env
    values,     \* the live xmlrpc_values, by address
    frames,     \* convert_params, _array and _struct under way
    returned,   \* the value convert_value has returned
    releasing,  \* what xmlrpc_DECREF has still to count down
    fault,      \* envP
    methodName, result,
    ranOut,     \* an allocation failed
    misused     \* memory was freed or counted down again after it was
                \* freed, or counted down when there was none

treeVars  == <<reading, nodes, rootP, currentP, barfed>>
valueVars == <<values, frames, returned, releasing>>
flags     == <<fault, ranOut, misused>>
outVars   == <<methodName, result>>
vars      == <<document, pc, treeVars, valueVars, flags, outVars>>

NoName == <<"(none)">>
Refused == [kind |-> "refused"]

Unused(heap) == CHOOSE a \in 1..(Cardinality(DOMAIN heap) + 1) :
                    a \notin DOMAIN heap

RunsOut(site) == site \in Scarce /\ ranOut' = TRUE
-----------------------------------------------------------------------------
(* xml_parse and expat's handlers.                                         *)

(* What is to be read of an element, or of the document.                   *)
Unread(text, children) == [text |-> text, children |-> children]
Innermost == Last(reading)
AllRead == reading = <<Unread(<<>>, <<>>)>>

(* xml_element_free: an element and all below it.                          *)
Subtree(heap, e) ==
    LET Levels[n \in Nat] ==
            IF n = 0 THEN {e}
            ELSE {e} \cup UNION {ToSet(heap[a].children) : a \in Levels[n - 1]}
    IN  Levels[Cardinality(DOMAIN heap)]

FreeTree == IF rootP = None THEN nodes ELSE Without(nodes, Subtree(nodes, rootP))

Init ==
    /\ document \in Documents
    /\ pc = "start"
    /\ reading = <<>> /\ nodes = <<>> /\ values = <<>> /\ frames = <<>>
    /\ rootP = None /\ currentP = None /\ returned = None /\ releasing = <<>>
    /\ barfed = FALSE /\ fault = FALSE /\ ranOut = FALSE /\ misused = FALSE
    /\ methodName = NoName /\ result = Refused

(* The parse ends without a tree.                                          *)
GiveUp == pc' = "done" /\ fault' = TRUE

(* xmlrpc_parse_call and xmlrpc_parse_response2 look at the length first.  *)
Oversized == document.length > SizeLimit

TooLarge ==
    /\ pc = "start" /\ Oversized
    /\ GiveUp
    /\ UNCHANGED <<document, treeVars, valueVars, ranOut, misused, outVars>>

CreateParser ==
    /\ pc = "start" /\ ~Oversized
    /\ \/ RunsOut("parser") /\ GiveUp /\ UNCHANGED reading
       \/ /\ pc' = "expat"
          /\ reading' = <<Unread(<<>>, <<document.root>>)>>
          /\ UNCHANGED <<fault, ranOut>>
    /\ UNCHANGED <<document, nodes, rootP, currentP, barfed, valueVars,
                   misused, outVars>>

(* A handler fails and undoes what was built so far.                       *)
HandlerFails(site) ==
    /\ RunsOut(site)
    /\ barfed' = TRUE
    /\ nodes' = FreeTree
    /\ UNCHANGED <<rootP, currentP>>

(* A handler of expat's leaves the rest alone.                             *)
Expat == UNCHANGED <<document, pc, valueVars, fault, outVars>>

(* Once a handler has failed the later calls do nothing.                   *)
Ignored == barfed /\ UNCHANGED <<nodes, rootP, currentP, barfed, ranOut>>

(* startElement.  When there is no room for it in its parent,              *)
(* xml_element_append_child frees it, and so does startElement.            *)
StartElement ==
    LET starting == Head(Innermost.children)
        e == Unused(nodes)
        element == [name |-> starting.name, parent |-> currentP,
                    text |-> <<>>, children |-> <<>>]
        grown == With(nodes, e, element)
    IN  /\ pc = "expat" /\ Innermost.children # <<>>
        /\ reading' =
               Append([reading EXCEPT ![Len(reading)].children = Tail(@)],
                      Unread(starting.text, starting.children))
        /\ \/ Ignored /\ UNCHANGED misused
           \/ ~barfed /\ HandlerFails("element") /\ UNCHANGED misused
           \/ /\ ~barfed /\ rootP # None /\ HandlerFails("child")
              /\ misused' = TRUE
           \/ /\ ~barfed /\ rootP = None
              /\ rootP' = e /\ currentP' = e
              /\ nodes' = grown
              /\ UNCHANGED <<barfed, ranOut, misused>>
           \/ /\ ~barfed /\ rootP # None
              /\ currentP' = e
              /\ nodes' = [grown EXCEPT ![currentP].children = Append(@, e)]
              /\ UNCHANGED <<rootP, barfed, ranOut, misused>>
        /\ Expat

(* Mutant: the tree is left to whoever looks at the fault.                 *)
MutantEndLeavesTree ==
    /\ pc = "expat" /\ Len(reading) > 1 /\ Innermost = Unread(<<>>, <<>>)
    /\ reading' = Front(reading)
    /\ \/ Ignored
       \/ /\ ~barfed /\ RunsOut("close")
          /\ barfed' = TRUE
          /\ UNCHANGED <<nodes, rootP, currentP>>
       \/ /\ ~barfed
          /\ currentP' = nodes[currentP].parent
          /\ UNCHANGED <<nodes, rootP, barfed, ranOut>>
    /\ UNCHANGED misused
    /\ Expat

(* endElement.                                                             *)
EndElement ==
    /\ pc = "expat" /\ Len(reading) > 1 /\ Innermost = Unread(<<>>, <<>>)
    /\ reading' = Front(reading)
    /\ \/ Ignored
       \/ ~barfed /\ HandlerFails("close")
       \/ /\ ~barfed
          /\ currentP' = nodes[currentP].parent
          /\ UNCHANGED <<nodes, rootP, barfed, ranOut>>
    /\ UNCHANGED misused
    /\ Expat

(* characterData, which leaves the tree when there is no room.             *)
CharacterData ==
    /\ pc = "expat" /\ Innermost.text # <<>>
    /\ reading' = [reading EXCEPT ![Len(reading)].text = Tail(@)]
    /\ \/ Ignored
       \/ /\ ~barfed /\ RunsOut("text")
          /\ barfed' = TRUE
          /\ UNCHANGED <<nodes, rootP, currentP>>
       \/ /\ ~barfed
          /\ nodes' = [nodes EXCEPT ![currentP].text = Append(@, Head(Innermost.text))]
          /\ UNCHANGED <<rootP, currentP, barfed, ranOut>>
    /\ UNCHANGED misused
    /\ Expat

(* XML_Parse returns.  If it has failed the tree is freed, unless a        *)
(* handler has done it.                                                    *)
NotXml ==
    /\ pc = "expat" /\ ~AllRead
    /\ nodes' = IF barfed THEN nodes ELSE FreeTree
    /\ GiveUp
    /\ UNCHANGED <<document, reading, rootP, currentP, barfed, valueVars,
                   ranOut, misused, outVars>>

EndOfXml ==
    /\ pc = "expat" /\ AllRead
    /\ \/ barfed /\ GiveUp
       \/ ~barfed /\ pc' = "tree" /\ UNCHANGED fault
    /\ UNCHANGED <<document, treeVars, valueVars, ranOut, misused, outVars>>
-----------------------------------------------------------------------------
(* Values and their references.                                            *)

(* xmlrpc_DECREF of several values, one count after the other.             *)
DecRefs(vs) == releasing' = vs

(* The last reference takes what the value holds with it.                  *)
Release ==
    LET v == Head(releasing)
        cell == values[v]
    IN  /\ releasing # <<>>
        /\ \/ /\ cell.refs > 1
              /\ values' = [values EXCEPT ![v].refs = @ - 1]
              /\ releasing' = Tail(releasing)
           \/ /\ cell.refs = 1
              /\ values' = Without(values, {v})
              /\ releasing' = cell.items \o Tail(releasing)
        /\ UNCHANGED <<document, pc, treeVars, frames, returned, flags, outVars>>

(* xmlrpc_build_value and xmlrpc_struct_new fail.  An array that cannot be *)
(* had is counted down all the same (getArray).  A value without its       *)
(* contents is freed but returned, and cleanup code counts it down; only   *)
(* convertBase64 forgets it.                                               *)
NoContents == {"i4", "int", "boolean", "double", "nil"}

BuildFails(kind) ==
    /\ \/ kind # "array" /\ RunsOut("value") /\ UNCHANGED misused
       \/ kind = "array" /\ RunsOut("array") /\ misused' = TRUE
       \/ /\ kind \notin NoContents /\ RunsOut("contents")
          /\ misused' = (misused \/ kind # "base64")
    /\ fault' = TRUE
    /\ UNCHANGED valueVars
-----------------------------------------------------------------------------
(* convert_value, convert_array, convert_struct and convert_params.  A     *)
(* frame is a call of one of the last three: the element it goes through,  *)
(* the child it is at, what it has made, the key it holds.                 *)

Children(e)   == nodes[e].children
ChildCount(e) == Len(Children(e))
Named(e, name) == {i \in 1..ChildCount(e) : nodes[Children(e)[i]].name = name}
(* get_child_by_name: the first one.                                       *)
ChildByName(e, name) ==
    Children(e)[CHOOSE i \in Named(e, name) :
                    \A j \in Named(e, name) : i <= j]

TextOK(e) == ~Contains(nodes[e].text, "bad")

Frame(fn, e, made, max) ==
    [fn |-> fn, elem |-> e, at |-> 1, made |-> made, key |-> None, max |-> max]

Top == Last(frames)
Item == Children(Top.elem)[Top.at]
AllConverted == Top.at > ChildCount(Top.elem)

(* The element under <value>, if convert_value takes it.                   *)
TakesChild(child) ==
    LET name == nodes[child].name IN
    \/ name = "struct"
    \/ name = "array" /\ ChildCount(child) = 1
    \/ /\ ChildCount(child) = 0
       /\ name \in Unchecked \/ (name \in Checked /\ TextOK(child))

Takes(e, max) ==
    /\ max >= 1
    /\ nodes[e].name = "value"
    /\ \/ ChildCount(e) = 0 /\ TextOK(e)
       \/ ChildCount(e) = 1 /\ TakesChild(Children(e)[1])

(* A scalar is returned at once, an array or a struct gets a frame.        *)
ConvertValue(e, max) ==
    LET v == Unused(values)
        leaf == ChildCount(e) = 0
        child == IF leaf THEN e ELSE Children(e)[1]
        name == IF leaf THEN "string" ELSE nodes[child].name
        text == IF name = "nil" THEN <<>> ELSE nodes[child].text
        Open(elem) ==
            /\ values' = With(values, v, Cell(name, <<>>))
            /\ frames' = Append(frames, Frame(name, elem, v, max - 1))
            /\ UNCHANGED <<returned, releasing, flags>>
    IN  \/ /\ ~Takes(e, max)
           /\ fault' = TRUE
           /\ UNCHANGED <<valueVars, ranOut, misused>>
        \/ Takes(e, max) /\ BuildFails(name)
        \/ Takes(e, max) /\ name = "array" /\ Open(Children(child)[1])
        \/ Takes(e, max) /\ name = "struct" /\ Open(child)
        \/ /\ Takes(e, max) /\ name \notin {"array", "struct"}
           /\ values' = With(values, v, Cell(Type(name), text))
           /\ returned' = v
           /\ UNCHANGED <<frames, releasing, flags>>

Converting ==
    /\ pc = "convert" /\ ~fault /\ frames # <<>> /\ releasing = <<>>
    /\ UNCHANGED <<document, pc, treeVars, outVars>>

(* The checks of the frame's own element and of the child it is at; the   *)
(* key is made before the value is looked for.                             *)
IsParam(param) == nodes[param].name = "param" /\ ChildCount(param) = 1

IsMember(member) ==
    /\ nodes[member].name = "member" /\ ChildCount(member) = 2
    /\ Named(member, "name") # {}
    /\ LET name == ChildByName(member, "name") IN
       ChildCount(name) = 0 /\ TextOK(name)

Fits ==
    /\ Top.fn = "array" => nodes[Top.elem].name = "data"
    /\ ~AllConverted =>
          /\ Top.fn = "params" => IsParam(Item)
          /\ Top.fn = "struct" /\ Top.key = None => IsMember(Item)
          /\ Top.fn = "struct" /\ Top.key # None => Named(Item, "value") # {}

Object ==
    /\ Converting /\ returned = None
    /\ ~Fits
    /\ fault' = TRUE
    /\ UNCHANGED <<valueVars, ranOut, misused>>

(* convert_struct makes the key before it looks for the value.             *)
MakeKey ==
    LET k == Unused(values)
        name == ChildByName(Item, "name")
    IN  /\ values' = With(values, k, Cell("string", nodes[name].text))
        /\ frames' = [frames EXCEPT ![Len(frames)].key = k]
        /\ UNCHANGED <<returned, releasing, flags>>

NextItem ==
    /\ Converting /\ returned = None
    /\ Fits /\ ~AllConverted
    /\ \/ Top.fn = "params" /\ ConvertValue(Children(Item)[1], NestingLimit)
       \/ Top.fn = "array" /\ ConvertValue(Item, Top.max)
       \/ Top.fn = "struct" /\ Top.key = None /\ (MakeKey \/ BuildFails("string"))
       \/ /\ Top.fn = "struct" /\ Top.key # None
          /\ ConvertValue(ChildByName(Item, "value"), Top.max)

(* The value that was returned becomes an item of the frame's, or not.     *)
Advance ==
    /\ frames' = [frames EXCEPT ![Len(frames)].at = @ + 1,
                                ![Len(frames)].key = None]
    /\ returned' = None
    /\ UNCHANGED flags

NoRoom ==
    /\ RunsOut("append")
    /\ fault' = TRUE
    /\ DecRefs(<<returned>>)
    /\ returned' = None
    /\ UNCHANGED <<values, frames, misused>>

(* Mutant: the array takes over our reference, and ours is released.       *)
MutantItemNotCounted ==
    /\ Converting /\ returned # None
    /\ Top.fn \in {"params", "array"}
    /\ values' = [values EXCEPT ![Top.made].items = Append(@, returned)]
    /\ DecRefs(<<returned>>)
    /\ Advance

(* xmlrpc_array_append_item takes a reference; ours is released.           *)
AppendItem ==
    /\ Converting /\ returned # None
    /\ Top.fn \in {"params", "array"}
    /\ \/ NoRoom
       \/ /\ values' = [IncRef(values, returned) EXCEPT
                             ![Top.made].items = Append(@, returned)]
          /\ DecRefs(<<returned>>)
          /\ Advance

(* find_member: where the struct has that key.                             *)
MembersNamed(s, key) ==
    LET items == values[s].items IN
    {i \in DOMAIN items :
         i % 2 = 1 /\ values[items[i]].text = values[key].text}

(* Mutant: a member that is there already stays.                           *)
MutantFirstMemberStays ==
    /\ Converting /\ returned # None
    /\ Top.fn = "struct"
    /\ IF MembersNamed(Top.made, Top.key) # {}
       THEN DecRefs(<<Top.key, returned>>) /\ UNCHANGED values
       ELSE /\ values' = [values EXCEPT ![Top.made].items =
                              @ \o <<Top.key, returned>>]
            /\ DecRefs(<<>>)
    /\ Advance

(* xmlrpc_struct_set_value_v takes references, to the value alone when it  *)
(* replaces a member's; ours are released.                                 *)
SetMember ==
    LET ours == <<Top.key, returned>>
        places == MembersNamed(Top.made, Top.key)
    IN  /\ Converting /\ returned # None
        /\ Top.fn = "struct"
        /\ \/ places = {} /\ NoRoom
           \/ /\ places = {}
              /\ values' = [IncRef(IncRef(values, Top.key), returned)
                                EXCEPT ![Top.made].items = @ \o ours]
              /\ DecRefs(ours)
              /\ Advance
           \/ \E i \in places :
              /\ values' = [IncRef(values, returned) EXCEPT
                                ![Top.made].items[i + 1] = returned]
              /\ DecRefs(<<values[Top.made].items[i + 1]>> \o ours)
              /\ Advance

ReturnMade ==
    /\ Converting /\ returned = None
    /\ Fits /\ AllConverted
    /\ returned' = Top.made
    /\ frames' = Front(frames)
    /\ UNCHANGED <<values, releasing, flags>>

(* A frame's cleanup after a fault.                                        *)
Unwind ==
    /\ pc = "convert" /\ fault /\ frames # <<>> /\ releasing = <<>>
    /\ DecRefs(IF Top.key = None THEN <<Top.made>> ELSE <<Top.key, Top.made>>)
    /\ frames' = Front(frames)
    /\ UNCHANGED <<document, pc, treeVars, values, returned, flags, outVars>>

Converted ==
    /\ pc = "convert" /\ frames = <<>> /\ releasing = <<>>
    /\ fault \/ returned # None
    /\ pc' = "ending"
    /\ UNCHANGED <<document, treeVars, valueVars, flags, outVars>>

ConvertParams(params) ==
    LET v == Unused(values) IN
    \/ BuildFails("array")
    \/ /\ values' = With(values, v, Cell("array", <<>>))
       /\ frames' = <<Frame("params", params, v, NestingLimit)>>
       /\ UNCHANGED <<returned, releasing, flags>>
-----------------------------------------------------------------------------
(* xmlrpc_parse_call.                                                      *)

IsMethodName(name) == ChildCount(name) = 0 /\ TextOK(name)

(* parseCallXml and parseMethodNameElement.                                *)
TakeMethodName ==
    LET name == ChildByName(rootP, "methodName")
        good == /\ nodes[rootP].name = "methodCall"
                /\ Named(rootP, "methodName") # {}
                /\ IsMethodName(name)
    IN  /\ pc = "tree" /\ document.purpose = "call" /\ methodName = NoName
        /\ \/ /\ ~good
              /\ pc' = "ending" /\ fault' = TRUE
              /\ UNCHANGED <<methodName, ranOut>>
           \/ /\ good /\ RunsOut("string")
              /\ pc' = "ending" /\ fault' = TRUE
              /\ UNCHANGED methodName
           \/ /\ good
              /\ methodName' = nodes[name].text
              /\ UNCHANGED <<pc, fault, ranOut>>
        /\ UNCHANGED <<document, treeVars, valueVars, result, misused>>

(* parseCallChildren: a call need not have <params>.                       *)
TakeParams ==
    LET v == Unused(values)
        more == ChildCount(rootP) > 1
        given == Named(rootP, "params") # {}
    IN  /\ pc = "tree" /\ document.purpose = "call" /\ methodName # NoName
        /\ \/ more /\ given /\ ConvertParams(ChildByName(rootP, "params"))
           \/ /\ more /\ ~given
              /\ fault' = TRUE
              /\ UNCHANGED <<valueVars, ranOut, misused>>
           \/ /\ ~more
              /\ RunsOut("value") \/ RunsOut("contents")
              /\ fault' = TRUE
              /\ UNCHANGED <<valueVars, misused>>
           \/ /\ ~more
              /\ values' = With(values, v, Cell("array", <<>>))
              /\ returned' = v
              /\ UNCHANGED <<frames, releasing, flags>>
        /\ pc' = "convert"
        /\ UNCHANGED <<document, treeVars, outVars>>

(* The tree goes, whatever came out of it.                                 *)
End ==
    /\ pc = "ending"
    /\ pc' = "done"
    /\ nodes' = FreeTree
    /\ returned' = None
    /\ UNCHANGED <<document, reading, rootP, currentP, barfed, frames, misused>>

(* Other children than <methodName> and <params> refuse the call.          *)
EndCall ==
    LET extra == ~fault /\ ChildCount(rootP) > 2 IN
    /\ document.purpose = "call"
    /\ End
    /\ DecRefs(IF extra THEN <<returned>> ELSE <<>>)
    /\ fault' = (fault \/ extra)
    /\ methodName' = IF fault' THEN NoName ELSE methodName
    /\ result' = IF fault' THEN Refused ELSE [kind |-> "call", value |-> returned]
    /\ UNCHANGED <<values, ranOut>>
-----------------------------------------------------------------------------
(* xmlrpc_parse_response2.                                                 *)

OnlyChild == Children(rootP)[1]

(* parseMethodResponseElt, parseFaultElement.                              *)
TakeResponse ==
    LET says == IF nodes[rootP].name = "methodResponse" /\ ChildCount(rootP) = 1
                THEN nodes[OnlyChild].name ELSE "nothing"
        good == says = "params" \/ (says = "fault" /\ ChildCount(OnlyChild) = 1)
    IN  /\ pc = "tree" /\ document.purpose = "response"
        /\ \/ good /\ says = "params" /\ ConvertParams(OnlyChild)
           \/ /\ good /\ says = "fault"
              /\ ConvertValue(Children(OnlyChild)[1], NestingLimit)
           \/ /\ ~good
              /\ fault' = TRUE
              /\ UNCHANGED <<valueVars, ranOut, misused>>
        /\ pc' = "convert"
        /\ UNCHANGED <<document, treeVars, outVars>>

(* interpretFaultValue wants a struct with a code and a string.            *)
HasMember(key, kind) ==
    LET items == values[returned].items IN
    \E i \in DOMAIN items :
        /\ i % 2 = 1
        /\ values[items[i]].text = <<key>>
        /\ values[items[i + 1]].kind = kind

IsFaultValue ==
    /\ values[returned].kind = "struct"
    /\ HasMember("faultCode", "int") /\ HasMember("faultString", "string")

Refuse == fault' = TRUE /\ result' = Refused

(* parseParamsElement takes a reference to the one value it wants.         *)
EndResponse ==
    LET items == values[returned].items
        params == nodes[OnlyChild].name = "params"
    IN  /\ document.purpose = "response"
        /\ End
        /\ DecRefs(IF fault THEN <<>> ELSE <<returned>>)
        /\ \/ fault /\ Refuse /\ UNCHANGED <<values, ranOut>>
           \/ /\ ~fault /\ params /\ Len(items) = 1
              /\ values' = IncRef(values, items[1])
              /\ result' = [kind |-> "response", value |-> items[1]]
              /\ UNCHANGED <<fault, ranOut>>
           \/ /\ ~fault
              /\ IF params THEN Len(items) # 1 ELSE ~IsFaultValue
              /\ Refuse
              /\ UNCHANGED <<values, ranOut>>
           \/ /\ ~fault /\ ~params /\ IsFaultValue
              /\ \/ RunsOut("string") /\ Refuse
                 \/ /\ result' = [kind |-> "fault"]
                    /\ UNCHANGED <<fault, ranOut>>
              /\ UNCHANGED values
        /\ UNCHANGED methodName

Over == pc = "done" /\ releasing = <<>>
Terminated == Over /\ UNCHANGED vars

Next ==
    \/ TooLarge \/ CreateParser \/ StartElement \/ EndElement \/ CharacterData
    \/ NotXml \/ EndOfXml
    \/ Object \/ NextItem \/ AppendItem \/ SetMember \/ ReturnMade
    \/ Unwind \/ Converted \/ Release
    \/ TakeMethodName \/ TakeParams \/ EndCall
    \/ TakeResponse \/ EndResponse
    \/ Terminated

Spec == Init /\ [][Next]_vars
-----------------------------------------------------------------------------
(* Properties.                                                             *)

(* Both heaps are closed: what an element, a value or a frame holds is     *)
(* alive, and an element knows its parent.                                 *)
TypeOK ==
    /\ pc \in {"start", "expat", "tree", "convert", "ending", "done"}
    /\ barfed \in BOOLEAN /\ fault \in BOOLEAN
    /\ ranOut \in BOOLEAN /\ misused \in BOOLEAN
    /\ \A e \in DOMAIN nodes : \A i \in DOMAIN nodes[e].children :
           LET child == nodes[e].children[i] IN
           child \in DOMAIN nodes /\ nodes[child].parent = e
    /\ \A v \in DOMAIN values :
           /\ values[v].refs >= 1
           /\ \A i \in DOMAIN values[v].items :
                  values[v].items[i] \in DOMAIN values
    /\ \A i \in DOMAIN frames :
           {frames[i].made, frames[i].key} \ {None} \subseteq DOMAIN values

(* Everything that is alive belongs to somebody.  While the tree is built  *)
(* all elements hang on the root, and a handler that fails leaves none     *)
(* (xmlrpc_expat.c:278-281 and 312-315: "we are responsible for undoing    *)
(* everything that has been done so far").  A value has exactly the        *)
(* references of the arrays and structs that hold it, of the frames, of    *)
(* what is returned and of what is being released.  So when it is over,    *)
(* whatever was wrong with the document and wherever memory ran out,       *)
(* nothing is left but the result, and no memory has been used after it    *)
(* was freed.                                                              *)
Outcome == IF pc = "done"
           THEN IF result.kind \in {"call", "response"} THEN result.value
                ELSE None
           ELSE returned

Holders(v) ==
    Cardinality(Places([u \in DOMAIN values |-> values[u].items], v))
    + Cardinality({i \in DOMAIN frames : frames[i].made = v})
    + Cardinality({i \in DOMAIN frames : frames[i].key = v})
    + Count(releasing, v)
    + (IF Outcome = v THEN 1 ELSE 0)

NothingLost ==
    /\ ~misused
    /\ DOMAIN nodes = IF rootP = None \/ barfed \/ pc = "done" THEN {}
                      ELSE Subtree(nodes, rootP)
    /\ \A v \in DOMAIN values : values[v].refs = Holders(v)
    /\ Over => /\ Outcome = None => DOMAIN values = {}
               /\ fault => methodName = NoName

(* A call or response is accepted if and only if it is no larger than the  *)
(* limit, is XML and in the grammar, and memory did not run out (and so    *)
(* what test.c:343-379 expects of good documents that are too large); and  *)
(* then what comes out is what the document means: the values it holds,    *)
(* nested up to the limit, in order, and the last of members that have one *)
(* name.                                                                   *)
Told(heap, v, below) ==
    LET items == heap[v].items IN
    CASE heap[v].kind = "array" ->
           <<"array", [i \in DOMAIN items |-> below[items[i]]]>>
      [] heap[v].kind = "struct" ->
           <<"struct", {<<heap[items[2 * i - 1]].text, below[items[2 * i]]>> :
                            i \in 1..(Len(items) \div 2)}>>
      [] OTHER -> <<heap[v].kind, heap[v].text>>

(* What a value says that is nested at most that deep.                     *)
Says(heap, v, nesting) ==
    LET Saying[depth \in Nat] ==
            [u \in DOMAIN heap |->
                 IF depth = 0 THEN NoMeaning
                 ELSE Told(heap, u, Saying[depth - 1])]
    IN  Saying[nesting][v]

MeansTheDocument ==
    LET root == document.root
        read == ~Oversized /\ AllRead /\ ~ranOut
        call == document.purpose = "call"
    IN  Over =>
        CASE read /\ call /\ IsCall(root) ->
               /\ result.kind = "call"
               /\ methodName = NameOf(root)
               /\ Says(values, result.value, NestingLimit + 1) = ArgumentsOf(root)
          [] read /\ ~call /\ IsResult(root) ->
               /\ result.kind = "response"
               /\ Says(values, result.value, NestingLimit) = ResultOf(root)
          [] read /\ ~call /\ IsFault(root) -> result.kind = "fault"
          [] OTHER -> result = Refused
=============================================================================
