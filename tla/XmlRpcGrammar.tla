---------------------------- MODULE XmlRpcGrammar ----------------------------
(***************************************************************************)
(* What an XML-RPC document means: the grammar at the top of               *)
(* xmlrpc_parse.c with the limit on nesting, as a definition.  An element  *)
(* is [name, text, children]; its text is a sequence of pieces, and the    *)
(* piece "bad" is one that no type takes (not UTF-8, not a number).        *)
(*                                                                         *)
(* A meaning is <<type, content>>; a struct's content is the set of its    *)
(* members.  What an element means is a function of what the elements      *)
(* within it mean ("below"), so Meaning is recursive on the depth only.    *)
(***************************************************************************)
EXTENDS Integers, SequencesExt

CONSTANTS
    Elements,      \* what documents are made of
    NestingLimit   \* xmlrpc_limit_get(XMLRPC_NESTING_LIMIT_ID)

ASSUME ElementsAssumption ==
    Elements \subseteq [name : STRING, text : Seq(STRING),
                        children : Seq(Elements)]
ASSUME LimitAssumption == NestingLimit \in Nat \ {0}

Checked   == {"i4", "int", "string", "boolean", "double", "base64"}
Unchecked == {"dateTime.iso8601", "nil"}
Type(name) == IF name = "i4" THEN "int" ELSE name

Good(element) == ~Contains(element.text, "bad")
IsLeaf(element) == element.children = <<>>

(* The only child of that name.                                            *)
HasOne(element, name) ==
    \E i \in DOMAIN element.children : \A j \in DOMAIN element.children :
        element.children[j].name = name <=> j = i
TheChild(element, name) ==
    element.children[CHOOSE i \in DOMAIN element.children :
                         element.children[i].name = name]

NoMeaning == <<"none", <<>> >>

GoodScalar(inner) ==
    /\ IsLeaf(inner)
    /\ inner.name \in Unchecked \/ (inner.name \in Checked /\ Good(inner))
ScalarOf(inner) ==
    <<Type(inner.name), IF inner.name = "nil" THEN <<>> ELSE inner.text>>

GoodArray(inner, below) ==
    /\ inner.name = "array" /\ Len(inner.children) = 1
    /\ inner.children[1].name = "data"
    /\ \A i \in DOMAIN inner.children[1].children :
           below[inner.children[1].children[i]] # NoMeaning
ArrayOf(items, below) ==
    <<"array", [i \in DOMAIN items |-> below[items[i]]]>>

GoodMember(member, below) ==
    /\ member.name = "member" /\ Len(member.children) = 2
    /\ HasOne(member, "name") /\ HasOne(member, "value")
    /\ IsLeaf(TheChild(member, "name")) /\ Good(TheChild(member, "name"))
    /\ below[TheChild(member, "value")] # NoMeaning
KeyOf(member) == TheChild(member, "name").text

GoodStruct(inner, below) ==
    /\ inner.name = "struct"
    /\ \A i \in DOMAIN inner.children : GoodMember(inner.children[i], below)
(* Of two members with one name the later one counts.                      *)
StructOf(members, below) ==
    LET Counts(i) == \A j \in DOMAIN members :
                         KeyOf(members[j]) = KeyOf(members[i]) => j <= i
    IN  <<"struct", {<<KeyOf(members[i]), below[TheChild(members[i], "value")]>> :
                         i \in {j \in DOMAIN members : Counts(j)}}>>

MeaningOf(element, below) ==
    LET inner == element.children[1] IN
    IF element.name # "value" THEN NoMeaning
    ELSE IF IsLeaf(element)
         THEN IF Good(element) THEN <<"string", element.text>> ELSE NoMeaning
    ELSE IF Len(element.children) # 1 THEN NoMeaning
    ELSE IF GoodScalar(inner) THEN ScalarOf(inner)
    ELSE IF GoodArray(inner, below)
         THEN ArrayOf(inner.children[1].children, below)
    ELSE IF GoodStruct(inner, below) THEN StructOf(inner.children, below)
    ELSE NoMeaning

(* What each element means as a value nested at most that deep.            *)
Meaning[depth \in Nat] ==
    [element \in Elements |->
         IF depth = 0 THEN NoMeaning
         ELSE MeaningOf(element, Meaning[depth - 1])]

MeaningHere(element) == Meaning[NestingLimit][element]

IsParams(element) ==
    /\ element.name = "params"
    /\ \A i \in DOMAIN element.children :
           LET param == element.children[i] IN
           /\ param.name = "param" /\ Len(param.children) = 1
           /\ MeaningHere(param.children[1]) # NoMeaning

ParamsOf(element) ==
    <<"array", [i \in DOMAIN element.children |->
                    MeaningHere(element.children[i].children[1])]>>

(* A call need not have <params>.                                          *)
IsCall(root) ==
    /\ root.name = "methodCall"
    /\ HasOne(root, "methodName")
    /\ IsLeaf(TheChild(root, "methodName")) /\ Good(TheChild(root, "methodName"))
    /\ \/ Len(root.children) = 1
       \/ /\ Len(root.children) = 2 /\ HasOne(root, "params")
          /\ IsParams(TheChild(root, "params"))

NameOf(root) == TheChild(root, "methodName").text
ArgumentsOf(root) ==
    IF Len(root.children) = 1 THEN <<"array", <<>> >>
    ELSE ParamsOf(TheChild(root, "params"))

IsResult(root) ==
    /\ root.name = "methodResponse" /\ Len(root.children) = 1
    /\ IsParams(root.children[1]) /\ Len(root.children[1].children) = 1

ResultOf(root) == ParamsOf(root.children[1])[2][1]

HasMemberOf(value, key, type) ==
    \E member \in value[2] : member[1] = <<key>> /\ member[2][1] = type

IsFault(root) ==
    /\ root.name = "methodResponse" /\ Len(root.children) = 1
    /\ LET element == root.children[1]
           value == MeaningHere(element.children[1])
       IN  /\ element.name = "fault" /\ Len(element.children) = 1
           /\ value[1] = "struct"
           /\ HasMemberOf(value, "faultCode", "int")
           /\ HasMemberOf(value, "faultString", "string")
=============================================================================
