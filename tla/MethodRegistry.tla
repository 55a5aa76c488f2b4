--------------------------- MODULE MethodRegistry ---------------------------
(***************************************************************************)
(* The method registry of Xmlrpc-c (src/registry.c, src/system_method.c)   *)
(* on the reference-counted xmlrpc_values it is made of (xmlrpc_data.c,    *)
(* xmlrpc_array.c, xmlrpc_struct.c, xmlrpc_builddecomp.c).                 *)
(*                                                                         *)
(* The state is a heap of values, each with its count and, for an array or *)
(* a struct, the values it holds.  An operation of the registry, or a      *)
(* request dispatched through it, is the list of the steps it takes on the *)
(* heap, in the order of the code; a thread executes its list one step at  *)
(* a time, and "++" and "--" on a count are a load and a store.            *)
(*                                                                         *)
(* Left out: the strings a signature is made of, the text of values, the   *)
(* keys built only to look a member up, and failed allocations.            *)
(***************************************************************************)
EXTENDS ReferenceCounts, SequencesExt

CONSTANTS
    Threads,     \* the threads that call into the registry
    UserMethods, \* the names the program may register
    Signatures,  \* the signature strings it may register them with
    Requests     \* the requests that may arrive

ASSUME SignaturesKnown ==
    Signatures \subseteq [count : Nat, bad : BOOLEAN]

Calls == [name : STRING, arg : STRING, refused : BOOLEAN, fails : BOOLEAN]

ASSUME RequestsKnown ==
    \A r \in Requests :
        /\ r \in [multi : BOOLEAN, refused : BOOLEAN, calls : Seq(Calls)]
        /\ ~r.multi => Len(r.calls) = 1

VARIABLES
    stage,         \* "none", "up" or "freed": the xmlrpc_registry itself
    introspection, \* _introspection_enabled
    roots,         \* _methods, _default_method, _preinvoke_method
    refs,          \* _refcount of every value that is allocated
    kids,          \* what an array or struct holds, in order
    changing,      \* the last operation begun was one of the program's own
    todo,          \* per thread, the steps still to take
    loaded         \* per thread, the count it has read but not written (0: none)

vars == <<stage, introspection, roots, refs, kids, changing, todo, loaded>>

(* A value is named by what it was made for, a number and its part.  The   *)
(* number tells the registration that is there from the one that replaces  *)
(* it: 1 or 2 for a method, 3 or 4 for the default or preinvoke method.    *)
NoValue == <<"none", 0, "none">>
Methods == <<"registry", 1, "methods">>
Part(name, g, part) == <<name, g, part>>
Live(v) == v \in DOMAIN refs

SystemMethods ==
    << "system.listMethods", "system.methodSignature", "system.methodHelp",
       "system.multicall", "system.shutdown" >>

AllIdle == \A t \in Threads : todo[t] = <<>>
-----------------------------------------------------------------------------
(* The steps an operation is made of.                                      *)
New(v) == << <<"new", v>> >>
Inc(v) == << <<"inc", v>> >>
Dec(v) == << <<"dec", v>> >>
AppendItem(array, v) == Inc(v) \o << <<"link", v, array>> >>
MoveInto(array, v) == AppendItem(array, v) \o Dec(v)

(* xmlrpc_array_get_item: the "old" interface that returns no reference is *)
(* xmlrpc_array_read_item followed by xmlrpc_DECREF.                       *)
GetItem(v) == Inc(v) \o Dec(v)

(* Mutant: the references xmlrpc_struct_read_member takes are kept.        *)
MutantKeyAndValueKept(key, value) == Inc(key) \o Inc(value)

(* xmlrpc_struct_get_key_and_value, likewise.                              *)
GetKeyAndValue(key, value) == Inc(key) \o Inc(value) \o Dec(key) \o Dec(value)

(* The members of _methods: a key and a method info each.                  *)
MemberCount == Len(kids[Methods]) \div 2
KeyAt(i)  == kids[Methods][2 * i - 1]
InfoAt(i) == kids[Methods][2 * i]
Registered(name) == \E i \in 1..MemberCount : KeyAt(i)[1] = name
InfoOf(name) == InfoAt(CHOOSE i \in 1..MemberCount : KeyAt(i)[1] = name)
-----------------------------------------------------------------------------
(* Registration.                                                           *)

(* xmlrpc_buildSignatureArray and parseOneSignature: each signature is made, *)
(* moved into the list, and the list dropped when one of them is bad.      *)
BuildSignatures(name, g, signature) ==
    LET list == Part(name, g, "signatures")
        One(i) == LET one == Part(name, g + 2 * i, "signature") IN
                  New(one) \o IF signature.bad /\ i = signature.count
                              THEN Dec(one) ELSE MoveInto(list, one)
    IN  New(list) \o FlattenSeq([i \in 1..signature.count |-> One(i)])
                  \o IF signature.bad THEN Dec(list) ELSE <<>>

(* xmlrpc_build_value of "(pp)" and of "(ppVs)", where V is a value the    *)
(* caller keeps its own reference to.                                      *)
BuildPair(name, g) ==
    LET info == Part(name, g, "info")
        Item(part) == New(Part(name, g, part))
                      \o MoveInto(info, Part(name, g, part))
    IN  New(info) \o Item("function") \o Item("data")

BuildInfo(name, g) ==
    LET info == Part(name, g, "info")
        list == Part(name, g, "signatures")
        help == Part(name, g, "help")
    IN  BuildPair(name, g) \o Inc(list) \o MoveInto(info, list)
                           \o New(help) \o MoveInto(info, help)

(* xmlrpc_struct_set_value: replace the member's value, or append a member. *)
SetValue(name, info) ==
    IF Registered(name)
    THEN << <<"replace", info, InfoOf(name)>> >>
         \o Inc(info) \o Dec(InfoOf(name))
    ELSE LET key == Part(name, 1, "key") IN
         New(key) \o << <<"member", key, info>> >>
                  \o Inc(key) \o Inc(info) \o Dec(key)

(* The number that is not in use under that name, of g and g + 1.          *)
Unused(name, g) == IF Live(Part(name, g, "info")) THEN g + 1 ELSE g

(* xmlrpc_registry_add_method_w_doc: a signature string that cannot be     *)
(* interpreted registers nothing.                                          *)
AddMethodSteps(name, signature) ==
    LET g == Unused(name, 1)
        info == Part(name, g, "info")
    IN  BuildSignatures(name, g, signature)
        \o IF signature.bad THEN <<>>
           ELSE BuildInfo(name, g) \o SetValue(name, info) \o Dec(info)
                \o Dec(Part(name, g, "signatures"))

(* xmlrpc_registry_set_default_method and _set_preinvoke_method.           *)
SetRootSteps(which) ==
    LET g == Unused(which, 3) IN
    BuildPair(which, g)
    \o (IF roots[which] # NoValue THEN Dec(roots[which]) ELSE <<>>)
    \o << <<"root", Part(which, g, "info"), which>> >>

(* Mutant: the preinvoke method is forgotten.                              *)
MutantPreinvokeKept ==
    Dec(Methods)
    \o (IF roots["default"] # NoValue THEN Dec(roots["default"]) ELSE <<>>)
    \o << <<"freed", Methods>> >>

(* xmlrpc_registry_free.                                                   *)
FreeSteps ==
    LET Drop(which) == IF roots[which] # NoValue
                       THEN Dec(roots[which]) ELSE <<>>
    IN  Dec(Methods) \o Drop("default") \o Drop("preinvoke")
        \o << <<"freed", Methods>> >>
-----------------------------------------------------------------------------
(* Dispatch.  A request's steps and what it returns: NoValue is a fault.   *)

Answer(steps, result) == [steps |-> steps, result |-> result]
Fault(steps) == Answer(steps, NoValue)

(* xmlrpc_parse_value of the function and data that come first.            *)
ParsePair(info) == GetItem(kids[info][1]) \o GetItem(kids[info][2])

ListMethods(list) ==
    LET Listed(i) == GetKeyAndValue(KeyAt(i), InfoAt(i))
                     \o AppendItem(list, KeyAt(i))
    IN  Answer(New(list) \o FlattenSeq([i \in 1..MemberCount |-> Listed(i)]),
               list)

(* Mutant: the help string is returned without a reference for the caller. *)
MutantHelpNoRef(name) ==
    LET items == kids[InfoOf(name)] IN
    Answer(FlattenSeq([i \in 1..4 |-> GetItem(items[i])]), items[4])

MethodHelp(name) ==
    LET items == kids[InfoOf(name)] IN
    Answer(FlattenSeq([i \in 1..4 |-> GetItem(items[i])]) \o Inc(items[4]),
           items[4])

(* getSignatureList and makeSigListCopy; "undef" when there is no          *)
(* signature (buildNoSigSuppliedResult).                                   *)
MethodSignature(name, copy) ==
    LET list == kids[InfoOf(name)][3]
        Copied(i) == GetItem(kids[list][i]) \o AppendItem(copy, kids[list][i])
    IN  Answer(GetItem(list) \o New(copy)
               \o FlattenSeq([i \in DOMAIN kids[list] |-> Copied(i)]), copy)

(* What the method itself does, once dispatched.                           *)
Method(call, result) ==
    LET introspects == {"system.listMethods", "system.methodHelp",
                        "system.methodSignature"}
        named == {"system.methodHelp", "system.methodSignature"}
    IN  IF call.name \in introspects /\ ~introspection THEN Fault(<<>>)
        ELSE IF call.name \in named /\ ~Registered(call.arg) THEN Fault(<<>>)
        ELSE CASE call.name = "system.listMethods" -> ListMethods(result)
               [] call.name = "system.methodHelp" -> MethodHelp(call.arg)
               [] call.name = "system.methodSignature" ->
                      MethodSignature(call.arg, result)
               [] OTHER -> IF call.fails THEN Fault(<<>>)
                           ELSE Answer(New(result), result)

(* callPreinvokeMethodIfAny, and then what is given to the named method.   *)
Preinvoked(refused, answer) ==
    LET steps == IF roots["preinvoke"] = NoValue THEN <<>>
                 ELSE ParsePair(roots["preinvoke"])
    IN  IF refused /\ roots["preinvoke"] # NoValue THEN Fault(steps)
        ELSE [answer EXCEPT !.steps = steps \o @]

(* xmlrpc_dispatchCall: the registered method, else the default one, else  *)
(* a fault.                                                                *)
DispatchCall(call, result) ==
    LET info == IF Registered(call.name) THEN InfoOf(call.name)
                ELSE roots["default"]
        answer == Method(call, result)
    IN  Preinvoked(call.refused,
            IF info = NoValue THEN Fault(<<>>)
            ELSE [answer EXCEPT !.steps = ParsePair(info) \o @])

(* system_multicall and call_one_method: each call's result is wrapped in  *)
(* an array of one, or its fault in a struct, and appended to the results. *)
Multicall(t, calls) ==
    LET results == Part(t, 0, "results")
        One(i) ==
            LET wrapped == Part(t, i, "wrapped")
                answer == DispatchCall(calls[i], Part(t, i, "result"))
            IN  IF calls[i].name = "system.multicall"
                THEN New(wrapped)
                ELSE answer.steps \o New(wrapped)
                     \o IF answer.result = NoValue THEN <<>>
                        ELSE Inc(answer.result)
                             \o MoveInto(wrapped, answer.result)
                             \o Dec(answer.result)
        Kept(i) == One(i) \o MoveInto(results, Part(t, i, "wrapped"))
    IN  Answer(ParsePair(InfoOf("system.multicall")) \o New(results)
               \o FlattenSeq([i \in DOMAIN calls |-> Kept(i)]), results)

(* xmlrpc_registry_process_call: the result is released once serialised.   *)
ProcessCallSteps(t, request) ==
    LET answer == IF request.multi
                  THEN Preinvoked(request.refused, Multicall(t, request.calls))
                  ELSE DispatchCall(request.calls[1], Part(t, 0, "result"))
    IN  answer.steps \o IF answer.result = NoValue THEN <<>>
                        ELSE Dec(answer.result)
-----------------------------------------------------------------------------
(* The operations.  The program changes the registry only while no request *)
(* is being dispatched; requests may be dispatched by several threads.     *)

Init ==
    /\ stage = "none"
    /\ introspection = TRUE
    /\ roots = [which \in {"methods", "default", "preinvoke"} |-> NoValue]
    /\ refs = <<>>
    /\ kids = <<>>
    /\ changing = FALSE
    /\ todo = [t \in Threads |-> <<>>]
    /\ loaded = [t \in Threads |-> 0]

Begin(t, steps) ==
    /\ todo' = [todo EXCEPT ![t] = steps]
    /\ UNCHANGED <<refs, kids, loaded>>

Change(t, steps) ==
    /\ stage = "up"
    /\ AllIdle
    /\ changing' = TRUE
    /\ Begin(t, steps)
    /\ UNCHANGED <<stage, roots>>

(* xmlrpc_registry_new, with xmlrpc_installSystemMethods.  A system method *)
(* has one signature, and none of them is registered before.               *)
RegistryNew(t) ==
    LET Install(i) == <<"install", SystemMethods[i]>> IN
    /\ stage # "up"
    /\ AllIdle
    /\ stage' = "up"
    /\ introspection' = TRUE
    /\ roots' = [which \in DOMAIN roots |-> NoValue]
    /\ changing' = TRUE
    /\ Begin(t, New(Methods) \o << <<"root", Methods, "methods">> >>
                \o [i \in DOMAIN SystemMethods |-> Install(i)])

AddMethod(t) ==
    /\ \E name \in UserMethods, signature \in Signatures :
           Change(t, AddMethodSteps(name, signature))
    /\ UNCHANGED introspection

SetDefaultMethod(t) == Change(t, SetRootSteps("default"))
                       /\ UNCHANGED introspection

SetPreinvokeMethod(t) == Change(t, SetRootSteps("preinvoke"))
                         /\ UNCHANGED introspection

DisableIntrospection(t) ==
    /\ introspection
    /\ Change(t, <<>>)
    /\ introspection' = FALSE

RegistryFree(t) == Change(t, FreeSteps) /\ UNCHANGED introspection

(* xmlrpc_registry_process_call, called by a thread of a server.           *)
ProcessCall(t) ==
    /\ stage = "up"
    /\ todo[t] = <<>>
    /\ AllIdle \/ ~changing
    /\ changing' = FALSE
    /\ \E request \in Requests : Begin(t, ProcessCallSteps(t, request))
    /\ UNCHANGED <<stage, introspection, roots>>
-----------------------------------------------------------------------------
(* One step of the list a thread is at.                                    *)

At(t, step) == todo[t] # <<>> /\ todo[t][1][1] = step
Value(t) == todo[t][1][2]
StepDone(t) == todo' = [todo EXCEPT ![t] = Tail(@)]
WithKids(a, items) == kids' = [kids EXCEPT ![a] = items]

Allocate(t) ==
    /\ At(t, "new")
    /\ refs' = [v \in DOMAIN refs \union {Value(t)} |->
                    IF v = Value(t) THEN 1 ELSE refs[v]]
    /\ kids' = [v \in DOMAIN kids \union {Value(t)} |->
                    IF v = Value(t) THEN <<>> ELSE kids[v]]
    /\ StepDone(t)
    /\ UNCHANGED <<stage, roots, loaded>>

(* "++" and "--" of xmlrpc_INCREF and xmlrpc_DECREF.                       *)
LoadCount(t) ==
    /\ At(t, "inc") \/ At(t, "dec")
    /\ loaded[t] = 0
    /\ Live(Value(t))
    /\ loaded' = [loaded EXCEPT ![t] = refs[Value(t)]]
    /\ UNCHANGED <<stage, roots, refs, kids, todo>>

Increment(t) ==
    /\ At(t, "inc")
    /\ loaded[t] > 0
    /\ Live(Value(t))
    /\ refs' = [refs EXCEPT ![Value(t)] = loaded[t] + 1]
    /\ loaded' = [loaded EXCEPT ![t] = 0]
    /\ StepDone(t)
    /\ UNCHANGED <<stage, roots, kids>>

(* Mutant: a count may reach zero and the value stay.                      *)
MutantDecrementToZero(t) ==
    /\ At(t, "dec")
    /\ loaded[t] > 0
    /\ refs' = [refs EXCEPT ![Value(t)] = loaded[t] - 1]
    /\ loaded' = [loaded EXCEPT ![t] = 0]
    /\ StepDone(t)
    /\ UNCHANGED <<stage, roots, kids>>

Decrement(t) ==
    /\ At(t, "dec")
    /\ loaded[t] > 1
    /\ Live(Value(t))
    /\ refs' = [refs EXCEPT ![Value(t)] = loaded[t] - 1]
    /\ loaded' = [loaded EXCEPT ![t] = 0]
    /\ StepDone(t)
    /\ UNCHANGED <<stage, roots, kids>>

(* The count reached zero: destroyValue releases what an array             *)
(* (xmlrpc_destroyArrayContents) or a struct (xmlrpc_destroyStruct) holds. *)
DestroyValue(t) ==
    LET v == Value(t)
        others == DOMAIN refs \ {v}
        released == [i \in DOMAIN kids[v] |-> <<"dec", kids[v][i]>>]
    IN  /\ At(t, "dec")
        /\ loaded[t] = 1
        /\ Live(v)
        /\ refs' = [u \in others |-> refs[u]]
        /\ kids' = [u \in others |-> kids[u]]
        /\ loaded' = [loaded EXCEPT ![t] = 0]
        /\ todo' = [todo EXCEPT ![t] = released \o Tail(@)]
        /\ UNCHANGED <<stage, roots>>

(* A pointer is stored: in an array, in _methods (a new member, or an      *)
(* existing one's value) or in the registry itself.                        *)
StorePointer(t) ==
    /\ \/ /\ At(t, "link")
          /\ LET array == todo[t][1][3] IN
             WithKids(array, Append(kids[array], Value(t)))
          /\ UNCHANGED roots
       \/ /\ At(t, "member")
          /\ WithKids(Methods, kids[Methods] \o <<Value(t), todo[t][1][3]>>)
          /\ UNCHANGED roots
       \/ /\ At(t, "replace")
          /\ WithKids(Methods, [i \in DOMAIN kids[Methods] |->
                 IF kids[Methods][i] = todo[t][1][3]
                 THEN Value(t) ELSE kids[Methods][i]])
          /\ UNCHANGED roots
       \/ /\ At(t, "root")
          /\ roots' = [roots EXCEPT ![todo[t][1][3]] = Value(t)]
          /\ UNCHANGED kids
    /\ StepDone(t)
    /\ UNCHANGED <<stage, refs, loaded>>

(* registerSystemMethod, once the members before it are in _methods.       *)
InstallSystemMethod(t) ==
    /\ At(t, "install")
    /\ todo' = [todo EXCEPT ![t] =
           AddMethodSteps(todo[t][1][2], [count |-> 1, bad |-> FALSE]) \o Tail(@)]
    /\ UNCHANGED <<stage, roots, refs, kids, loaded>>

FreeRegistry(t) ==
    /\ At(t, "freed")
    /\ stage' = "freed"
    /\ roots' = [which \in DOMAIN roots |-> NoValue]
    /\ StepDone(t)
    /\ UNCHANGED <<refs, kids, loaded>>

HeapStep(t) ==
    /\ \/ Allocate(t) \/ LoadCount(t) \/ Increment(t) \/ Decrement(t)
       \/ DestroyValue(t) \/ StorePointer(t) \/ InstallSystemMethod(t)
       \/ FreeRegistry(t)
    /\ UNCHANGED <<introspection, changing>>

Next ==
    \E t \in Threads :
        \/ RegistryNew(t) \/ AddMethod(t) \/ SetDefaultMethod(t)
        \/ SetPreinvokeMethod(t) \/ DisableIntrospection(t) \/ RegistryFree(t)
        \/ ProcessCall(t) \/ HeapStep(t)

Spec == Init /\ [][Next]_vars
-----------------------------------------------------------------------------
(* Properties.                                                             *)

(* Every value has a count, a count is never zero, and only the values of  *)
(* the heap hold others.                                                   *)
TypeOK ==
    /\ stage \in {"none", "up", "freed"}
    /\ introspection \in BOOLEAN
    /\ changing \in BOOLEAN
    /\ DOMAIN kids = DOMAIN refs
    /\ \A v \in DOMAIN refs : refs[v] \in Nat \ {0}
    /\ \A t \in Threads : loaded[t] \in Nat

(* Nothing that is still pointed to has been destroyed: not what the       *)
(* registry refers to, not what an array or struct holds, not the value a  *)
(* thread is about to count up or down (src/registry.c:69-75 relies on the *)
(* registry's own references for that).                                    *)
NothingDangling ==
    /\ \A a \in DOMAIN kids : \A i \in DOMAIN kids[a] : Live(kids[a][i])
    /\ \A t \in Threads : At(t, "inc") \/ At(t, "dec") => Live(Value(t))
    /\ ~changing => \A which \in DOMAIN roots :
                        roots[which] # NoValue => Live(roots[which])

(* While nothing is running, the count of a value is exactly the number of *)
(* pointers to it in the registry: no request, failed registration or      *)
(* replaced method leaves a reference behind or takes one too many.        *)
PointersTo(v) ==
    Cardinality(Places(kids, v))
    + Cardinality({which \in DOMAIN roots : roots[which] = v})

RefsExact ==
    stage = "up" /\ AllIdle => \A v \in DOMAIN refs : refs[v] = PointersTo(v)

(* After xmlrpc_registry_free nothing the registry ever allocated remains. *)
FreedWhole == stage = "freed" /\ AllIdle => DOMAIN refs = {}
=============================================================================
