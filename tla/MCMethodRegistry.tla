-------------------------- MODULE MCMethodRegistry --------------------------
(* MethodRegistry with one method of the program's own, registered with no, *)
(* one or two signatures or with a signature string that is bad from its   *)
(* start or in its second signature, and with every kind of request.       *)
EXTENDS MethodRegistry

Call(name, arg, refused, fails) ==
    [name |-> name, arg |-> arg, refused |-> refused, fails |-> fails]
Plain(name, arg) == Call(name, arg, FALSE, FALSE)

Single(call) ==
    [multi |-> FALSE, refused |-> FALSE, calls |-> <<call>>]
Several(refused, calls) ==
    [multi |-> TRUE, refused |-> refused, calls |-> calls]

FiveSignatures ==
    {[count |-> n, bad |-> FALSE] : n \in 0..2}
        \union {[count |-> n, bad |-> TRUE] : n \in {0, 2}}

EveryRequest ==
    { Single(Plain("sample.add", "")),
      Single(Call("sample.add", "", TRUE, FALSE)),
      Single(Call("sample.add", "", FALSE, TRUE)),
      Single(Plain("system.listMethods", "")),
      Single(Plain("system.methodHelp", "sample.add")),
      Single(Plain("system.methodSignature", "sample.add")),
      Several(TRUE, <<>>),
      Several(FALSE, << Plain("sample.add", ""),
                        Plain("system.multicall", "") >>),
      Several(FALSE, << Plain("system.methodHelp", "sample.add"),
                        Plain("system.methodSignature", "sample.add") >>) }

OneRequest == {Single(Plain("system.shutdown", ""))}
=============================================================================
