--------------------------- MODULE ReferenceCounts ---------------------------
(***************************************************************************)
(* Heaps of values with counted references (xmlrpc_data.c): the live       *)
(* values by address, and where they are referred to from.                 *)
(***************************************************************************)
EXTENDS Naturals, Sequences, FiniteSets

None == 0

(* A heap after memory has been freed, or has been allocated at a.         *)
Without(heap, gone) == [a \in DOMAIN heap \ gone |-> heap[a]]
With(heap, a, cell) == [b \in DOMAIN heap \cup {a} |->
                            IF b = a THEN cell ELSE heap[b]]

(* A new value has the reference of whoever asked for it.                  *)
Cell(kind, text) ==
    [kind |-> kind, text |-> text, refs |-> 1, items |-> <<>>]

IncRef(heap, v) == [heap EXCEPT ![v].refs = @ + 1]

(* held says of each value of the heap what it holds, in order.            *)
Places(held, v) ==
    {p \in UNION {{a} \X DOMAIN held[a] : a \in DOMAIN held} :
         held[p[1]][p[2]] = v}

(* How often v occurs in a sequence.                                       *)
Count(s, v) == Cardinality({i \in DOMAIN s : s[i] = v})
=============================================================================
