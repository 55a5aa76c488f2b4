------------------------ MODULE MethodRegistry_proofs ------------------------
(***************************************************************************)
(* What holds of MethodRegistry for every set of methods, signatures and   *)
(* requests, when a single thread uses the registry.                       *)
(*                                                                         *)
(* The list of steps of an operation is fixed when the operation begins,   *)
(* so the proof runs the list beforehand on a "heap" that only knows, of   *)
(* every value, how many references the running operation has to it, and   *)
(* of the values of the registry what they hold.  Does says what a step    *)
(* needs and does there, Run what a list does.  The invariant is that the  *)
(* steps left run from a heap that agrees with the state to one where      *)
(* nothing is left to the operation and the registry has its shape.        *)
(***************************************************************************)
EXTENDS MethodRegistry, CommonLemmas

Parts == {"methods", "key", "info", "function", "data", "signatures",
          "signature", "help", "result", "wrapped", "results"}
RootNames == {"methods", "default", "preinvoke"}
Names == UserMethods \union {SystemMethods[i] : i \in 1..5} \union Threads
             \union {"registry"} \union RootNames
Values == Names \X Nat \X Parts

(* What an array or struct may hold.                                       *)
Fits(x, a) ==
    \/ /\ a[3] = "methods"
       /\ x[3] = "key" \/ (x[3] = "info" /\ x[2] \in 1..2)
    \/ /\ a[3] = "info"
       /\ x[3] \in {"function", "data", "signatures", "help"}
       /\ x[1] = a[1] /\ x[2] = a[2]
    \/ /\ a[3] = "signatures"
       /\ x[3] = "signature"
       /\ x[1] = a[1] /\ a[2] \in 1..2
       /\ \E i \in Nat : x[2] = a[2] + 2 * i
    \/ a[3] = "result" /\ x[3] \in {"key", "signature"}
    \/ a[3] = "wrapped" /\ x[3] \in {"help", "result"}
    \/ a[3] = "results" /\ x[3] = "wrapped"

(* What the registry itself may refer to.                                  *)
FitsRoot(x, which) ==
    IF which = "methods" THEN x = Methods
    ELSE x[1] = which /\ x[2] \in 3..4 /\ x[3] = "info"

(* The values whose contents are followed.                                 *)
Tracked(a) == a[3] \in {"methods", "info", "signatures"}

(* own: the references the operation has to a value, -1 when it is not     *)
(* made yet; stale: the pointers of the registry it will overwrite.        *)
Heaps == [own : [Values -> Nat \union {-1}], items : [Values -> Seq(Values)],
          stale : SUBSET RootNames]
Heap(own, items, stale) == [own |-> own, items |-> items, stale |-> stale]

Steps == ({"new", "inc", "dec"} \X Values)
         \union ({"link", "member", "replace"} \X Values \X Values)
         \union ({"root"} \X Values \X RootNames)
         \union {<<"freed", Methods>>}

(* K are the values that are pointed to all the time.                      *)
Held(K, S, v) ==
    v \in K \/ \E a \in K : Tracked(a) /\ \E i \in DOMAIN S.items[a] :
                                              S.items[a][i] = v

DoesNew(S, v, E) ==
    /\ S.own[v] = -1
    /\ E = Heap([S.own EXCEPT ![v] = 1], [S.items EXCEPT ![v] = <<>>], S.stale)

DoesInc(K, S, v, E) ==
    /\ S.own[v] >= 1 \/ (S.own[v] = 0 /\ Held(K, S, v))
    /\ E = Heap([S.own EXCEPT ![v] = S.own[v] + 1], S.items, S.stale)

DoesDec(S, v, E) ==
    /\ S.own[v] >= 1
    /\ E = Heap([S.own EXCEPT ![v] = S.own[v] - 1], S.items, S.stale)

DoesLink(S, v, a, E) ==
    /\ S.own[v] >= 1 /\ S.own[a] >= 1
    /\ Fits(v, a)
    /\ E = Heap([S.own EXCEPT ![v] = S.own[v] - 1],
                IF Tracked(a) THEN [S.items EXCEPT ![a] = Append(S.items[a], v)]
                ELSE S.items, S.stale)

DoesMember(K, S, key, info, E) ==
    /\ Methods \in K
    /\ S.own[key] >= 1 /\ S.own[info] >= 1
    /\ key # info
    /\ Fits(key, Methods) /\ Fits(info, Methods)
    /\ E = Heap([S.own EXCEPT ![key] = S.own[key] - 1,
                              ![info] = S.own[info] - 1],
                [S.items EXCEPT ![Methods] = S.items[Methods] \o <<key, info>>],
                S.stale)

DoesReplace(K, S, info, old, E) ==
    /\ Methods \in K /\ old \notin K
    /\ S.own[info] >= 1 /\ S.own[old] >= 0
    /\ info # old
    /\ Fits(info, Methods)
    /\ \E i \in DOMAIN S.items[Methods] :
           /\ S.items[Methods][i] = old
           /\ \A j \in DOMAIN S.items[Methods] :
                  S.items[Methods][j] = old => j = i
    /\ E = Heap([S.own EXCEPT ![info] = S.own[info] - 1,
                              ![old] = S.own[old] + 1],
                [S.items EXCEPT ![Methods] =
                     [i \in DOMAIN S.items[Methods] |->
                          IF S.items[Methods][i] = old THEN info
                          ELSE S.items[Methods][i]]],
                S.stale)

DoesRoot(S, v, which, E) ==
    /\ S.own[v] >= 1
    /\ FitsRoot(v, which)
    /\ which \in S.stale
    /\ E = Heap([S.own EXCEPT ![v] = S.own[v] - 1], S.items, S.stale \ {which})

DoesFreed(S, E) ==
    /\ S.stale = RootNames
    /\ E = Heap(S.own, S.items, {})

Does(K, step, S, E) ==
    \/ step[1] = "new" /\ DoesNew(S, step[2], E)
    \/ step[1] = "inc" /\ DoesInc(K, S, step[2], E)
    \/ step[1] = "dec" /\ DoesDec(S, step[2], E)
    \/ step[1] = "link" /\ DoesLink(S, step[2], step[3], E)
    \/ step[1] = "member" /\ DoesMember(K, S, step[2], step[3], E)
    \/ step[1] = "replace" /\ DoesReplace(K, S, step[2], step[3], E)
    \/ step[1] = "root" /\ DoesRoot(S, step[2], step[3], E)
    \/ step[1] = "freed" /\ DoesFreed(S, E)

Run(K, steps, S, E) ==
    /\ steps \in Seq(Steps)
    /\ \E f \in [0..Len(steps) -> Heaps] :
           /\ f[0] = S
           /\ f[Len(steps)] = E
           /\ \A i \in 1..Len(steps) : Does(K, steps[i], f[i - 1], f[i])
-----------------------------------------------------------------------------
(* Lists of steps, put together.                                           *)

LEMMA RunNil ==
    ASSUME NEW K, NEW S \in Heaps
    PROVE  Run(K, <<>>, S, S)
<1> DEFINE f == [i \in 0..0 |-> S]
<1>1. Len(<<>>) = 0 /\ <<>> \in Seq(Steps)
  OBVIOUS
<1>2. f \in [0..0 -> Heaps] /\ f[0] = S
  OBVIOUS
<1>3. \A i \in 1..0 : Does(K, <<>>[i], f[i - 1], f[i])
  OBVIOUS
<1> HIDE DEF f
<1>4. QED
  BY <1>1, <1>2, <1>3 DEF Run

LEMMA RunOne ==
    ASSUME NEW K, NEW S \in Heaps, NEW E \in Heaps, NEW step \in Steps,
           Does(K, step, S, E)
    PROVE  Run(K, <<step>>, S, E)
<1> DEFINE f == [i \in 0..1 |-> IF i = 0 THEN S ELSE E]
<1>1. f \in [0..1 -> Heaps] /\ f[0] = S /\ f[1] = E
  OBVIOUS
<1>2. <<step>> \in Seq(Steps) /\ Len(<<step>>) = 1 /\ <<step>>[1] = step
  OBVIOUS
<1>3. \A i \in 1..1 : i = 1 /\ i - 1 = 0
  OBVIOUS
<1> HIDE DEF f
<1>4. \A i \in 1..1 : Does(K, <<step>>[i], f[i - 1], f[i])
  BY <1>1, <1>2, <1>3
<1>5. QED
  BY <1>1, <1>2, <1>4 DEF Run

LEMMA RunInHeaps ==
    ASSUME NEW K, NEW S, NEW E, NEW A, Run(K, A, S, E)
    PROVE  S \in Heaps /\ E \in Heaps /\ A \in Seq(Steps)
<1>1. PICK f \in [0..Len(A) -> Heaps] : f[0] = S /\ f[Len(A)] = E
  BY DEF Run
<1>2. A \in Seq(Steps)
  BY DEF Run
<1>3. Len(A) \in Nat
  BY <1>2
<1>4. QED
  BY <1>1, <1>2, <1>3

LEMMA RunCat ==
    ASSUME NEW K, NEW S, NEW M, NEW E, NEW A, NEW B,
           Run(K, A, S, M), Run(K, B, M, E)
    PROVE  Run(K, A \o B, S, E)
<1>1. PICK f \in [0..Len(A) -> Heaps] :
          /\ f[0] = S /\ f[Len(A)] = M
          /\ \A i \in 1..Len(A) : Does(K, A[i], f[i - 1], f[i])
  BY DEF Run
<1>2. PICK g \in [0..Len(B) -> Heaps] :
          /\ g[0] = M /\ g[Len(B)] = E
          /\ \A i \in 1..Len(B) : Does(K, B[i], g[i - 1], g[i])
  BY DEF Run
<1>3. A \in Seq(Steps) /\ B \in Seq(Steps)
  BY DEF Run
<1> DEFINE a == Len(A)
           b == Len(B)
           C == A \o B
<1>4. /\ a \in Nat /\ b \in Nat /\ C \in Seq(Steps) /\ Len(C) = a + b
      /\ \A i \in 1..(a + b) : C[i] = IF i <= a THEN A[i] ELSE B[i - a]
  BY <1>3
<1> DEFINE h == [i \in 0..(a + b) |-> IF i <= a THEN f[i] ELSE g[i - a]]
<1>5. h \in [0..(a + b) -> Heaps] /\ h[0] = S
  BY <1>1, <1>2, <1>4
<1>6. h[a + b] = E
  <2>1. CASE b = 0
    <3>1. h[a + b] = f[a]
      BY <1>4, <2>1
    <3>2. M = E
      BY <1>2, <2>1
    <3>3. QED
      BY <1>1, <3>1, <3>2
  <2>2. CASE b # 0
    <3>1. ~(a + b <= a) /\ a + b \in 0..(a + b) /\ (a + b) - a = b
      BY <1>4, <2>2
    <3>2. h[a + b] = g[b]
      BY <3>1
    <3>3. QED
      BY <1>2, <3>2
  <2>3. QED
    BY <2>1, <2>2
<1>7. ASSUME NEW i \in 1..(a + b)
      PROVE  Does(K, C[i], h[i - 1], h[i])
  <2>1. CASE i <= a
    <3>1. /\ i \in 1..a /\ i - 1 <= a /\ i - 1 \in 0..(a + b)
          /\ i \in 0..(a + b)
      BY <1>4, <2>1
    <3>2. h[i - 1] = f[i - 1] /\ h[i] = f[i] /\ C[i] = A[i]
      BY <1>4, <2>1, <3>1
    <3> HIDE DEF h, C
    <3>3. QED
      BY <1>1, <3>1, <3>2
  <2>2. CASE ~(i <= a)
    <3>1. /\ i - a \in 1..b /\ (i - a) - 1 = (i - 1) - a
          /\ i \in 0..(a + b) /\ i - 1 \in 0..(a + b)
      BY <1>4, <2>2
    <3>2. h[i] = g[i - a] /\ C[i] = B[i - a]
      BY <1>4, <2>2, <3>1
    <3>3. h[i - 1] = g[(i - a) - 1]
      <4>1. CASE i - 1 = a
        <5>1. h[i - 1] = f[a] /\ (i - a) - 1 = 0
          BY <1>4, <3>1, <4>1
        <5>2. QED
          BY <1>1, <1>2, <5>1
      <4>2. CASE i - 1 # a
        BY <1>4, <2>2, <3>1, <4>2
      <4>3. QED
        BY <4>1, <4>2
    <3> HIDE DEF h, C
    <3>4. QED
      BY <1>2, <3>1, <3>2, <3>3
  <2>3. QED
    BY <2>1, <2>2
<1> HIDE DEF h
<1>8. QED
  BY <1>4, <1>5, <1>6, <1>7 DEF Run

(* A step taken: what is left runs from where it leads.                    *)
LEMMA RunTail ==
    ASSUME NEW K, NEW S, NEW E, NEW A, Run(K, A, S, E), A # <<>>
    PROVE  /\ A[1] \in Steps
           /\ \E M \in Heaps : Does(K, A[1], S, M) /\ Run(K, Tail(A), M, E)
<1>1. PICK f \in [0..Len(A) -> Heaps] :
          /\ f[0] = S /\ f[Len(A)] = E
          /\ \A i \in 1..Len(A) : Does(K, A[i], f[i - 1], f[i])
  BY DEF Run
<1>2. A \in Seq(Steps)
  BY DEF Run
<1> DEFINE n == Len(A)
           T == Tail(A)
<1>3. /\ n \in Nat /\ n >= 1 /\ T \in Seq(Steps) /\ Len(T) = n - 1
      /\ \A i \in 1..(n - 1) : T[i] = A[i + 1]
  BY <1>2
<1> DEFINE g == [i \in 0..(n - 1) |-> f[i + 1]]
<1>4. g \in [0..Len(T) -> Heaps] /\ g[0] = f[1] /\ g[n - 1] = f[n]
  BY <1>1, <1>3
<1>5. ASSUME NEW i \in 1..Len(T)
      PROVE  Does(K, T[i], g[i - 1], g[i])
  <2>1. /\ i + 1 \in 1..n /\ (i + 1) - 1 = i /\ (i - 1) + 1 = i
        /\ i \in 0..(n - 1) /\ i - 1 \in 0..(n - 1) /\ i \in 1..(n - 1)
    BY <1>3
  <2>2. T[i] = A[i + 1] /\ g[i] = f[i + 1] /\ g[i - 1] = f[i]
    BY <1>3, <2>1
  <2> HIDE DEF g, T, n
  <2>3. QED
    BY <1>1, <2>1, <2>2 DEF n
<1>6. f[1] \in Heaps /\ Does(K, A[1], S, f[1]) /\ A[1] \in Steps
  <2>1. 1 \in 1..n /\ 1 - 1 = 0 /\ 1 \in 0..n
    BY <1>3
  <2>2. QED
    BY <1>1, <1>2, <2>1
<1>7. Run(K, T, f[1], E)
  <2> HIDE DEF g, T
  <2>1. g[Len(T)] = E
    BY <1>1, <1>3, <1>4
  <2>2. QED
    BY <1>3, <1>4, <1>5, <2>1 DEF Run
<1>8. QED
  BY <1>6, <1>7

(* A list made of lists: each leads from P[i - 1] to P[i].                 *)
LEMMA RunFlatten ==
    ASSUME NEW K, NEW ss \in Seq(Seq(Steps)), NEW P,
           \A i \in 1..Len(ss) : \A S \in P[i - 1] :
               \E E \in P[i] : Run(K, ss[i], S, E),
           NEW S \in P[0], P[0] \subseteq Heaps
    PROVE  \E E \in P[Len(ss)] : Run(K, FlattenSeq(ss), S, E)
<1> DEFINE T == {i \in Nat : i <= Len(ss) =>
                     \E E \in P[i] : Run(K, Prefix(ss, i), S, E)}
<1>0. Len(ss) \in Nat
  OBVIOUS
<1>1. 0 \in T
  <2>1. Prefix(ss, 0) = <<>>
    BY FlattenPrefixes
  <2>2. Run(K, <<>>, S, S)
    BY RunNil
  <2>3. QED
    BY <2>1, <2>2
<1>2. ASSUME NEW i \in Nat, i \in T PROVE i + 1 \in T
  <2> SUFFICES ASSUME i + 1 <= Len(ss)
               PROVE  \E E \in P[i + 1] : Run(K, Prefix(ss, i + 1), S, E)
    OBVIOUS
  <2>1. i + 1 \in 1..Len(ss) /\ (i + 1) - 1 = i /\ i <= Len(ss)
    BY <1>0
  <2>2. PICK M \in P[i] : Run(K, Prefix(ss, i), S, M)
    BY <1>2, <2>1
  <2>3. PICK E \in P[i + 1] : Run(K, ss[i + 1], M, E)
    BY <2>1, <2>2
  <2>4. Prefix(ss, i + 1) = Prefix(ss, i) \o ss[i + 1]
    BY <2>1, FlattenPrefixes
  <2>5. Run(K, Prefix(ss, i) \o ss[i + 1], S, E)
    BY <2>2, <2>3, RunCat
  <2>6. QED
    BY <2>3, <2>4, <2>5
<1> HIDE DEF T
<1>3. Len(ss) \in T
  BY <1>0, <1>1, <1>2, NatSetInduction
<1>4. Prefix(ss, Len(ss)) = FlattenSeq(ss)
  BY FlattenPrefixes
<1>5. QED
  BY <1>0, <1>3, <1>4 DEF T
-----------------------------------------------------------------------------
(* Heaps and single steps.                                                 *)

LEMMA HeapFields ==
    ASSUME NEW S \in Heaps
    PROVE  /\ S.own \in [Values -> Nat \union {-1}]
           /\ S.items \in [Values -> Seq(Values)]
           /\ S.stale \in SUBSET RootNames
           /\ S = Heap(S.own, S.items, S.stale)
BY DEF Heaps, Heap

LEMMA HeapMade ==
    ASSUME NEW own \in [Values -> Nat \union {-1}],
           NEW items \in [Values -> Seq(Values)],
           NEW stale \in SUBSET RootNames
    PROVE  Heap(own, items, stale) \in Heaps
BY DEF Heaps, Heap

LEMMA HeapParts ==
    \A own, items, stale : /\ Heap(own, items, stale).own = own
                           /\ Heap(own, items, stale).items = items
                           /\ Heap(own, items, stale).stale = stale
BY DEF Heap

LEMMA StepKinds ==
    /\ \A v \in Values : /\ <<"new", v>> \in Steps
                         /\ <<"inc", v>> \in Steps
                         /\ <<"dec", v>> \in Steps
    /\ \A v, a \in Values : /\ <<"link", v, a>> \in Steps
                            /\ <<"member", v, a>> \in Steps
                            /\ <<"replace", v, a>> \in Steps
    /\ \A v \in Values : \A which \in RootNames :
           <<"root", v, which>> \in Steps
    /\ <<"freed", Methods>> \in Steps
<1>1. \A op \in {"new", "inc", "dec"} : \A v \in Values : <<op, v>> \in Steps
  BY DEF Steps
<1>2. \A op \in {"link", "member", "replace"} : \A v, a \in Values :
          <<op, v, a>> \in Steps
  BY DEF Steps
<1>3. \A v \in Values : \A which \in RootNames : <<"root", v, which>> \in Steps
  BY DEF Steps
<1>4. <<"freed", Methods>> \in Steps
  BY DEF Steps
<1>5. QED
  BY <1>1, <1>2, <1>3, <1>4

Linked(items, a, v) ==
    IF Tracked(a) THEN [items EXCEPT ![a] = Append(items[a], v)] ELSE items

LEMMA LinkedType ==
    ASSUME NEW items \in [Values -> Seq(Values)], NEW a, NEW v \in Values
    PROVE  Linked(items, a, v) \in [Values -> Seq(Values)]
<1>1. a \in Values => Append(items[a], v) \in Seq(Values)
  OBVIOUS
<1>2. QED
  BY <1>1 DEF Linked

LEMMA RunNew ==
    ASSUME NEW K, NEW S \in Heaps, NEW v \in Values, S.own[v] = -1
    PROVE  LET E == Heap([S.own EXCEPT ![v] = 1], [S.items EXCEPT ![v] = <<>>],
                         S.stale)
           IN  E \in Heaps /\ Run(K, New(v), S, E)
<1> DEFINE own == [S.own EXCEPT ![v] = 1]
           items == [S.items EXCEPT ![v] = <<>>]
           E == Heap(own, items, S.stale)
<1>1. own \in [Values -> Nat \union {-1}] /\ items \in [Values -> Seq(Values)]
      /\ S.stale \in SUBSET RootNames
  BY HeapFields
<1>2. E \in Heaps
  BY <1>1, HeapMade
<1>3. Does(K, <<"new", v>>, S, E)
  BY DEF Does, DoesNew
<1>4. Run(K, << <<"new", v>> >>, S, E)
  BY <1>2, <1>3, StepKinds, RunOne
<1>5. QED
  BY <1>2, <1>4 DEF New

LEMMA RunInc ==
    ASSUME NEW K, NEW S \in Heaps, NEW v \in Values,
           S.own[v] >= 1 \/ (S.own[v] = 0 /\ Held(K, S, v))
    PROVE  LET E == Heap([S.own EXCEPT ![v] = S.own[v] + 1], S.items, S.stale)
           IN  E \in Heaps /\ Run(K, Inc(v), S, E)
<1> DEFINE own == [S.own EXCEPT ![v] = S.own[v] + 1]
           E == Heap(own, S.items, S.stale)
<1>1. /\ S.own \in [Values -> Nat \union {-1}] /\ S.items \in [Values -> Seq(Values)]
      /\ S.stale \in SUBSET RootNames
  BY HeapFields
<1>2. own \in [Values -> Nat \union {-1}]
  <2>1. S.own[v] + 1 \in Nat
    BY <1>1
  <2>2. QED
    BY <1>1, <2>1
<1>3. E \in Heaps
  BY <1>1, <1>2, HeapMade
<1>4. Does(K, <<"inc", v>>, S, E)
  BY DEF Does, DoesInc
<1>5. Run(K, << <<"inc", v>> >>, S, E)
  BY <1>3, <1>4, StepKinds, RunOne
<1>6. QED
  BY <1>3, <1>5 DEF Inc

LEMMA RunDec ==
    ASSUME NEW K, NEW S \in Heaps, NEW v \in Values, S.own[v] >= 1
    PROVE  LET E == Heap([S.own EXCEPT ![v] = S.own[v] - 1], S.items, S.stale)
           IN  E \in Heaps /\ Run(K, Dec(v), S, E)
<1> DEFINE own == [S.own EXCEPT ![v] = S.own[v] - 1]
           E == Heap(own, S.items, S.stale)
<1>1. /\ S.own \in [Values -> Nat \union {-1}] /\ S.items \in [Values -> Seq(Values)]
      /\ S.stale \in SUBSET RootNames
  BY HeapFields
<1>2. own \in [Values -> Nat \union {-1}]
  <2>1. S.own[v] - 1 \in Nat
    BY <1>1
  <2>2. QED
    BY <1>1, <2>1
<1>3. E \in Heaps
  BY <1>1, <1>2, HeapMade
<1>4. Does(K, <<"dec", v>>, S, E)
  BY DEF Does, DoesDec
<1>5. Run(K, << <<"dec", v>> >>, S, E)
  BY <1>3, <1>4, StepKinds, RunOne
<1>6. QED
  BY <1>3, <1>5 DEF Dec

LEMMA RunLink ==
    ASSUME NEW K, NEW S \in Heaps, NEW v \in Values, NEW a \in Values,
           S.own[v] >= 1, S.own[a] >= 1, Fits(v, a)
    PROVE  LET E == Heap([S.own EXCEPT ![v] = S.own[v] - 1],
                         Linked(S.items, a, v), S.stale)
           IN  E \in Heaps /\ Run(K, << <<"link", v, a>> >>, S, E)
<1> DEFINE own == [S.own EXCEPT ![v] = S.own[v] - 1]
           E == Heap(own, Linked(S.items, a, v), S.stale)
<1>1. /\ S.own \in [Values -> Nat \union {-1}] /\ S.items \in [Values -> Seq(Values)]
      /\ S.stale \in SUBSET RootNames
  BY HeapFields
<1>2. own \in [Values -> Nat \union {-1}]
  <2>1. S.own[v] - 1 \in Nat
    BY <1>1
  <2>2. QED
    BY <1>1, <2>1
<1>3. E \in Heaps
  BY <1>1, <1>2, LinkedType, HeapMade
<1>4. Does(K, <<"link", v, a>>, S, E)
  BY DEF Does, DoesLink, Linked
<1>5. QED
  BY <1>3, <1>4, StepKinds, RunOne

(* xmlrpc_array_get_item on a value the registry holds changes nothing in  *)
(* the end.                                                                *)
LEMMA RunGet ==
    ASSUME NEW K, NEW S \in Heaps, NEW v \in Values, v \in K, S.own[v] >= 0
    PROVE  Run(K, GetItem(v), S, S)
<1>1. /\ S.own \in [Values -> Nat \union {-1}]
      /\ S = Heap(S.own, S.items, S.stale)
      /\ S.items \in [Values -> Seq(Values)] /\ S.stale \in SUBSET RootNames
  BY HeapFields
<1>2. Held(K, S, v)
  BY DEF Held
<1> DEFINE own == [S.own EXCEPT ![v] = S.own[v] + 1]
           M == Heap(own, S.items, S.stale)
<1>3. M \in Heaps /\ Run(K, Inc(v), S, M)
  <2>1. S.own[v] >= 1 \/ (S.own[v] = 0 /\ Held(K, S, v))
    BY <1>1, <1>2
  <2>2. QED
    BY <2>1, RunInc
<1>4. own \in [Values -> Nat \union {-1}] /\ own[v] = S.own[v] + 1
      /\ [own EXCEPT ![v] = own[v] - 1] = S.own
  BY <1>1
<1> HIDE DEF own
<1>5. M.own = own /\ M.items = S.items /\ M.stale = S.stale
  BY ONLY HeapParts DEF M
<1>6. M.own[v] >= 1
  BY <1>1, <1>4, <1>5
<1>7. Run(K, Dec(v), M, Heap([M.own EXCEPT ![v] = M.own[v] - 1], M.items, M.stale))
  <2> HIDE DEF M
  <2>1. QED
    BY <1>3, <1>6, RunDec
<1>8. Run(K, Dec(v), M, S)
  BY <1>1, <1>4, <1>5, <1>7
<1>9. QED
  BY <1>3, <1>8, RunCat DEF GetItem

LEMMA RunKeyAndValue ==
    ASSUME NEW K, NEW S \in Heaps, NEW v \in Values, NEW w \in Values,
           v # w, v \in K, w \in K, S.own[v] >= 0, S.own[w] >= 0
    PROVE  Run(K, GetKeyAndValue(v, w), S, S)
<1>1. /\ S.own \in [Values -> Nat \union {-1}]
      /\ S = Heap(S.own, S.items, S.stale)
      /\ S.items \in [Values -> Seq(Values)] /\ S.stale \in SUBSET RootNames
  BY HeapFields
<1>0. S.own[v] \in Nat /\ S.own[w] \in Nat
  BY <1>1
<1>20. S.own[v] >= 1 \/ S.own[v] = 0
  BY <1>0
<1>21. S.own[w] >= 1 \/ S.own[w] = 0
  BY <1>0
<1> DEFINE o1 == [S.own EXCEPT ![v] = S.own[v] + 1]
           M1 == Heap(o1, S.items, S.stale)
           o2 == [o1 EXCEPT ![w] = o1[w] + 1]
           M2 == Heap(o2, S.items, S.stale)
           o3 == [o2 EXCEPT ![v] = o2[v] - 1]
           M3 == Heap(o3, S.items, S.stale)
           o4 == [o3 EXCEPT ![w] = o3[w] - 1]
<1>2. /\ \A T : v \in K => Held(K, T, v)
      /\ \A T : w \in K => Held(K, T, w)
  BY DEF Held
<1>3. M1 \in Heaps /\ Run(K, Inc(v), S, M1)
  <2>1. S.own[v] >= 1 \/ (S.own[v] = 0 /\ Held(K, S, v))
    BY <1>2, <1>20
  <2>2. QED
    BY <2>1, RunInc
<1>4. /\ o1 \in [Values -> Nat \union {-1}] /\ o1[w] = S.own[w]
      /\ o1[v] = S.own[v] + 1
  BY <1>0, <1>1
<1>5. /\ o2 \in [Values -> Nat \union {-1}] /\ o2[v] = S.own[v] + 1
      /\ o2[w] = S.own[w] + 1
  <2> HIDE DEF o1
  <2>1. o1[w] + 1 \in Nat
    BY <1>0, <1>4
  <2>2. QED
    BY <1>0, <1>4, <2>1
<1>6. /\ o3 \in [Values -> Nat \union {-1}]
      /\ o3[w] = S.own[w] + 1 /\ o4 = S.own
  <2>1. o3 = [S.own EXCEPT ![w] = S.own[w] + 1]
    BY <1>0, <1>1, <1>4, <1>5
  <2> HIDE DEF o3
  <2>2. o3 \in [Values -> Nat \union {-1}] /\ o3[w] = S.own[w] + 1
    BY <1>0, <1>1, <2>1
  <2>3. o4 = S.own
    BY <1>0, <1>1, <2>1, <2>2
  <2>4. QED
    BY <2>2, <2>3
<1> HIDE DEF o1, o2, o3, o4
<1>7. M1.own = o1 /\ M1.items = S.items /\ M1.stale = S.stale
  BY ONLY HeapParts DEF M1
<1>8. M2.own = o2 /\ M2.items = S.items /\ M2.stale = S.stale
  BY ONLY HeapParts DEF M2
<1>9. M3.own = o3 /\ M3.items = S.items /\ M3.stale = S.stale
  BY ONLY HeapParts DEF M3
<1> HIDE DEF M1, M2, M3
<1>10. M2 \in Heaps /\ Run(K, Inc(w), M1, M2)
  <2>1. M1.own[w] >= 1 \/ (M1.own[w] = 0 /\ Held(K, M1, w))
    BY <1>2, <1>4, <1>7, <1>21
  <2>2. /\ Heap([M1.own EXCEPT ![w] = M1.own[w] + 1], M1.items, M1.stale) \in Heaps
        /\ Run(K, Inc(w), M1,
               Heap([M1.own EXCEPT ![w] = M1.own[w] + 1], M1.items, M1.stale))
    BY <1>3, <2>1, RunInc
  <2>3. QED
    BY <1>7, <2>2 DEF M2, o2
<1>11. M3 \in Heaps /\ Run(K, Dec(v), M2, M3)
  <2>1. M2.own[v] >= 1
    BY <1>0, <1>5, <1>8
  <2>2. /\ Heap([M2.own EXCEPT ![v] = M2.own[v] - 1], M2.items, M2.stale) \in Heaps
        /\ Run(K, Dec(v), M2,
               Heap([M2.own EXCEPT ![v] = M2.own[v] - 1], M2.items, M2.stale))
    BY <1>10, <2>1, RunDec
  <2>3. QED
    BY <1>8, <2>2 DEF M3, o3
<1>12. Run(K, Dec(w), M3, S)
  <2>1. M3.own[w] >= 1
    BY <1>0, <1>6, <1>9
  <2>2. Run(K, Dec(w), M3,
            Heap([M3.own EXCEPT ![w] = M3.own[w] - 1], M3.items, M3.stale))
    BY <1>11, <2>1, RunDec
  <2>3. QED
    BY <1>1, <1>6, <1>9, <2>2 DEF o4
<1>13. Run(K, Inc(v) \o Inc(w), S, M2)
  BY <1>3, <1>10, RunCat
<1>14. Run(K, Inc(v) \o Inc(w) \o Dec(v), S, M3)
  BY <1>13, <1>11, RunCat
<1>15. QED
  BY <1>14, <1>12, RunCat DEF GetKeyAndValue

(* A value that is held is put in an array nobody looks into.              *)
LEMMA RunAppendHeld ==
    ASSUME NEW K, NEW S \in Heaps, NEW v \in Values, NEW a \in Values,
           v # a, v \in K, S.own[v] >= 0, S.own[a] >= 1, Fits(v, a), ~Tracked(a)
    PROVE  Run(K, AppendItem(a, v), S, S)
<1>1. /\ S.own \in [Values -> Nat \union {-1}]
      /\ S = Heap(S.own, S.items, S.stale)
      /\ S.items \in [Values -> Seq(Values)] /\ S.stale \in SUBSET RootNames
  BY HeapFields
<1>2. Held(K, S, v)
  BY DEF Held
<1> DEFINE own == [S.own EXCEPT ![v] = S.own[v] + 1]
           M == Heap(own, S.items, S.stale)
<1>3. M \in Heaps /\ Run(K, Inc(v), S, M)
  <2>1. S.own[v] >= 1 \/ (S.own[v] = 0 /\ Held(K, S, v))
    BY <1>1, <1>2, SMTT(20)
  <2>2. QED
    BY <2>1, RunInc
<1>4. own \in [Values -> Nat \union {-1}] /\ own[v] = S.own[v] + 1
      /\ own[a] = S.own[a] /\ [own EXCEPT ![v] = own[v] - 1] = S.own
  BY <1>1
<1> HIDE DEF own
<1>5. M.own = own /\ M.items = S.items /\ M.stale = S.stale
  BY ONLY HeapParts DEF M
<1>6. M.own[v] >= 1 /\ M.own[a] >= 1
  BY <1>1, <1>4, <1>5
<1> HIDE DEF M
<1>7. Run(K, << <<"link", v, a>> >>, M,
          Heap([M.own EXCEPT ![v] = M.own[v] - 1], Linked(M.items, a, v), M.stale))
  BY <1>3, <1>6, RunLink
<1>8. Linked(M.items, a, v) = S.items
  BY <1>5 DEF Linked
<1>9. Run(K, << <<"link", v, a>> >>, M, S)
  BY <1>1, <1>4, <1>5, <1>7, <1>8
<1>10. QED
  BY <1>3, <1>9, RunCat DEF AppendItem

(* The operation's own reference moves into an array.                      *)
LEMMA RunMove ==
    ASSUME NEW K, NEW S \in Heaps, NEW v \in Values, NEW a \in Values,
           v # a, S.own[v] >= 1, S.own[a] >= 1, Fits(v, a)
    PROVE  LET E == Heap([S.own EXCEPT ![v] = S.own[v] - 1],
                         Linked(S.items, a, v), S.stale)
           IN  E \in Heaps /\ Run(K, MoveInto(a, v), S, E)
<1>1. /\ S.own \in [Values -> Nat \union {-1}]
      /\ S.items \in [Values -> Seq(Values)] /\ S.stale \in SUBSET RootNames
  BY HeapFields
<1>0. S.own[v] \in Nat /\ S.own[v] + 1 >= 1
  BY <1>1
<1> DEFINE o1 == [S.own EXCEPT ![v] = S.own[v] + 1]
           M1 == Heap(o1, S.items, S.stale)
           i2 == Linked(S.items, a, v)
           M2 == Heap(S.own, i2, S.stale)
<1>2. M1 \in Heaps /\ Run(K, Inc(v), S, M1)
  BY RunInc
<1>3. o1 \in [Values -> Nat \union {-1}] /\ o1[v] = S.own[v] + 1
      /\ o1[a] = S.own[a] /\ [o1 EXCEPT ![v] = o1[v] - 1] = S.own
  BY <1>1
<1> HIDE DEF o1
<1>4. M1.own = o1 /\ M1.items = S.items /\ M1.stale = S.stale
  BY ONLY HeapParts DEF M1
<1>5. M1.own[v] >= 1 /\ M1.own[a] >= 1
  BY ONLY <1>0, <1>3, <1>4, S.own[a] >= 1
<1>6. i2 \in [Values -> Seq(Values)]
  BY <1>1, LinkedType
<1>7. M2 \in Heaps /\ M2.own = S.own /\ M2.items = i2 /\ M2.stale = S.stale
  <2> HIDE DEF i2
  <2>1. M2 \in Heaps
    BY <1>1, <1>6, HeapMade
  <2>2. QED
    BY <2>1, HeapParts
<1>8. Run(K, << <<"link", v, a>> >>, M1, M2)
  <2> HIDE DEF M1
  <2>1. Run(K, << <<"link", v, a>> >>, M1,
            Heap([M1.own EXCEPT ![v] = M1.own[v] - 1], Linked(M1.items, a, v),
                 M1.stale))
    BY <1>2, <1>5, RunLink
  <2>2. QED
    BY <1>3, <1>4, <2>1
<1>9. LET E == Heap([S.own EXCEPT ![v] = S.own[v] - 1], i2, S.stale)
      IN  E \in Heaps /\ Run(K, Dec(v), M2, E)
  <2> HIDE DEF M2, i2
  <2>1. M2.own[v] >= 1
    BY <1>7
  <2>2. LET E == Heap([M2.own EXCEPT ![v] = M2.own[v] - 1], M2.items, M2.stale)
        IN  E \in Heaps /\ Run(K, Dec(v), M2, E)
    BY <1>7, <2>1, RunDec
  <2>3. QED
    BY <1>7, <2>2
<1>10. Run(K, AppendItem(a, v), S, M2)
  BY <1>2, <1>8, RunCat DEF AppendItem
<1> HIDE DEF M2, i2
<1>11. Run(K, MoveInto(a, v), S,
           Heap([S.own EXCEPT ![v] = S.own[v] - 1], i2, S.stale))
  BY <1>9, <1>10, RunCat DEF MoveInto
<1>12. QED
  BY <1>9, <1>11 DEF i2

(* A new value is made and moved into an array.                            *)
LEMMA RunItem ==
    ASSUME NEW K, NEW S \in Heaps, NEW v \in Values, NEW a \in Values,
           v # a, S.own[v] = -1, S.own[a] >= 1, Fits(v, a)
    PROVE  LET E == Heap([S.own EXCEPT ![v] = 0],
                         Linked([S.items EXCEPT ![v] = <<>>], a, v), S.stale)
           IN  E \in Heaps /\ Run(K, New(v) \o MoveInto(a, v), S, E)
<1>1. /\ S.own \in [Values -> Nat \union {-1}]
      /\ S.items \in [Values -> Seq(Values)] /\ S.stale \in SUBSET RootNames
  BY HeapFields
<1> DEFINE o1 == [S.own EXCEPT ![v] = 1]
           i1 == [S.items EXCEPT ![v] = <<>>]
           M == Heap(o1, i1, S.stale)
<1>2. M \in Heaps /\ Run(K, New(v), S, M)
  BY RunNew
<1>3. o1 \in [Values -> Nat \union {-1}] /\ o1[v] = 1
      /\ o1[a] = S.own[a] /\ [o1 EXCEPT ![v] = o1[v] - 1] = [S.own EXCEPT ![v] = 0]
      /\ i1 \in [Values -> Seq(Values)]
  BY <1>1
<1>4. M.own = o1 /\ M.items = i1 /\ M.stale = S.stale
  BY ONLY HeapParts DEF M
<1> HIDE DEF M
<1>5. LET E == Heap([M.own EXCEPT ![v] = M.own[v] - 1], Linked(M.items, a, v),
                    M.stale)
      IN  E \in Heaps /\ Run(K, MoveInto(a, v), M, E)
  BY <1>2, <1>3, <1>4, RunMove
<1> DEFINE E == Heap([S.own EXCEPT ![v] = 0], Linked(i1, a, v), S.stale)
<1>6. E \in Heaps /\ Run(K, MoveInto(a, v), M, E)
  BY <1>3, <1>4, <1>5
<1> HIDE DEF E
<1>7. Run(K, New(v) \o MoveInto(a, v), S, E)
  BY <1>2, <1>6, RunCat
<1>8. QED
  BY <1>6, <1>7 DEF E
-----------------------------------------------------------------------------
(* The pointers to a value, counted.                                       *)

(* k holds sequences, for finitely many arrays.                            *)
Contents(k) ==
    IsFiniteSet(DOMAIN k) /\ k \in [DOMAIN k -> Seq(Values)]

LEMMA PlacesFinite ==
    ASSUME NEW k, Contents(k), NEW v
    PROVE  IsFiniteSet(Places(k, v)) /\ Cardinality(Places(k, v)) \in Nat
<1>1. HoldsSeqs(k, Values)
  BY DEF Contents, HoldsSeqs
<1>2. QED
  BY <1>1, PlacesFiniteIn

LEMMA PlacesNew ==
    ASSUME NEW k, NEW v, v \notin DOMAIN k, NEW x
    PROVE  Places([u \in DOMAIN k \union {v} |-> IF u = v THEN <<>> ELSE k[u]], x)
               = Places(k, x)
<1> DEFINE k2 == [u \in DOMAIN k \union {v} |-> IF u = v THEN <<>> ELSE k[u]]
<1>1. /\ DOMAIN k2 = DOMAIN k \union {v}
      /\ \A u \in DOMAIN k : u # v /\ k2[u] = k[u]
      /\ DOMAIN k2[v] = {}
  OBVIOUS
<1> HIDE DEF k2
<1>2. \A p \in Places(k2, x) : p \in Places(k, x)
  <2> SUFFICES ASSUME NEW p \in Places(k2, x) PROVE p \in Places(k, x)
    OBVIOUS
  <2>1. /\ p = <<p[1], p[2]>> /\ p[1] \in DOMAIN k2
        /\ p[2] \in DOMAIN k2[p[1]] /\ k2[p[1]][p[2]] = x
    BY PlacesAre
  <2>2. p[1] \in DOMAIN k
    BY <1>1, <2>1
  <2>3. QED
    BY <1>1, <2>1, <2>2, PlacesAre
<1>3. \A p \in Places(k, x) : p \in Places(k2, x)
  <2> SUFFICES ASSUME NEW p \in Places(k, x) PROVE p \in Places(k2, x)
    OBVIOUS
  <2>1. /\ p = <<p[1], p[2]>> /\ p[1] \in DOMAIN k
        /\ p[2] \in DOMAIN k[p[1]] /\ k[p[1]][p[2]] = x
    BY PlacesAre
  <2>2. QED
    BY <1>1, <2>1, PlacesAre
<1>4. Places(k2, x) = Places(k, x)
  BY <1>2, <1>3
<1>5. QED
  BY <1>4 DEF k2

LEMMA PlacesAppend ==
    ASSUME NEW k, Contents(k), NEW a \in DOMAIN k, NEW v \in Values,
           NEW k2 \in [DOMAIN k -> Seq(Values)],
           k2[a] = Append(k[a], v), \A u \in DOMAIN k : u # a => k2[u] = k[u]
    PROVE  /\ Contents(k2) /\ DOMAIN k2 = DOMAIN k
           /\ \E p : /\ p \notin Places(k, v)
                     /\ Places(k2, v) = Places(k, v) \union {p}
           /\ \A x : x # v => Places(k2, x) = Places(k, x)
<1> DEFINE n == Len(k[a])
           p == <<a, n + 1>>
<1>1. k[a] \in Seq(Values) /\ k \in [DOMAIN k -> Seq(Values)]
  BY DEF Contents
<1>2. /\ n \in Nat /\ DOMAIN k[a] = 1..n
      /\ Append(k[a], v) \in Seq(Values)
      /\ DOMAIN Append(k[a], v) = 1..(n + 1)
      /\ \A i \in 1..n : Append(k[a], v)[i] = k[a][i]
      /\ Append(k[a], v)[n + 1] = v
  BY <1>1
<1>3. /\ DOMAIN k2 = DOMAIN k /\ k2[a] = Append(k[a], v)
      /\ \A u \in DOMAIN k : u # a => k2[u] = k[u]
      /\ k2 \in [DOMAIN k -> Seq(Values)]
  OBVIOUS
<1>4. Contents(k2)
  BY <1>3 DEF Contents
<1>5. p \notin Places(k, v)
  <2> SUFFICES ASSUME p \in Places(k, v) PROVE FALSE
    OBVIOUS
  <2>1. p[2] \in DOMAIN k[p[1]] /\ p[1] = a /\ p[2] = n + 1
    BY PlacesAre
  <2>2. n + 1 \in 1..n
    BY <1>2, <2>1
  <2>3. QED
    BY <1>2, <2>2
<1>6. ASSUME NEW x, NEW q \in Places(k, x)
      PROVE  q \in Places(k2, x)
  <2>1. /\ q = <<q[1], q[2]>> /\ q[1] \in DOMAIN k
        /\ q[2] \in DOMAIN k[q[1]] /\ k[q[1]][q[2]] = x
    BY PlacesAre
  <2>2. CASE q[1] = a
    <3>1. q[2] \in 1..n /\ q[2] \in 1..(n + 1)
      BY <1>2, <2>1, <2>2
    <3>2. q[2] \in DOMAIN k2[q[1]] /\ k2[q[1]][q[2]] = x
      BY <1>2, <1>3, <2>1, <2>2, <3>1
    <3>3. QED
      BY <1>3, <2>1, <3>2, PlacesAre
  <2>3. CASE q[1] # a
    BY <1>3, <2>1, <2>3, PlacesAre
  <2>4. QED
    BY <2>2, <2>3
<1>7. p \in Places(k2, v)
  <2>1. n + 1 \in 1..(n + 1)
    BY <1>2
  <2>2. n + 1 \in DOMAIN k2[a] /\ k2[a][n + 1] = v /\ a \in DOMAIN k2
    BY <1>2, <1>3, <2>1
  <2>3. QED
    BY <2>2, PlacesAre
<1>8. ASSUME NEW x, NEW q \in Places(k2, x)
      PROVE  q \in Places(k, x) \/ (x = v /\ q = p)
  <2>1. /\ q = <<q[1], q[2]>> /\ q[1] \in DOMAIN k2
        /\ q[2] \in DOMAIN k2[q[1]] /\ k2[q[1]][q[2]] = x
    BY PlacesAre
  <2>2. CASE q[1] = a
    <3>1. q[2] \in 1..(n + 1)
      BY <1>2, <1>3, <2>1, <2>2
    <3>2. CASE q[2] = n + 1
      BY <1>2, <1>3, <2>1, <2>2, <3>2
    <3>3. CASE q[2] # n + 1
      <4>1. q[2] \in 1..n
        BY <1>2, <3>1, <3>3
      <4>2. q[2] \in DOMAIN k[q[1]] /\ k[q[1]][q[2]] = x
        BY <1>2, <1>3, <2>1, <2>2, <4>1
      <4>3. QED
        BY <2>1, <2>2, <4>2, PlacesAre
    <3>4. QED
      BY <3>2, <3>3
  <2>3. CASE q[1] # a
    BY <1>3, <2>1, <2>3, PlacesAre
  <2>4. QED
    BY <2>2, <2>3
<1>9. Places(k2, v) = Places(k, v) \union {p}
  <2> HIDE DEF p
  <2>1. \A q : q \in Places(k2, v) <=> q \in Places(k, v) \/ q = p
    BY <1>6, <1>7, <1>8
  <2>2. QED
    BY <2>1
<1>10. ASSUME NEW x, x # v PROVE Places(k2, x) = Places(k, x)
  <2>1. \A q : q \in Places(k2, x) <=> q \in Places(k, x)
    BY <1>6, <1>8, <1>10
  <2>2. QED
    BY <2>1
<1> HIDE DEF p
<1>11. QED
  BY <1>3, <1>4, <1>5, <1>9, <1>10

(* One place, the i-th of a, changes hands.                                *)
Replaced(k, a, i, old, v, k2) ==
    /\ a \in DOMAIN k /\ v \in Values /\ old # v
    /\ i \in DOMAIN k[a] /\ k[a][i] = old
    /\ \A j \in DOMAIN k[a] : k[a][j] = old => j = i
    /\ k2 \in [DOMAIN k -> Seq(Values)]
    /\ DOMAIN k2[a] = DOMAIN k[a]
    /\ \A j \in DOMAIN k[a] : k2[a][j] = IF k[a][j] = old THEN v ELSE k[a][j]
    /\ \A u \in DOMAIN k : u # a => k2[u] = k[u]

LEMMA PlacesReplace ==
    ASSUME NEW k, Contents(k), NEW a, NEW i, NEW old, NEW v, NEW k2,
           Replaced(k, a, i, old, v, k2)
    PROVE  /\ Contents(k2) /\ DOMAIN k2 = DOMAIN k
           /\ \E p : /\ p \notin Places(k, v) /\ p \in Places(k, old)
                     /\ Places(k2, v) = Places(k, v) \union {p}
                     /\ Places(k2, old) = Places(k, old) \ {p}
           /\ \A x : x # v /\ x # old => Places(k2, x) = Places(k, x)
<1> DEFINE p == <<a, i>>
<1>1. /\ a \in DOMAIN k /\ v \in Values /\ old # v
      /\ i \in DOMAIN k[a] /\ k[a][i] = old
      /\ \A j \in DOMAIN k[a] : k[a][j] = old => j = i
      /\ k2 \in [DOMAIN k -> Seq(Values)]
  BY DEF Replaced
<1>2. /\ DOMAIN k2[a] = DOMAIN k[a] /\ k2[a][i] = v
      /\ \A j \in DOMAIN k[a] : j # i => k2[a][j] = k[a][j]
  BY DEF Replaced
<1>3. DOMAIN k2 = DOMAIN k /\ \A u \in DOMAIN k : u # a => k2[u] = k[u]
  BY DEF Replaced
<1>4. Contents(k2)
  BY <1>1, <1>3 DEF Contents
<1>5. p \in Places(k, old)
  BY <1>1, PlacesAre
<1>6. p \notin Places(k, v)
  <2> SUFFICES ASSUME p \in Places(k, v) PROVE FALSE
    OBVIOUS
  <2>1. k[p[1]][p[2]] = v /\ p[1] = a /\ p[2] = i
    BY PlacesAre
  <2>2. QED
    BY <1>1, <2>1
<1>7. ASSUME NEW x, NEW q \in Places(k, x), q # p
      PROVE  q \in Places(k2, x)
  <2>1. /\ q = <<q[1], q[2]>> /\ q[1] \in DOMAIN k
        /\ q[2] \in DOMAIN k[q[1]] /\ k[q[1]][q[2]] = x
    BY PlacesAre
  <2>2. CASE q[1] = a
    <3>1. q[2] # i
      BY <1>7, <2>1, <2>2
    <3>2. q[2] \in DOMAIN k2[q[1]] /\ k2[q[1]][q[2]] = x
      BY <1>2, <1>3, <2>1, <2>2, <3>1
    <3>3. QED
      BY <1>3, <2>1, <3>2, PlacesAre
  <2>3. CASE q[1] # a
    BY <1>3, <2>1, <2>3, PlacesAre
  <2>4. QED
    BY <2>2, <2>3
<1>8. p \in Places(k2, v)
  BY <1>1, <1>2, <1>3, PlacesAre
<1>9. ASSUME NEW x, NEW q \in Places(k2, x)
      PROVE  (q \in Places(k, x) /\ q # p) \/ (x = v /\ q = p)
  <2>1. /\ q = <<q[1], q[2]>> /\ q[1] \in DOMAIN k2
        /\ q[2] \in DOMAIN k2[q[1]] /\ k2[q[1]][q[2]] = x
    BY PlacesAre
  <2>2. CASE q[1] = a /\ q[2] = i
    BY <1>1, <1>2, <1>3, <2>1, <2>2
  <2>3. CASE q[1] = a /\ q[2] # i
    <3>1. q[2] \in DOMAIN k[q[1]] /\ k[q[1]][q[2]] = x
      BY <1>2, <1>3, <2>1, <2>3
    <3>2. q \in Places(k, x)
      BY <1>1, <2>1, <2>3, <3>1, PlacesAre
    <3>3. q # p
      BY <2>3
    <3>4. QED
      BY <3>2, <3>3
  <2>4. CASE q[1] # a
    <3>1. q \in Places(k, x)
      BY <1>3, <2>1, <2>4, PlacesAre
    <3>2. q # p
      BY <2>4
    <3>3. QED
      BY <3>1, <3>2
  <2>5. QED
    BY <2>2, <2>3, <2>4
<1>10. \A x : p \in Places(k, x) => x = old
  <2> SUFFICES ASSUME NEW x, p \in Places(k, x) PROVE x = old
    OBVIOUS
  <2>1. k[p[1]][p[2]] = x /\ p[1] = a /\ p[2] = i
    BY PlacesAre
  <2>2. QED
    BY <1>1, <2>1
<1> HIDE DEF p
<1>11. Places(k2, v) = Places(k, v) \union {p}
  <2>1. \A q : q \in Places(k2, v) <=> q \in Places(k, v) \/ q = p
    BY <1>6, <1>7, <1>8, <1>9
  <2>2. QED
    BY <2>1
<1>12. Places(k2, old) = Places(k, old) \ {p}
  <2>1. \A q : q \in Places(k2, old) <=> q \in Places(k, old) /\ q # p
    BY <1>1, <1>7, <1>9
  <2>2. QED
    BY <2>1
<1>13. ASSUME NEW x, x # v, x # old PROVE Places(k2, x) = Places(k, x)
  <2>1. \A q : q \in Places(k2, x) <=> q \in Places(k, x)
    BY <1>7, <1>9, <1>10, <1>13
  <2>2. QED
    BY <2>1
<1>14. QED
  BY <1>3, <1>4, <1>5, <1>6, <1>11, <1>12, <1>13

LEMMA CountFinite ==
    ASSUME NEW s \in Seq(Values), NEW v, NEW I \in SUBSET DOMAIN s
    PROVE  LET C == {i \in I : s[i] = v}
           IN  IsFiniteSet(C) /\ Cardinality(C) \in Nat
<1> DEFINE C == {i \in I : s[i] = v}
<1>1. Len(s) \in Nat /\ DOMAIN s = 1..Len(s)
  OBVIOUS
<1>2. IsFiniteSet(1..Len(s))
  BY <1>1, FS_Interval
<1>3. C \in SUBSET (1..Len(s))
  BY <1>1
<1> HIDE DEF C
<1>4. IsFiniteSet(C)
  BY <1>2, <1>3, FS_Subset
<1>5. IsFiniteSet(C) /\ Cardinality(C) \in Nat
  BY <1>4, FS_CardinalityType
<1>6. QED
  BY <1>5 DEF C

(* An array is gone, and with it the places in it.                         *)
LEMMA PlacesDrop ==
    ASSUME NEW k, Contents(k), NEW v \in DOMAIN k, NEW x
    PROVE  LET k2 == [u \in DOMAIN k \ {v} |-> k[u]]
           IN  /\ Contents(k2) /\ DOMAIN k2 = DOMAIN k \ {v}
               /\ Places(k2, x) \subseteq Places(k, x)
               /\ Count(k[v], x) \in Nat
               /\ Count(k[v], x) # 0 => Places(k, x) # {}
               /\ Cardinality(Places(k, x))
                      = Cardinality(Places(k2, x)) + Count(k[v], x)
<1> DEFINE k2 == [u \in DOMAIN k \ {v} |-> k[u]]
           I == {i \in DOMAIN k[v] : k[v][i] = x}
           Q == {v} \X I
<1>1. k[v] \in Seq(Values) /\ k \in [DOMAIN k -> Seq(Values)]
      /\ IsFiniteSet(DOMAIN k)
  BY DEF Contents
<1>2. /\ DOMAIN k2 = DOMAIN k \ {v}
      /\ \A u \in DOMAIN k : u # v => k2[u] = k[u]
      /\ k2 \in [DOMAIN k \ {v} -> Seq(Values)]
  BY <1>1
<1>3. Contents(k2)
  <2>1. IsFiniteSet(DOMAIN k \ {v})
    BY <1>1, FS_RemoveElement
  <2> HIDE DEF k2
  <2>2. QED
    BY <1>2, <2>1 DEF Contents
<1> HIDE DEF k2
<1>4. IsFiniteSet(I) /\ Cardinality(I) \in Nat
  BY <1>1, CountFinite
<1> HIDE DEF I
<1>5. IsFiniteSet(Q) /\ Cardinality(Q) = Cardinality(I)
  <2>1. IsFiniteSet({v}) /\ Cardinality({v}) = 1
    BY FS_Singleton
  <2>2. IsFiniteSet(Q) /\ Cardinality(Q) = 1 * Cardinality(I)
    BY <1>4, <2>1, FS_Product
  <2> HIDE DEF Q
  <2>3. QED
    BY <1>4, <2>2
<1>6. ASSUME NEW q \in Places(k2, x)
      PROVE  q \in Places(k, x) /\ q \notin Q
  <2>1. /\ q = <<q[1], q[2]>> /\ q[1] \in DOMAIN k2
        /\ q[2] \in DOMAIN k2[q[1]] /\ k2[q[1]][q[2]] = x
    BY PlacesAre
  <2>2. q[1] \in DOMAIN k /\ q[1] # v /\ k2[q[1]] = k[q[1]]
    BY <1>2, <2>1
  <2>3. QED
    BY <2>1, <2>2, PlacesAre
<1>7. ASSUME NEW q \in Places(k, x)
      PROVE  q \in Places(k2, x) \/ q \in Q
  <2>1. /\ q = <<q[1], q[2]>> /\ q[1] \in DOMAIN k
        /\ q[2] \in DOMAIN k[q[1]] /\ k[q[1]][q[2]] = x
    BY PlacesAre
  <2>2. CASE q[1] = v
    <3>1. q[2] \in I
      BY <2>1, <2>2 DEF I
    <3>2. QED
      BY <2>1, <2>2, <3>1
  <2>3. CASE q[1] # v
    BY <1>2, <2>1, <2>3, PlacesAre
  <2>4. QED
    BY <2>2, <2>3
<1>8. ASSUME NEW q \in Q
      PROVE  q \in Places(k, x)
  <2>1. q = <<v, q[2]>> /\ q[2] \in I
    OBVIOUS
  <2>2. q[2] \in DOMAIN k[v] /\ k[v][q[2]] = x
    BY <2>1 DEF I
  <2>3. QED
    BY <2>1, <2>2, PlacesAre
<1>9. Places(k, x) = Places(k2, x) \union Q /\ Places(k2, x) \cap Q = {}
  <2> HIDE DEF Q
  <2>1. \A q : q \in Places(k, x) <=> q \in Places(k2, x) \/ q \in Q
    BY <1>6, <1>7, <1>8
  <2>2. Places(k, x) = Places(k2, x) \union Q
    BY <2>1
  <2>3. QED
    BY <2>2, <1>6
<1> HIDE DEF Q
<1>10. IsFiniteSet(Places(k2, x)) /\ Cardinality(Places(k2, x)) \in Nat
  BY <1>3, PlacesFinite
<1>11. Cardinality(Places(k, x))
           = Cardinality(Places(k2, x)) + Cardinality(Q) - Cardinality({})
  BY <1>5, <1>9, <1>10, FS_Union
<1>12. Cardinality({}) = 0
  BY FS_EmptySet
<1>13. Cardinality(Places(k, x)) = Cardinality(Places(k2, x)) + Cardinality(I)
  BY ONLY <1>4, <1>5, <1>10, <1>11, <1>12
<1>14. Count(k[v], x) = Cardinality(I)
  BY DEF Count, I
<1>15. Cardinality(I) # 0 => Places(k, x) # {}
  <2> SUFFICES ASSUME Places(k, x) = {} PROVE Cardinality(I) = 0
    OBVIOUS
  <2>1. Q = {}
    BY <1>9
  <2>2. QED
    BY <1>5, <1>12, <2>1
<1>16. Places(k2, x) \subseteq Places(k, x)
  BY <1>6
<1>17. QED
  BY <1>2, <1>3, <1>4, <1>13, <1>14, <1>15, <1>16 DEF k2
-----------------------------------------------------------------------------
(* The state, and the heaps that agree with it.                            *)

Sound(rf, k, r) ==
    /\ DOMAIN rf \subseteq Values
    /\ rf \in [DOMAIN rf -> Nat \ {0}]
    /\ DOMAIN k = DOMAIN rf /\ Contents(k)
    /\ \A a \in DOMAIN k : \A i \in DOMAIN k[a] : Fits(k[a][i], a)
    /\ r \in [RootNames -> Values \union {NoValue}]
    /\ \A which \in RootNames :
           r[which] # NoValue => FitsRoot(r[which], which)

RootPlaces(r, stale, v) == {which \in RootNames \ stale : r[which] = v}

Pointers(k, r, stale, v) ==
    Cardinality(Places(k, v)) + Cardinality(RootPlaces(r, stale, v))

(* A value that is allocated has its pointers and the references of the    *)
(* operation; one that is not has neither.                                 *)
BalancedAt(rf, k, r, S, v) ==
    /\ v \in DOMAIN rf =>
           /\ S.own[v] >= 0
           /\ rf[v] = Pointers(k, r, S.stale, v) + S.own[v]
           /\ Tracked(v) => k[v] = S.items[v]
    /\ v \notin DOMAIN rf =>
           /\ S.own[v] <= 0
           /\ Places(k, v) = {} /\ RootPlaces(r, S.stale, v) = {}

Balanced(rf, k, r, S) == \A v \in Values : BalancedAt(rf, k, r, S, v)

Kept(k, r, stale, K) ==
    /\ K \subseteq Values
    /\ \A v \in K : \/ \E which \in RootNames \ stale : r[which] = v
                    \/ \E a \in K : /\ a \in DOMAIN k
                                    /\ \E i \in DOMAIN k[a] : k[a][i] = v

LEMMA PointersCount ==
    ASSUME NEW k, Contents(k), NEW r, NEW stale, NEW v
    PROVE  /\ IsFiniteSet(Places(k, v)) /\ Cardinality(Places(k, v)) \in Nat
           /\ IsFiniteSet(RootPlaces(r, stale, v))
           /\ Cardinality(RootPlaces(r, stale, v)) \in Nat
           /\ Pointers(k, r, stale, v) \in Nat
           /\ Pointers(k, r, stale, v) = 0
                  <=> Places(k, v) = {} /\ RootPlaces(r, stale, v) = {}
<1>1. IsFiniteSet(Places(k, v)) /\ Cardinality(Places(k, v)) \in Nat
  BY PlacesFinite
<1>2. IsFiniteSet(RootNames)
  <2>1. IsFiniteSet({"methods"})
    BY FS_Singleton
  <2>2. IsFiniteSet({"methods"} \union {"default"})
    BY <2>1, FS_AddElement
  <2>3. IsFiniteSet(({"methods"} \union {"default"}) \union {"preinvoke"})
    BY <2>2, FS_AddElement
  <2>4. RootNames = ({"methods"} \union {"default"}) \union {"preinvoke"}
    BY DEF RootNames
  <2>5. QED
    BY <2>3, <2>4
<1>3. RootPlaces(r, stale, v) \in SUBSET RootNames
  BY DEF RootPlaces
<1>4. IsFiniteSet(RootPlaces(r, stale, v))
  BY <1>2, <1>3, FS_Subset
<1>5. Cardinality(RootPlaces(r, stale, v)) \in Nat
  BY <1>4, FS_CardinalityType
<1>6. /\ Cardinality(Places(k, v)) = 0 <=> Places(k, v) = {}
      /\ Cardinality(RootPlaces(r, stale, v)) = 0 <=> RootPlaces(r, stale, v) = {}
  BY <1>1, <1>4, FS_EmptySet
<1>7. QED
  BY <1>1, <1>4, <1>5, <1>6 DEF Pointers

(* What the operation refers to is allocated, and so is what is held.      *)
LEMMA OwnedLive ==
    ASSUME NEW rf, NEW k, NEW r, NEW S \in Heaps, NEW v \in Values,
           Balanced(rf, k, r, S), S.own[v] >= 1
    PROVE  v \in DOMAIN rf
<1>1. S.own[v] \in Nat \union {-1}
  BY HeapFields
<1>2. ~(S.own[v] <= 0)
  BY <1>1
<1>3. QED
  BY <1>2 DEF Balanced, BalancedAt

LEMMA KeptLive ==
    ASSUME NEW rf, NEW k, NEW r, NEW S \in Heaps, NEW K,
           Sound(rf, k, r), Balanced(rf, k, r, S), Kept(k, r, S.stale, K)
    PROVE  /\ \A v \in K : v \in DOMAIN rf /\ Pointers(k, r, S.stale, v) # 0
           /\ \A v \in Values : Held(K, S, v) =>
                  v \in DOMAIN rf /\ Pointers(k, r, S.stale, v) # 0
<1>1. K \subseteq Values /\ DOMAIN k = DOMAIN rf /\ Contents(k)
  BY DEF Kept, Sound
<1>2. ASSUME NEW v \in Values,
             Places(k, v) # {} \/ RootPlaces(r, S.stale, v) # {}
      PROVE  v \in DOMAIN rf /\ Pointers(k, r, S.stale, v) # 0
  <2>1. v \in DOMAIN rf
    BY <1>2 DEF Balanced, BalancedAt
  <2>2. QED
    BY <1>1, <1>2, <2>1, PointersCount
<1>3. ASSUME NEW v \in K
      PROVE  v \in DOMAIN rf /\ Pointers(k, r, S.stale, v) # 0
  <2>1. CASE \E which \in RootNames \ S.stale : r[which] = v
    <3>1. RootPlaces(r, S.stale, v) # {}
      BY <2>1 DEF RootPlaces
    <3>2. QED
      BY <1>1, <1>2, <3>1
  <2>2. CASE \E a \in DOMAIN k : \E i \in DOMAIN k[a] : k[a][i] = v
    <3>1. Places(k, v) # {}
      BY <2>2, PlacesAre
    <3>2. QED
      BY <1>1, <1>2, <3>1
  <2>3. QED
    BY <2>1, <2>2 DEF Kept
<1>4. ASSUME NEW v \in Values, Held(K, S, v)
      PROVE  v \in DOMAIN rf /\ Pointers(k, r, S.stale, v) # 0
  <2>1. CASE v \in K
    BY <1>3, <2>1
  <2>2. CASE \E a \in K : Tracked(a) /\ \E i \in DOMAIN S.items[a] :
                                              S.items[a][i] = v
    <3>1. PICK a \in K : Tracked(a) /\ \E i \in DOMAIN S.items[a] :
                                              S.items[a][i] = v
      BY <2>2
    <3>2. a \in DOMAIN rf /\ a \in Values
      BY <1>1, <1>3
    <3>3. k[a] = S.items[a]
      BY <3>1, <3>2 DEF Balanced, BalancedAt
    <3>4. Places(k, v) # {}
      BY <1>1, <3>1, <3>2, <3>3, PlacesAre
    <3>5. QED
      BY <1>2, <3>4
  <2>3. QED
    BY <1>4, <2>1, <2>2 DEF Held
<1>5. QED
  BY <1>3, <1>4
-----------------------------------------------------------------------------
(* Each step of the state is a step of the heap.                           *)

Agrees(rf, k, r, S, K) ==
    /\ Sound(rf, k, r)
    /\ Balanced(rf, k, r, S)
    /\ Kept(k, r, S.stale, K)

(* Kept only needs the places of the values in K to remain.                *)
LEMMA KeptStays ==
    ASSUME NEW k, NEW k2, NEW r, NEW stale, NEW K,
           Kept(k, r, stale, K), K \subseteq DOMAIN k2,
           \A a \in K : \A i \in DOMAIN k[a] :
               k[a][i] \in K => i \in DOMAIN k2[a] /\ k2[a][i] = k[a][i]
    PROVE  Kept(k2, r, stale, K)
<1> SUFFICES ASSUME NEW v \in K
             PROVE  \/ \E which \in RootNames \ stale : r[which] = v
                    \/ \E a \in K : /\ a \in DOMAIN k2
                                    /\ \E i \in DOMAIN k2[a] : k2[a][i] = v
  BY DEF Kept
<1>1. CASE \E which \in RootNames \ stale : r[which] = v
  BY <1>1
<1>2. CASE \E a \in K : /\ a \in DOMAIN k
                        /\ \E i \in DOMAIN k[a] : k[a][i] = v
  <2>1. PICK a \in K : \E i \in DOMAIN k[a] : k[a][i] = v
    BY <1>2
  <2>2. PICK i \in DOMAIN k[a] : k[a][i] = v
    BY <2>1
  <2>3. i \in DOMAIN k2[a] /\ k2[a][i] = v
    BY <2>1, <2>2
  <2>4. a \in DOMAIN k2
    BY <2>1
  <2>5. QED
    BY <2>1, <2>3, <2>4
<1>3. QED
  BY <1>1, <1>2 DEF Kept

(* f with x at v.                                                          *)
Put(f, v, x) == [u \in DOMAIN f \union {v} |-> IF u = v THEN x ELSE f[u]]

LEMMA StepNew ==
    ASSUME NEW rf, NEW k, NEW r, NEW K, NEW S \in Heaps, NEW E \in Heaps,
           Agrees(rf, k, r, S, K), NEW v \in Values, DoesNew(S, v, E)
    PROVE  Agrees(Put(rf, v, 1), Put(k, v, <<>>), r, E, K)
<1> DEFINE rf2 == [u \in DOMAIN rf \union {v} |-> IF u = v THEN 1 ELSE rf[u]]
           k2 == [u \in DOMAIN k \union {v} |-> IF u = v THEN <<>> ELSE k[u]]
<1>1. Sound(rf, k, r) /\ Balanced(rf, k, r, S) /\ Kept(k, r, S.stale, K)
  BY DEF Agrees
<1>2. /\ E.own = [S.own EXCEPT ![v] = 1] /\ E.stale = S.stale
      /\ E.items = [S.items EXCEPT ![v] = <<>>] /\ S.own[v] = -1
  BY HeapParts DEF DoesNew
<1>3. S.own \in [Values -> Nat \union {-1}] /\ S.items \in [Values -> Seq(Values)]
  BY HeapFields
<1>4. v \notin DOMAIN rf
  <2>1. ~(S.own[v] >= 0)
    BY <1>2
  <2>2. QED
    BY <1>1, <2>1 DEF Balanced, BalancedAt
<1>5. DOMAIN k = DOMAIN rf /\ Contents(k) /\ v \notin DOMAIN k
  BY <1>1, <1>4 DEF Sound
<1>6. \A x : Places(k2, x) = Places(k, x)
  BY <1>5, PlacesNew
<1>7. /\ DOMAIN rf2 = DOMAIN rf \union {v} /\ DOMAIN k2 = DOMAIN k \union {v}
      /\ rf2[v] = 1 /\ k2[v] = <<>>
      /\ \A u \in DOMAIN rf : u # v /\ rf2[u] = rf[u] /\ k2[u] = k[u]
  BY <1>4, <1>5
<1>8. Contents(k2)
  <2>1. IsFiniteSet(DOMAIN k \union {v})
    BY <1>5, FS_AddElement DEF Contents
  <2>2. k \in [DOMAIN k -> Seq(Values)]
    BY <1>5 DEF Contents
  <2>3. k2 \in [DOMAIN k \union {v} -> Seq(Values)]
    <3>1. <<>> \in Seq(Values)
      OBVIOUS
    <3>2. QED
      BY <2>2, <3>1
  <2> HIDE DEF k2
  <2>4. QED
    BY <1>7, <2>1, <2>3 DEF Contents
<1>9. rf2 \in [DOMAIN rf2 -> Nat \ {0}]
  <2>1. rf \in [DOMAIN rf -> Nat \ {0}]
    BY <1>1 DEF Sound
  <2>2. QED
    BY <1>4, <2>1
<1> HIDE DEF rf2, k2
<1>10. Sound(rf2, k2, r)
  <2>1. DOMAIN k2[v] = {}
    BY <1>7
  <2>2. \A a \in DOMAIN k2 : \A i \in DOMAIN k2[a] : Fits(k2[a][i], a)
    BY <1>1, <1>5, <1>7, <2>1 DEF Sound
  <2>3. QED
    BY <1>1, <1>5, <1>7, <1>8, <1>9, <2>2 DEF Sound
<1>11. Balanced(rf2, k2, r, E)
  <2> SUFFICES ASSUME NEW u \in Values PROVE BalancedAt(rf2, k2, r, E, u)
    BY DEF Balanced
  <2>1. BalancedAt(rf, k, r, S, u)
    BY <1>1 DEF Balanced
  <2>2. Pointers(k2, r, E.stale, u) = Pointers(k, r, S.stale, u)
    BY <1>2, <1>6 DEF Pointers
  <2>3. CASE u = v
    <3>1. Places(k, v) = {} /\ RootPlaces(r, S.stale, v) = {}
      BY <1>4, <2>1, <2>3 DEF BalancedAt
    <3>2. Pointers(k, r, S.stale, v) = 0
      BY <1>5, <3>1, PointersCount
    <3>3. E.own[v] = 1 /\ E.items[v] = <<>>
      BY <1>2, <1>3
    <3>4. QED
      BY <1>7, <2>2, <2>3, <3>2, <3>3 DEF BalancedAt
  <2>4. CASE u # v
    <3>1. E.own[u] = S.own[u] /\ E.items[u] = S.items[u]
      BY <1>2, <1>3, <2>4
    <3>2. u \in DOMAIN rf2 <=> u \in DOMAIN rf
      BY <1>7, <2>4
    <3>3. QED
      BY <1>2, <1>6, <1>7, <2>1, <2>2, <3>1, <3>2 DEF BalancedAt
  <2>5. QED
    BY <2>3, <2>4
<1>12. Kept(k2, r, E.stale, K)
  <2>1. K \subseteq DOMAIN k
    BY <1>1, <1>5, KeptLive
  <2>2. \A a \in K : k2[a] = k[a]
    BY <1>5, <1>7, <2>1
  <2>3. K \subseteq DOMAIN k2
    BY <1>7, <2>1
  <2>4. QED
    BY <1>1, <1>2, <2>2, <2>3, KeptStays
<1>13. Agrees(rf2, k2, r, E, K)
  BY <1>10, <1>11, <1>12 DEF Agrees
<1>14. QED
  BY <1>13 DEF rf2, k2, Put

(* A count goes up or down by one, and so does what the operation has.     *)
LEMMA StepCount ==
    ASSUME NEW rf, NEW k, NEW r, NEW K, NEW S \in Heaps, NEW E \in Heaps,
           Agrees(rf, k, r, S, K), NEW v \in Values, v \in DOMAIN rf,
           NEW n \in Nat \ {0},
           E.own = [S.own EXCEPT ![v] = E.own[v]],
           E.own[v] >= 0, n - rf[v] = E.own[v] - S.own[v],
           E.items = S.items, E.stale = S.stale
    PROVE  Agrees([rf EXCEPT ![v] = n], k, r, E, K)
<1> DEFINE rf2 == [rf EXCEPT ![v] = n]
<1>1. Sound(rf, k, r) /\ Balanced(rf, k, r, S) /\ Kept(k, r, S.stale, K)
  BY DEF Agrees
<1>2. S.own \in [Values -> Nat \union {-1}] /\ E.own \in [Values -> Nat \union {-1}]
  BY HeapFields
<1>3. rf \in [DOMAIN rf -> Nat \ {0}]
  BY <1>1 DEF Sound
<1>4. /\ DOMAIN rf2 = DOMAIN rf /\ rf2[v] = n
      /\ \A u \in DOMAIN rf : u # v => rf2[u] = rf[u]
      /\ rf2 \in [DOMAIN rf -> Nat \ {0}]
  BY <1>3
<1> HIDE DEF rf2
<1>5. Sound(rf2, k, r)
  BY <1>1, <1>4 DEF Sound
<1>6. Balanced(rf2, k, r, E)
  <2> SUFFICES ASSUME NEW u \in Values PROVE BalancedAt(rf2, k, r, E, u)
    BY DEF Balanced
  <2>1. BalancedAt(rf, k, r, S, u)
    BY <1>1 DEF Balanced
  <2>2. CASE u = v
    <3>1. Pointers(k, r, S.stale, v) \in Nat
      BY <1>1, PointersCount DEF Sound
    <3>2. rf[v] = Pointers(k, r, S.stale, v) + S.own[v]
          /\ (Tracked(v) => k[v] = S.items[v])
      BY <2>1, <2>2 DEF BalancedAt
    <3>3. n = Pointers(k, r, S.stale, v) + E.own[v]
      <4>1. S.own[v] \in Int /\ E.own[v] \in Int /\ rf[v] \in Int /\ n \in Int
        BY <1>2, <1>3
      <4>2. QED
        BY ONLY <3>1, <3>2, <4>1, n - rf[v] = E.own[v] - S.own[v]
    <3>4. QED
      BY <1>4, <2>2, <3>2, <3>3 DEF BalancedAt
  <2>3. CASE u # v
    <3>1. E.own[u] = S.own[u]
      BY <1>2, <2>3
    <3>2. QED
      BY <1>4, <2>1, <2>3, <3>1 DEF BalancedAt
  <2>4. QED
    BY <2>2, <2>3
<1>7. QED
  BY <1>1, <1>5, <1>6 DEF Agrees, rf2

(* A reference of the operation's own becomes a pointer in an array.       *)
LEMMA StepLink ==
    ASSUME NEW rf, NEW k, NEW r, NEW K, NEW S \in Heaps,
           Agrees(rf, k, r, S, K), NEW v \in Values, NEW a \in DOMAIN rf,
           S.own[v] >= 1, Fits(v, a)
    PROVE  LET E == Heap([S.own EXCEPT ![v] = S.own[v] - 1],
                         Linked(S.items, a, v), S.stale)
           IN  E \in Heaps /\ Agrees(rf, [k EXCEPT ![a] = Append(k[a], v)], r, E, K)
<1> DEFINE own == [S.own EXCEPT ![v] = S.own[v] - 1]
           items == Linked(S.items, a, v)
           E == Heap(own, items, S.stale)
           k2 == [k EXCEPT ![a] = Append(k[a], v)]
<1>1. Sound(rf, k, r) /\ Balanced(rf, k, r, S) /\ Kept(k, r, S.stale, K)
  BY DEF Agrees
<1>2. /\ S.own \in [Values -> Nat \union {-1}] /\ S.items \in [Values -> Seq(Values)]
      /\ S.stale \in SUBSET RootNames
  BY HeapFields
<1>3. own \in [Values -> Nat \union {-1}] /\ own[v] = S.own[v] - 1
      /\ \A u \in Values : u # v => own[u] = S.own[u]
  <2>1. S.own[v] - 1 \in Nat
    BY <1>2
  <2>2. QED
    BY <1>2, <2>1
<1>4. items \in [Values -> Seq(Values)]
  BY <1>2, LinkedType
<1>5. DOMAIN k = DOMAIN rf /\ Contents(k) /\ a \in DOMAIN k /\ a \in Values
  BY <1>1 DEF Sound
<1>7. v \in DOMAIN rf
  BY <1>1, OwnedLive
<1>8. /\ k2 \in [DOMAIN k -> Seq(Values)]
      /\ k[a] \in Seq(Values) /\ Len(k[a]) \in Nat
      /\ k2[a] = Append(k[a], v)
      /\ \A u \in DOMAIN k : u # a => k2[u] = k[u]
      /\ DOMAIN k[a] = 1..Len(k[a]) /\ DOMAIN k2[a] = 1..(Len(k[a]) + 1)
      /\ \A i \in DOMAIN k[a] : i \in DOMAIN k2[a] /\ k2[a][i] = k[a][i]
      /\ \A i \in DOMAIN k2[a] : i \in DOMAIN k[a] \/ k2[a][i] = v
  <2>1. k[a] \in Seq(Values)
    BY <1>5 DEF Contents
  <2>2. /\ k2[a] = Append(k[a], v) /\ \A u \in DOMAIN k : u # a => k2[u] = k[u]
        /\ k2 \in [DOMAIN k -> Seq(Values)]
    <3>1. k \in [DOMAIN k -> Seq(Values)]
      BY <1>5 DEF Contents
    <3>2. Append(k[a], v) \in Seq(Values)
      BY <2>1
    <3>3. QED
      BY <1>5, <3>1, <3>2
  <2> HIDE DEF k2
  <2>3. /\ Len(k[a]) \in Nat /\ DOMAIN k[a] = 1..Len(k[a])
        /\ DOMAIN k2[a] = 1..(Len(k[a]) + 1)
        /\ \A i \in 1..Len(k[a]) : k2[a][i] = k[a][i]
        /\ k2[a][Len(k[a]) + 1] = v
    BY <2>1, <2>2
  <2>4. \A i \in 1..(Len(k[a]) + 1) : i \in 1..Len(k[a]) \/ i = Len(k[a]) + 1
    BY <2>3
  <2>5. \A i \in 1..Len(k[a]) : i \in 1..(Len(k[a]) + 1)
    BY <2>3
  <2>6. QED
    BY <2>1, <2>2, <2>3, <2>4, <2>5
<1>6. /\ Contents(k2) /\ DOMAIN k2 = DOMAIN k
      /\ \E p : /\ p \notin Places(k, v)
                /\ Places(k2, v) = Places(k, v) \union {p}
      /\ \A x : x # v => Places(k2, x) = Places(k, x)
  <2> HIDE DEF k2
  <2>1. QED
    BY ONLY <1>5, <1>8, v \in Values, PlacesAppend, SMTT(30)
<1> HIDE DEF k2, own, items
<1>9. E \in Heaps
  BY <1>2, <1>3, <1>4, HeapMade
<1>10. E.own = own /\ E.items = items /\ E.stale = S.stale
  BY HeapParts
<1> HIDE DEF E
<1>11. Sound(rf, k2, r)
  <2>1. ASSUME NEW u \in DOMAIN k2, NEW i \in DOMAIN k2[u]
        PROVE  Fits(k2[u][i], u)
    <3>1. CASE u = a
      <4>1. CASE i \in DOMAIN k[a]
        BY <1>1, <1>5, <1>8, <3>1, <4>1 DEF Sound
      <4>2. CASE i \notin DOMAIN k[a]
        BY <1>8, <3>1, <4>2
      <4>3. QED
        BY <4>1, <4>2
    <3>2. CASE u # a
      BY <1>1, <1>6, <1>8, <3>2 DEF Sound
    <3>3. QED
      BY <3>1, <3>2
  <2>2. QED
    BY <1>1, <1>6, <2>1 DEF Sound
<1>12. Balanced(rf, k2, r, E)
  <2> SUFFICES ASSUME NEW u \in Values PROVE BalancedAt(rf, k2, r, E, u)
    BY DEF Balanced
  <2>1. BalancedAt(rf, k, r, S, u)
    BY <1>1 DEF Balanced
  <2>2. u \in DOMAIN rf /\ Tracked(u) => k2[u] = E.items[u]
    <3> SUFFICES ASSUME u \in DOMAIN rf, Tracked(u) PROVE k2[u] = items[u]
      BY <1>10
    <3>1. k[u] = S.items[u]
      BY <2>1 DEF BalancedAt
    <3>2. CASE u = a
      <4>1. items[a] = Append(S.items[a], v)
        BY <1>2, <1>5, <3>2 DEF items, Linked
      <4>2. QED
        BY <1>8, <3>1, <3>2, <4>1
    <3>3. CASE u # a
      <4>1. items[u] = S.items[u]
        BY <1>2, <3>3 DEF items, Linked
      <4>2. QED
        BY <1>5, <1>8, <3>1, <3>3, <4>1
    <3>4. QED
      BY <3>2, <3>3
  <2>3. CASE u = v
    <3>1. Cardinality(Places(k2, v)) = Cardinality(Places(k, v)) + 1
      <4>1. IsFiniteSet(Places(k, v))
        BY <1>5, PlacesFinite
      <4>2. QED
        BY <1>6, <4>1, FS_AddElement
    <3>2. /\ Cardinality(Places(k, v)) \in Nat
          /\ Cardinality(RootPlaces(r, S.stale, v)) \in Nat
      BY <1>5, PointersCount
    <3>3. rf[v] = Cardinality(Places(k, v))
                  + Cardinality(RootPlaces(r, S.stale, v)) + S.own[v]
      BY <1>7, <2>1, <2>3 DEF BalancedAt, Pointers
    <3>4. S.own[v] \in Int /\ S.own[v] - 1 >= 0
      BY <1>2
    <3>5. rf[v] = Cardinality(Places(k2, v))
                  + Cardinality(RootPlaces(r, S.stale, v)) + (S.own[v] - 1)
      BY ONLY <3>1, <3>2, <3>3, <3>4
    <3>6. QED
      BY <1>3, <1>7, <1>10, <2>2, <2>3, <3>4, <3>5 DEF BalancedAt, Pointers
  <2>4. CASE u # v
    <3>1. Places(k2, u) = Places(k, u) /\ E.own[u] = S.own[u]
      BY <1>3, <1>6, <1>10, <2>4
    <3>2. QED
      BY <1>10, <2>1, <2>2, <3>1 DEF BalancedAt, Pointers
  <2>5. QED
    BY <2>3, <2>4
<1>13. Kept(k2, r, E.stale, K)
  <2>1. K \subseteq DOMAIN k
    BY <1>1, <1>5, KeptLive
  <2>2. K \subseteq DOMAIN k2
    BY <1>6, <2>1
  <2>3. \A u \in K : \A i \in DOMAIN k[u] :
            i \in DOMAIN k2[u] /\ k2[u][i] = k[u][i]
    <3> SUFFICES ASSUME NEW u \in K, NEW i \in DOMAIN k[u]
                 PROVE  i \in DOMAIN k2[u] /\ k2[u][i] = k[u][i]
      OBVIOUS
    <3>1. CASE u = a
      BY <1>8, <3>1
    <3>2. CASE u # a
      BY <1>8, <2>1, <3>2
    <3>3. QED
      BY <3>1, <3>2
  <2>4. QED
    BY <1>1, <1>10, <2>2, <2>3, KeptStays
<1>14. E \in Heaps /\ Agrees(rf, k2, r, E, K)
  BY <1>9, <1>11, <1>12, <1>13 DEF Agrees
<1>15. QED
  BY <1>14 DEF E, own, items, k2

LEMMA MethodsValue ==
    /\ Methods \in Values /\ Tracked(Methods) /\ Methods[3] = "methods"
    /\ NoValue \notin Values
BY DEF Methods, Values, Names, Parts, Tracked, NoValue

LEMMA AppendTwo ==
    ASSUME NEW q \in Seq(Values), NEW a \in Values, NEW b \in Values
    PROVE  /\ q \o <<a, b>> \in Seq(Values)
           /\ Append(Append(q, a), b) = q \o <<a, b>>
<1>1. <<a, b>> \in Seq(Values) /\ Len(<<a, b>>) = 2
      /\ <<a, b>>[1] = a /\ <<a, b>>[2] = b
  OBVIOUS
<1> DEFINE s == <<a, b>>
           n == Len(q)
<1> HIDE DEF s
<1>2. /\ n \in Nat /\ q \o s \in Seq(Values) /\ Len(q \o s) = n + 2
      /\ \A i \in 1..(n + 2) : (q \o s)[i] = IF i <= n THEN q[i] ELSE s[i - n]
  BY <1>1 DEF s
<1> DEFINE p == Append(q, a)
           t == Append(p, b)
<1>3. /\ p \in Seq(Values) /\ Len(p) = n + 1 /\ p[n + 1] = a
      /\ \A i \in 1..n : p[i] = q[i]
  BY AppendProperties
<1> HIDE DEF p
<1>4. /\ t \in Seq(Values) /\ Len(t) = n + 2 /\ t[n + 2] = b
      /\ \A i \in 1..(n + 1) : t[i] = p[i]
  <2>1. (n + 1) + 1 = n + 2
    BY <1>2
  <2>2. /\ t \in Seq(Values) /\ Len(t) = Len(p) + 1 /\ t[Len(p) + 1] = b
        /\ \A i \in 1..Len(p) : t[i] = p[i]
    BY <1>3, AppendProperties
  <2>3. QED
    BY <1>3, <2>1, <2>2
<1> HIDE DEF t
<1>5. \A i \in 1..Len(t) : t[i] = (q \o s)[i]
  <2> SUFFICES ASSUME NEW i \in 1..(n + 2) PROVE t[i] = (q \o s)[i]
    BY <1>4
  <2>1. CASE i \in 1..n
    <3>1. i \in 1..(n + 1) /\ i <= n
      BY <1>2, <2>1
    <3>2. QED
      BY <1>2, <1>3, <1>4, <2>1, <3>1
  <2>2. CASE i = n + 1
    <3>1. i \in 1..(n + 1) /\ ~(i <= n) /\ i - n = 1
      BY <1>2, <2>2
    <3>2. QED
      BY <1>1, <1>2, <1>3, <1>4, <2>2, <3>1 DEF s
  <2>3. CASE i = n + 2
    <3>1. ~(i <= n) /\ i - n = 2
      BY <1>2, <2>3
    <3>2. QED
      BY <1>1, <1>2, <1>4, <2>3, <3>1 DEF s
  <2>4. QED
    BY <1>2, <2>1, <2>2, <2>3
<1>6. t = q \o s
  BY <1>2, <1>4, <1>5, SeqEqual
<1>7. QED
  BY <1>2, <1>6 DEF s, t, p

LEMMA StepMember ==
    ASSUME NEW rf, NEW k, NEW r, NEW K, NEW S \in Heaps, NEW E \in Heaps,
           Agrees(rf, k, r, S, K), NEW key \in Values, NEW info \in Values,
           DoesMember(K, S, key, info, E)
    PROVE  Agrees(rf, [k EXCEPT ![Methods] = k[Methods] \o <<key, info>>], r, E, K)
<1> DEFINE a == Methods
           k1 == [k EXCEPT ![a] = Append(k[a], key)]
           o1 == [S.own EXCEPT ![key] = S.own[key] - 1]
           i1 == Linked(S.items, a, key)
           M == Heap(o1, i1, S.stale)
<1>1. Sound(rf, k, r) /\ Balanced(rf, k, r, S) /\ Kept(k, r, S.stale, K)
  BY DEF Agrees
<1>2. /\ S.own \in [Values -> Nat \union {-1}] /\ S.items \in [Values -> Seq(Values)]
  BY HeapFields
<1>3. /\ a \in K /\ S.own[key] >= 1 /\ S.own[info] >= 1 /\ key # info
      /\ Fits(key, a) /\ Fits(info, a)
      /\ E = Heap([S.own EXCEPT ![key] = S.own[key] - 1,
                                ![info] = S.own[info] - 1],
                  [S.items EXCEPT ![a] = S.items[a] \o <<key, info>>],
                  S.stale)
  BY DEF DoesMember
<1>4. a \in DOMAIN rf /\ a \in Values /\ Tracked(a) /\ DOMAIN k = DOMAIN rf
      /\ Contents(k)
  BY <1>1, <1>3, KeptLive, MethodsValue DEF Sound
<1> HIDE DEF a
<1>5. M \in Heaps /\ Agrees(rf, k1, r, M, K)
  BY <1>3, <1>4, StepLink
<1>6. M.own = o1 /\ M.items = i1 /\ M.stale = S.stale
  BY HeapParts
<1>7. /\ o1[info] = S.own[info]
      /\ [o1 EXCEPT ![info] = o1[info] - 1]
             = [S.own EXCEPT ![key] = S.own[key] - 1, ![info] = S.own[info] - 1]
  BY <1>2, <1>3
<1>8. i1 = [S.items EXCEPT ![a] = Append(S.items[a], key)]
  BY <1>4 DEF Linked
<1>9. k[a] \in Seq(Values) /\ S.items[a] \in Seq(Values)
  BY <1>2, <1>4 DEF Contents
<1>10. Linked(i1, a, info) = [S.items EXCEPT ![a] = S.items[a] \o <<key, info>>]
  <2>1. i1[a] = Append(S.items[a], key)
    BY <1>2, <1>4, <1>8
  <2>2. Append(Append(S.items[a], key), info) = S.items[a] \o <<key, info>>
    BY <1>9, AppendTwo
  <2>3. Linked(i1, a, info) = [i1 EXCEPT ![a] = S.items[a] \o <<key, info>>]
    BY <1>4, <2>1, <2>2 DEF Linked
  <2> DEFINE z == S.items[a] \o <<key, info>>
             y == Append(S.items[a], key)
  <2> HIDE DEF z, y
  <2>4. [[S.items EXCEPT ![a] = y] EXCEPT ![a] = z] = [S.items EXCEPT ![a] = z]
    BY <1>2, <1>4
  <2>5. QED
    BY <1>8, <2>3, <2>4 DEF z, y
<1>11. [k1 EXCEPT ![a] = Append(k1[a], info)]
           = [k EXCEPT ![a] = k[a] \o <<key, info>>]
  <2>1. k1[a] = Append(k[a], key)
    BY <1>4
  <2>2. Append(Append(k[a], key), info) = k[a] \o <<key, info>>
    BY <1>9, AppendTwo
  <2>3. [k1 EXCEPT ![a] = Append(k1[a], info)]
            = [k1 EXCEPT ![a] = k[a] \o <<key, info>>]
    BY <2>1, <2>2
  <2> DEFINE z == k[a] \o <<key, info>>
             y == Append(k[a], key)
  <2> HIDE DEF z, y
  <2>4. [[k EXCEPT ![a] = y] EXCEPT ![a] = z] = [k EXCEPT ![a] = z]
    BY <1>4 DEF Contents
  <2>5. QED
    BY <2>3, <2>4 DEF z, y
<1> HIDE DEF M, o1, i1, k1
<1>12. M.own[info] >= 1
  BY <1>3, <1>6, <1>7
<1>13. Agrees(rf, [k1 EXCEPT ![a] = Append(k1[a], info)], r,
              Heap([M.own EXCEPT ![info] = M.own[info] - 1],
                   Linked(M.items, a, info), M.stale), K)
  BY <1>3, <1>4, <1>5, <1>12, StepLink
<1>14. Heap([M.own EXCEPT ![info] = M.own[info] - 1],
            Linked(M.items, a, info), M.stale) = E
  BY <1>3, <1>6, <1>7, <1>10
<1>15. QED
  BY <1>11, <1>13, <1>14 DEF a

(* One item of a list, replaced.                                           *)
Swapped(s, old, info) ==
    [i \in DOMAIN s |-> IF s[i] = old THEN info ELSE s[i]]

LEMMA StepReplace ==
    ASSUME NEW rf, NEW k, NEW r, NEW K, NEW S \in Heaps, NEW E \in Heaps,
           Agrees(rf, k, r, S, K), NEW info \in Values, NEW old \in Values,
           DoesReplace(K, S, info, old, E)
    PROVE  Agrees(rf, [k EXCEPT ![Methods] = Swapped(k[Methods], old, info)],
                  r, E, K)
<1> DEFINE a == Methods
           row == [i \in DOMAIN k[a] |-> IF k[a][i] = old THEN info ELSE k[a][i]]
           k2 == [k EXCEPT ![a] = row]
<1>1. Sound(rf, k, r) /\ Balanced(rf, k, r, S) /\ Kept(k, r, S.stale, K)
  BY DEF Agrees
<1>2. /\ S.own \in [Values -> Nat \union {-1}] /\ S.items \in [Values -> Seq(Values)]
  BY HeapFields
<1>3. /\ a \in K /\ old \notin K /\ S.own[info] >= 1 /\ S.own[old] >= 0
      /\ info # old /\ Fits(info, a)
      /\ \E i \in DOMAIN S.items[a] :
             /\ S.items[a][i] = old
             /\ \A j \in DOMAIN S.items[a] : S.items[a][j] = old => j = i
      /\ E = Heap([S.own EXCEPT ![info] = S.own[info] - 1,
                                ![old] = S.own[old] + 1],
                  [S.items EXCEPT ![a] = [i \in DOMAIN S.items[a] |->
                       IF S.items[a][i] = old THEN info ELSE S.items[a][i]]],
                  S.stale)
  BY DEF DoesReplace
<1>4. a \in DOMAIN rf /\ a \in Values /\ Tracked(a) /\ DOMAIN k = DOMAIN rf
      /\ Contents(k) /\ k[a] = S.items[a]
  <2>1. a \in DOMAIN rf
    BY <1>1, <1>3, KeptLive
  <2>2. a \in Values /\ Tracked(a)
    BY MethodsValue
  <2>3. DOMAIN k = DOMAIN rf /\ Contents(k)
    BY <1>1 DEF Sound
  <2>4. BalancedAt(rf, k, r, S, a)
    BY <1>1, <2>2 DEF Balanced
  <2>5. k[a] = S.items[a]
    BY <2>1, <2>2, <2>4 DEF BalancedAt
  <2>6. QED
    BY <2>1, <2>2, <2>3, <2>5
<1> HIDE DEF a
<1>5. PICK i \in DOMAIN k[a] : /\ k[a][i] = old
                               /\ \A j \in DOMAIN k[a] : k[a][j] = old => j = i
  BY <1>3, <1>4
<1>6. /\ E.own = [S.own EXCEPT ![info] = S.own[info] - 1, ![old] = S.own[old] + 1]
      /\ E.items = [S.items EXCEPT ![a] = row] /\ E.stale = S.stale
  BY SMTT(30), <1>3, <1>4, HeapParts
<1>7. /\ E.own[info] = S.own[info] - 1 /\ E.own[old] = S.own[old] + 1
      /\ \A u \in Values : u # info /\ u # old => E.own[u] = S.own[u]
  BY <1>2, <1>3, <1>6
<1>8. row \in Seq(Values) /\ DOMAIN row = DOMAIN k[a]
  <2>1. k[a] \in Seq(Values)
    BY <1>4 DEF Contents
  <2>2. Len(k[a]) \in Nat /\ DOMAIN k[a] = 1..Len(k[a])
        /\ \A j \in 1..Len(k[a]) : k[a][j] \in Values
    BY <2>1
  <2>3. row \in [1..Len(k[a]) -> Values]
    BY <2>2
  <2>4. row \in Seq(Values)
    <3> HIDE DEF row
    <3>1. QED
      BY <2>2, <2>3
  <2>5. QED
    BY <2>4
<1>9. /\ k2 \in [DOMAIN k -> Seq(Values)] /\ k2[a] = row
      /\ \A u \in DOMAIN k : u # a => k2[u] = k[u]
  <2> HIDE DEF row
  <2>1. k \in [DOMAIN k -> Seq(Values)]
    BY <1>4 DEF Contents
  <2>2. QED
    BY <1>4, <1>8, <2>1
<1>10. \A j \in DOMAIN k[a] : row[j] = IF k[a][j] = old THEN info ELSE k[a][j]
  OBVIOUS
<1> HIDE DEF k2, row
<1>18. old # info /\ Contents(k) /\ a \in DOMAIN k
  BY <1>3, <1>4
<1>11. /\ Contents(k2) /\ DOMAIN k2 = DOMAIN k
       /\ \E p : /\ p \notin Places(k, info) /\ p \in Places(k, old)
                 /\ Places(k2, info) = Places(k, info) \union {p}
                 /\ Places(k2, old) = Places(k, old) \ {p}
       /\ \A x : x # info /\ x # old => Places(k2, x) = Places(k, x)
  <2>1. a \in DOMAIN k /\ DOMAIN k2[a] = DOMAIN k[a]
        /\ \A j \in DOMAIN k[a] : k2[a][j] = IF k[a][j] = old THEN info ELSE k[a][j]
    BY <1>4, <1>8, <1>9, <1>10
  <2>2. QED
    <3>1. Replaced(k, a, i, old, info, k2)
      BY ONLY <1>18, <1>5, <1>9, <2>1, info \in Values, i \in DOMAIN k[a]
         DEF Replaced
    <3>2. QED
      BY ONLY <1>18, <3>1, PlacesReplace
<1>12. Sound(rf, k2, r)
  <2>1. ASSUME NEW u \in DOMAIN k2, NEW j \in DOMAIN k2[u]
        PROVE  Fits(k2[u][j], u)
    <3>1. CASE u = a
      <4>1. j \in DOMAIN k[a] /\ (k2[u][j] = info \/ k2[u][j] = k[a][j])
        BY <1>8, <1>9, <1>10, <3>1
      <4>2. QED
        BY <1>1, <1>3, <1>4, <3>1, <4>1 DEF Sound
    <3>2. CASE u # a
      BY <1>1, <1>9, <1>11, <3>2 DEF Sound
    <3>3. QED
      BY <3>1, <3>2
  <2>2. QED
    BY <1>1, <1>11, <2>1 DEF Sound
<1>13. /\ Cardinality(Places(k2, info)) = Cardinality(Places(k, info)) + 1
       /\ Cardinality(Places(k2, old)) = Cardinality(Places(k, old)) - 1
  <2>1. IsFiniteSet(Places(k, info)) /\ IsFiniteSet(Places(k, old))
    BY <1>4, PlacesFinite
  <2>2. PICK p : /\ p \notin Places(k, info) /\ p \in Places(k, old)
                 /\ Places(k2, info) = Places(k, info) \union {p}
                 /\ Places(k2, old) = Places(k, old) \ {p}
    BY <1>11
  <2>3. Cardinality(Places(k2, info)) = Cardinality(Places(k, info)) + 1
    BY <2>1, <2>2, FS_AddElement
  <2>4. Cardinality(Places(k2, old)) = Cardinality(Places(k, old)) - 1
    BY <2>1, <2>2, FS_RemoveElement
  <2>5. QED
    BY <2>3, <2>4
<1>14. info \in DOMAIN rf /\ old \in DOMAIN rf
  <2>1. info \in DOMAIN rf
    BY <1>1, <1>3, OwnedLive
  <2>2. Places(k, old) # {}
    BY <1>11
  <2>3. QED
    BY <1>1, <2>1, <2>2 DEF Balanced, BalancedAt
<1>15. Balanced(rf, k2, r, E)
  <2> SUFFICES ASSUME NEW u \in Values PROVE BalancedAt(rf, k2, r, E, u)
    BY DEF Balanced
  <2>1. BalancedAt(rf, k, r, S, u)
    BY <1>1 DEF Balanced
  <2>2. u \in DOMAIN rf /\ Tracked(u) => k2[u] = E.items[u]
    <3> SUFFICES ASSUME u \in DOMAIN rf, Tracked(u) PROVE k2[u] = E.items[u]
      OBVIOUS
    <3>1. k[u] = S.items[u]
      BY <2>1 DEF BalancedAt
    <3>2. CASE u = a
      BY <1>2, <1>4, <1>6, <1>9, <3>2
    <3>3. CASE u # a
      BY <1>2, <1>4, <1>6, <1>9, <3>1, <3>3
    <3>4. QED
      BY <3>2, <3>3
  <2>3. /\ Cardinality(Places(k, u)) \in Nat
        /\ Cardinality(RootPlaces(r, S.stale, u)) \in Nat
    BY <1>4, PointersCount
  <2>4. u \in DOMAIN rf =>
            rf[u] = Cardinality(Places(k, u))
                    + Cardinality(RootPlaces(r, S.stale, u)) + S.own[u]
    BY <2>1 DEF BalancedAt, Pointers
  <2>5. S.own[u] \in Int
    BY <1>2
  <2>10. S.own[info] >= 1 /\ S.own[old] >= 0
    BY <1>3
  <2>6. CASE u = info
    <3>1. S.own[info] - 1 >= 0
      BY ONLY <2>5, <2>6, <2>10
    <3>2. rf[u] = Cardinality(Places(k2, u))
                  + Cardinality(RootPlaces(r, S.stale, u)) + (S.own[u] - 1)
      BY ONLY <1>13, <1>14, <2>3, <2>4, <2>5, <2>6
    <3>3. QED
      BY <1>6, <1>7, <1>14, <2>2, <2>6, <3>1, <3>2 DEF BalancedAt, Pointers
  <2>7. CASE u = old
    <3>1. S.own[old] + 1 >= 0
      BY ONLY <2>5, <2>7, <2>10
    <3>2. rf[u] = Cardinality(Places(k2, u))
                  + Cardinality(RootPlaces(r, S.stale, u)) + (S.own[u] + 1)
      BY ONLY <1>13, <1>14, <2>3, <2>4, <2>5, <2>7
    <3>3. QED
      BY <1>6, <1>7, <1>14, <2>2, <2>7, <3>1, <3>2 DEF BalancedAt, Pointers
  <2>8. CASE u # info /\ u # old
    <3>1. Places(k2, u) = Places(k, u) /\ E.own[u] = S.own[u]
      BY <1>7, <1>11, <2>8
    <3>2. QED
      BY <1>6, <2>1, <2>2, <3>1 DEF BalancedAt, Pointers
  <2>9. QED
    BY <2>6, <2>7, <2>8
<1>16. Kept(k2, r, E.stale, K)
  <2>1. K \subseteq DOMAIN k
    BY <1>1, <1>4, KeptLive
  <2>2. ASSUME NEW u \in K, NEW j \in DOMAIN k[u], k[u][j] \in K
        PROVE  j \in DOMAIN k2[u] /\ k2[u][j] = k[u][j]
    <3>1. CASE u = a
      <4>1. k[a][j] # old
        BY <1>3, <2>2, <3>1
      <4>2. QED
        BY <1>8, <1>9, <1>10, <3>1, <4>1
    <3>2. CASE u # a
      BY <1>9, <2>1, <3>2
    <3>3. QED
      BY <3>1, <3>2
  <2>3. K \subseteq DOMAIN k2
    BY <1>11, <2>1
  <2>4. QED
    BY <1>1, <1>6, <2>2, <2>3, KeptStays
<1>17. QED
  BY <1>12, <1>15, <1>16 DEF Agrees, k2, row, a, Swapped

LEMMA StepRoot ==
    ASSUME NEW rf, NEW k, NEW r, NEW K, NEW S \in Heaps, NEW E \in Heaps,
           Agrees(rf, k, r, S, K), NEW v \in Values, NEW w \in RootNames,
           DoesRoot(S, v, w, E)
    PROVE  Agrees(rf, k, [r EXCEPT ![w] = v], E, K)
<1> DEFINE r2 == [r EXCEPT ![w] = v]
<1>1. Sound(rf, k, r) /\ Balanced(rf, k, r, S) /\ Kept(k, r, S.stale, K)
  BY DEF Agrees
<1>2. S.own \in [Values -> Nat \union {-1}]
  BY HeapFields
<1>3. /\ S.own[v] >= 1 /\ FitsRoot(v, w) /\ w \in S.stale
      /\ E.own = [S.own EXCEPT ![v] = S.own[v] - 1] /\ E.items = S.items
      /\ E.stale = S.stale \ {w}
  BY HeapParts DEF DoesRoot
<1>4. /\ E.own[v] = S.own[v] - 1
      /\ \A u \in Values : u # v => E.own[u] = S.own[u]
  BY <1>2, <1>3
<1>5. r \in [RootNames -> Values \union {NoValue}]
  BY <1>1 DEF Sound
<1>6. /\ r2 \in [RootNames -> Values \union {NoValue}] /\ r2[w] = v
      /\ \A x \in RootNames : x # w => r2[x] = r[x]
  BY <1>5
<1> HIDE DEF r2
<1>7. Sound(rf, k, r2)
  <2>1. \A which \in RootNames :
            r2[which] # NoValue => FitsRoot(r2[which], which)
    BY <1>1, <1>3, <1>6 DEF Sound
  <2>2. QED
    BY <1>1, <1>6, <2>1 DEF Sound
<1>8. /\ RootPlaces(r2, E.stale, v) = RootPlaces(r, S.stale, v) \union {w}
      /\ w \notin RootPlaces(r, S.stale, v)
  BY <1>3, <1>6 DEF RootPlaces
<1>9. \A u : u # v => RootPlaces(r2, E.stale, u) = RootPlaces(r, S.stale, u)
  BY <1>3, <1>6 DEF RootPlaces
<1>10. v \in DOMAIN rf /\ Contents(k)
  BY <1>1, <1>3, OwnedLive DEF Sound
<1>11. Balanced(rf, k, r2, E)
  <2> SUFFICES ASSUME NEW u \in Values PROVE BalancedAt(rf, k, r2, E, u)
    BY DEF Balanced
  <2>1. BalancedAt(rf, k, r, S, u)
    BY <1>1 DEF Balanced
  <2>2. CASE u = v
    <3>1. Cardinality(RootPlaces(r2, E.stale, v))
              = Cardinality(RootPlaces(r, S.stale, v)) + 1
      <4>1. IsFiniteSet(RootPlaces(r, S.stale, v))
        BY <1>10, PointersCount
      <4>2. QED
        BY <1>8, <4>1, FS_AddElement
    <3>2. /\ Cardinality(Places(k, v)) \in Nat
          /\ Cardinality(RootPlaces(r, S.stale, v)) \in Nat
      BY <1>10, PointersCount
    <3>3. rf[v] = Cardinality(Places(k, v))
                  + Cardinality(RootPlaces(r, S.stale, v)) + S.own[v]
      BY <1>10, <2>1, <2>2 DEF BalancedAt, Pointers
    <3>4. S.own[v] \in Int /\ S.own[v] - 1 >= 0
      BY <1>2, <1>3
    <3>5. rf[v] = Cardinality(Places(k, v))
                  + Cardinality(RootPlaces(r2, E.stale, v)) + (S.own[v] - 1)
      BY ONLY <3>1, <3>2, <3>3, <3>4
    <3>6. Tracked(v) => k[v] = E.items[v]
      BY <1>3, <1>10, <2>1, <2>2 DEF BalancedAt
    <3>7. QED
      BY <1>4, <1>10, <2>2, <3>4, <3>5, <3>6 DEF BalancedAt, Pointers
  <2>3. CASE u # v
    BY <1>3, <1>4, <1>9, <2>1, <2>3 DEF BalancedAt, Pointers
  <2>4. QED
    BY <2>2, <2>3
<1>12. Kept(k, r2, E.stale, K)
  <2>1. \A x \in RootNames \ S.stale : x \in RootNames \ E.stale /\ r2[x] = r[x]
    BY <1>3, <1>6
  <2>2. QED
    BY <1>1, <2>1 DEF Kept
<1>13. QED
  BY <1>7, <1>11, <1>12 DEF Agrees, r2

LEMMA StepFreed ==
    ASSUME NEW rf, NEW k, NEW r, NEW K, NEW S \in Heaps, NEW E \in Heaps,
           Agrees(rf, k, r, S, K), DoesFreed(S, E)
    PROVE  Agrees(rf, k, [which \in DOMAIN r |-> NoValue], E, K)
<1> DEFINE r2 == [which \in DOMAIN r |-> NoValue]
<1>1. Sound(rf, k, r) /\ Balanced(rf, k, r, S) /\ Kept(k, r, S.stale, K)
  BY DEF Agrees
<1>2. S.stale = RootNames /\ E.own = S.own /\ E.items = S.items /\ E.stale = {}
  BY HeapParts DEF DoesFreed
<1>3. /\ r2 \in [RootNames -> Values \union {NoValue}]
      /\ \A which \in RootNames : r2[which] = NoValue
  BY <1>1 DEF Sound
<1> HIDE DEF r2
<1>4. Sound(rf, k, r2)
  BY <1>1, <1>3 DEF Sound
<1>5. ASSUME NEW v \in Values
      PROVE  RootPlaces(r, S.stale, v) = {} /\ RootPlaces(r2, E.stale, v) = {}
  BY <1>2, <1>3, MethodsValue DEF RootPlaces
<1>6. Balanced(rf, k, r2, E)
  <2> SUFFICES ASSUME NEW u \in Values PROVE BalancedAt(rf, k, r2, E, u)
    BY DEF Balanced
  <2>1. BalancedAt(rf, k, r, S, u)
    BY <1>1 DEF Balanced
  <2>2. RootPlaces(r, S.stale, u) = RootPlaces(r2, E.stale, u)
    BY <1>5
  <2>3. QED
    BY <1>2, <2>1, <2>2 DEF BalancedAt, Pointers
<1>7. Kept(k, r2, E.stale, K)
  BY <1>1, <1>2 DEF Kept
<1>8. QED
  BY <1>4, <1>6, <1>7 DEF Agrees, r2

(* The last reference to a value is given up: what it holds is released,   *)
(* as references of the operation.                                         *)
Released(s) == [i \in DOMAIN s |-> <<"dec", s[i]>>]

LEMMA RunReleased ==
    ASSUME NEW K, NEW E \in Heaps, NEW s \in Seq(Values),
           \A i \in DOMAIN s : E.own[s[i]] >= 0
    PROVE  LET S == Heap([u \in Values |-> E.own[u] + Count(s, u)], E.items, E.stale)
           IN  S \in Heaps /\ Run(K, Released(s), S, E)
<1> DEFINE n == Len(s)
           Left(j, u) == {i \in {x \in DOMAIN s : x > j} : s[i] = u}
           O(j) == [u \in Values |-> E.own[u] + Cardinality(Left(j, u))]
           f == [j \in 0..n |-> Heap(O(j), E.items, E.stale)]
           S == Heap([u \in Values |-> E.own[u] + Count(s, u)], E.items, E.stale)
<1>1. /\ E.own \in [Values -> Nat \union {-1}] /\ E.items \in [Values -> Seq(Values)]
      /\ E.stale \in SUBSET RootNames /\ E = Heap(E.own, E.items, E.stale)
  BY HeapFields
<1>2. n \in Nat /\ DOMAIN s = 1..n /\ \A i \in 1..n : s[i] \in Values
  OBVIOUS
<1>19. \A i \in 1..n : E.own[s[i]] \in Nat
  <2> SUFFICES ASSUME NEW i \in 1..n PROVE E.own[s[i]] \in Nat
    OBVIOUS
  <2>1. E.own[s[i]] >= 0 /\ E.own[s[i]] \in Nat \union {-1}
    BY <1>1, <1>2
  <2>2. QED
    BY ONLY <2>1
<1>3. \A j, u : IsFiniteSet(Left(j, u)) /\ Cardinality(Left(j, u)) \in Nat
  <2> SUFFICES ASSUME NEW j, NEW u
               PROVE  IsFiniteSet(Left(j, u)) /\ Cardinality(Left(j, u)) \in Nat
    OBVIOUS
  <2> DEFINE I == {x \in DOMAIN s : x > j}
  <2>1. I \in SUBSET DOMAIN s
    OBVIOUS
  <2> HIDE DEF I
  <2>2. IsFiniteSet({i \in I : s[i] = u}) /\ Cardinality({i \in I : s[i] = u}) \in Nat
    BY <2>1, CountFinite
  <2>3. QED
    BY <2>2 DEF I
<1>4. \A u : Left(n, u) = {}
  BY <1>2
<1>5. \A u : Left(0, u) = {i \in DOMAIN s : s[i] = u}
  BY <1>2
<1>6. ASSUME NEW j \in 1..n, NEW u
      PROVE  Left(j - 1, u) = IF s[j] = u THEN Left(j, u) \union {j} ELSE Left(j, u)
  <2>1. \A x \in 1..n : x > j - 1 <=> x > j \/ x = j
    BY <1>2
  <2>2. QED
    BY <1>2, <2>1
<1>7. ASSUME NEW j \in 1..n, NEW u
      PROVE  Cardinality(Left(j - 1, u))
                 = Cardinality(Left(j, u)) + (IF s[j] = u THEN 1 ELSE 0)
  <2>1. j \notin Left(j, u)
    BY <1>2
  <2> DEFINE L == Left(j, u)
             M == Left(j - 1, u)
  <2>2. IsFiniteSet(L) /\ Cardinality(L) \in Nat
    BY <1>3
  <2>3. M = IF s[j] = u THEN L \union {j} ELSE L
    BY <1>6
  <2> HIDE DEF L, M
  <2>4. j \notin L
    BY <2>1 DEF L
  <2>5. s[j] = u => Cardinality(M) = Cardinality(L) + 1
    BY <2>2, <2>3, <2>4, FS_AddElement
  <2>6. s[j] # u => Cardinality(M) = Cardinality(L) + 0
    BY <2>2, <2>3
  <2>7. Cardinality(M) = Cardinality(L) + (IF s[j] = u THEN 1 ELSE 0)
    BY <2>5, <2>6
  <2>8. QED
    BY <2>7 DEF L, M
<1>8. ASSUME NEW u \in Values, NEW j \in 0..n
      PROVE  E.own[u] + Cardinality(Left(j, u)) \in Nat \union {-1}
  <2>1. Cardinality(Left(j, u)) \in Nat
    BY <1>3
  <2>2. CASE E.own[u] \in Nat
    BY <2>1, <2>2
  <2>3. CASE E.own[u] = -1
    <3>1. Left(j, u) = {}
      BY <1>2, <2>3
    <3>2. Cardinality(Left(j, u)) = 0
      BY <3>1, FS_EmptySet
    <3>3. QED
      BY <2>3, <3>2
  <2>4. QED
    BY <1>1, <2>2, <2>3
<1> HIDE DEF Left
<1>9. \A j \in 0..n : O(j) \in [Values -> Nat \union {-1}]
  BY <1>8
<1>10. \A j \in 0..n : f[j] = Heap(O(j), E.items, E.stale)
  OBVIOUS
<1>11. f \in [0..n -> Heaps]
  <2>1. \A j \in 0..n : Heap(O(j), E.items, E.stale) \in Heaps
    <3> SUFFICES ASSUME NEW j \in 0..n PROVE Heap(O(j), E.items, E.stale) \in Heaps
      OBVIOUS
    <3> DEFINE o == O(j)
    <3>1. o \in [Values -> Nat \union {-1}]
      BY <1>9
    <3> HIDE DEF o
    <3>2. Heap(o, E.items, E.stale) \in Heaps
      BY <1>1, <3>1, HeapMade
    <3>3. QED
      BY <3>2 DEF o
  <2>2. QED
    BY <2>1
<1>12. f[0] = S
  <2>1. \A u \in Values : Cardinality(Left(0, u)) = Count(s, u)
    BY <1>5 DEF Count
  <2>2. O(0) = [u \in Values |-> E.own[u] + Count(s, u)]
    BY <2>1
  <2>3. 0 \in 0..n
    BY <1>2
  <2>4. QED
    BY <1>10, <2>2, <2>3
<1>13. f[n] = E
  <2>1. \A u \in Values : Cardinality(Left(n, u)) = 0
    BY <1>4, FS_EmptySet
  <2>2. O(n) = E.own
    <3>1. \A u \in Values : E.own[u] + Cardinality(Left(n, u)) = E.own[u]
      <4> SUFFICES ASSUME NEW u \in Values
                   PROVE  E.own[u] + Cardinality(Left(n, u)) = E.own[u]
        OBVIOUS
      <4>1. E.own[u] \in Int
        BY <1>1
      <4>2. QED
        BY <2>1, <4>1
    <3>2. O(n) = [u \in Values |-> E.own[u]]
      BY <3>1
    <3>3. QED
      BY <1>1, <3>2
  <2>3. n \in 0..n
    BY <1>2
  <2>4. QED
    BY <1>1, <1>10, <2>2, <2>3
<1>14. ASSUME NEW j \in 1..n
       PROVE  Does(K, <<"dec", s[j]>>, f[j - 1], f[j])
  <2> DEFINE A == f[j - 1]
             B == f[j]
             v == s[j]
             oA == O(j - 1)
             oB == O(j)
  <2>1. j \in 0..n /\ j - 1 \in 0..n /\ v \in Values
    BY <1>2
  <2>2. A = Heap(oA, E.items, E.stale) /\ B = Heap(oB, E.items, E.stale)
    BY <1>10, <2>1
  <2>3. /\ oA[v] = oB[v] + 1 /\ oB[v] >= 0 /\ oB[v] \in Nat
        /\ \A u \in Values : u # v => oA[u] = oB[u]
        /\ oA \in [Values -> Nat \union {-1}] /\ oB \in [Values -> Nat \union {-1}]
    <3>1. /\ oA \in [Values -> Nat \union {-1}] /\ oB \in [Values -> Nat \union {-1}]
      BY <1>9, <2>1
    <3>2. \A u \in Values : /\ oA[u] = E.own[u] + Cardinality(Left(j - 1, u))
                            /\ oB[u] = E.own[u] + Cardinality(Left(j, u))
      OBVIOUS
    <3> HIDE DEF oA, oB, A, B
    <3>3. \A u \in Values : u # v => oA[u] = oB[u]
      <4> SUFFICES ASSUME NEW u \in Values, u # v PROVE oA[u] = oB[u]
        OBVIOUS
      <4>1. Cardinality(Left(j - 1, u)) = Cardinality(Left(j, u)) + 0
        BY <1>7
      <4>2. Cardinality(Left(j, u)) \in Nat
        BY <1>3
      <4>3. QED
        BY <3>2, <4>1, <4>2
    <3>4. Cardinality(Left(j - 1, v)) = Cardinality(Left(j, v)) + 1
          /\ Cardinality(Left(j, v)) \in Nat
      BY <1>3, <1>7
    <3>5. E.own[v] \in Nat
      BY <1>19
    <3>6. /\ oA[v] = E.own[v] + Cardinality(Left(j - 1, v))
          /\ oB[v] = E.own[v] + Cardinality(Left(j, v))
      BY <2>1, <3>2
    <3>7. oA[v] = oB[v] + 1 /\ oB[v] >= 0 /\ oB[v] \in Nat
      BY ONLY <3>4, <3>5, <3>6
    <3>8. QED
      BY <3>1, <3>3, <3>7
  <2> HIDE DEF oA, oB
  <2>4. A.own = oA /\ A.items = E.items /\ A.stale = E.stale
    BY <2>2, HeapParts
  <2>5. oB = [oA EXCEPT ![v] = oA[v] - 1] /\ oA[v] >= 1
    <3>1. oA[v] - 1 = oB[v] /\ oA[v] >= 1
      BY <2>3
    <3> HIDE DEF v
    <3>2. oB = [oA EXCEPT ![v] = oA[v] - 1]
      BY <2>1, <2>3, <3>1
    <3>3. QED
      BY <3>1, <3>2
  <2>6. DoesDec(A, v, B)
    <3> HIDE DEF A, B, v
    <3>1. QED
      BY <2>2, <2>4, <2>5 DEF DoesDec
  <2>7. Does(K, <<"dec", v>>, A, B)
    BY <2>6 DEF Does
  <2>8. QED
    BY <2>7
<1> HIDE DEF f, S, O
<1>15. /\ Released(s) \in Seq(Steps) /\ Len(Released(s)) = n
       /\ \A j \in 1..n : Released(s)[j] = <<"dec", s[j]>>
  <2>1. \A j \in 1..n : <<"dec", s[j]>> \in Steps
    BY <1>2, StepKinds
  <2>2. Released(s) = [j \in 1..n |-> <<"dec", s[j]>>]
    BY <1>2 DEF Released
  <2>3. [j \in 1..n |-> <<"dec", s[j]>>] \in [1..n -> Steps]
    BY <2>1
  <2>4. QED
    BY <1>2, <2>2, <2>3
<1>16. S \in Heaps
  BY <1>2, <1>11, <1>12
<1>17. Run(K, Released(s), S, E)
  BY <1>11, <1>12, <1>13, <1>14, <1>15 DEF Run
<1>18. QED
  BY <1>16, <1>17 DEF S

Destroyed(rf, k, r, K, E, v) ==
    \E M \in Heaps :
        /\ Agrees([u \in DOMAIN rf \ {v} |-> rf[u]],
                  [u \in DOMAIN rf \ {v} |-> k[u]], r, M, K)
        /\ Run(K, Released(k[v]), M, E)
        /\ M.stale = E.stale

LEMMA StepDestroy ==
    ASSUME NEW rf, NEW k, NEW r, NEW K, NEW S \in Heaps, NEW E \in Heaps,
           Agrees(rf, k, r, S, K), NEW v \in Values, v \in DOMAIN rf, rf[v] = 1,
           DoesDec(S, v, E)
    PROVE  Destroyed(rf, k, r, K, E, v)
<1> DEFINE rf2 == [u \in DOMAIN rf \ {v} |-> rf[u]]
           k2 == [u \in DOMAIN k \ {v} |-> k[u]]
           s == k[v]
           own == [u \in Values |-> E.own[u] + Count(s, u)]
           M == Heap(own, E.items, E.stale)
<1>1. Sound(rf, k, r) /\ Balanced(rf, k, r, S) /\ Kept(k, r, S.stale, K)
  BY DEF Agrees
<1>2. S.own \in [Values -> Nat \union {-1}] /\ E.own \in [Values -> Nat \union {-1}]
  BY HeapFields
<1>3. /\ S.own[v] >= 1 /\ E.own = [S.own EXCEPT ![v] = S.own[v] - 1]
      /\ E.items = S.items /\ E.stale = S.stale
  BY HeapParts DEF DoesDec
<1>4. /\ DOMAIN k = DOMAIN rf /\ Contents(k) /\ v \in DOMAIN k /\ s \in Seq(Values)
      /\ rf \in [DOMAIN rf -> Nat \ {0}]
  BY <1>1 DEF Sound, Contents
<1>5. Pointers(k, r, S.stale, v) = 0 /\ S.own[v] = 1
  <2>1. rf[v] = Pointers(k, r, S.stale, v) + S.own[v]
    BY <1>1 DEF Balanced, BalancedAt
  <2>2. Pointers(k, r, S.stale, v) \in Nat
    BY <1>4, PointersCount
  <2>3. S.own[v] \in Int
    BY <1>2
  <2>4. QED
    BY ONLY rf[v] = 1, <1>3, <2>1, <2>2, <2>3
<1>6. Places(k, v) = {} /\ RootPlaces(r, S.stale, v) = {}
  BY <1>4, <1>5, PointersCount
<1>7. E.own[v] = 0 /\ \A u \in Values : u # v => E.own[u] = S.own[u]
  BY <1>2, <1>3, <1>5
<1>8. \A i \in DOMAIN s : E.own[s[i]] >= 0
  <2> SUFFICES ASSUME NEW i \in DOMAIN s PROVE E.own[s[i]] >= 0
    OBVIOUS
  <2>1. s[i] \in Values
    BY <1>4
  <2>2. Places(k, s[i]) # {}
    BY <1>4, PlacesAre
  <2>3. s[i] # v
    BY <1>6, <2>2
  <2>4. BalancedAt(rf, k, r, S, s[i])
    BY <1>1, <2>1 DEF Balanced
  <2>5. S.own[s[i]] >= 0
    BY <2>2, <2>4 DEF BalancedAt
  <2>6. QED
    BY <1>7, <2>1, <2>3, <2>5
<1>9. M \in Heaps /\ Run(K, Released(s), M, E)
  <2> HIDE DEF s
  <2>1. QED
    BY <1>4, <1>8, RunReleased
<1>10. M.own = own /\ M.items = S.items /\ M.stale = S.stale
  <2> HIDE DEF own
  <2>1. QED
    BY <1>3, HeapParts
<1>11. /\ DOMAIN rf2 = DOMAIN rf \ {v} /\ \A u \in DOMAIN rf : u # v => rf2[u] = rf[u]
       /\ rf2 \in [DOMAIN rf2 -> Nat \ {0}]
       /\ DOMAIN k2 = DOMAIN rf \ {v} /\ \A u \in DOMAIN rf : u # v => k2[u] = k[u]
  BY <1>4
<1>12. \A u : /\ Contents(k2)
              /\ Places(k2, u) \subseteq Places(k, u)
              /\ Count(s, u) \in Nat
              /\ Count(s, u) # 0 => Places(k, u) # {}
              /\ Cardinality(Places(k, u))
                     = Cardinality(Places(k2, u)) + Count(s, u)
  <2> SUFFICES ASSUME NEW u
               PROVE  /\ Contents(k2)
                      /\ Places(k2, u) \subseteq Places(k, u)
                      /\ Count(s, u) \in Nat
                      /\ Count(s, u) # 0 => Places(k, u) # {}
                      /\ Cardinality(Places(k, u))
                             = Cardinality(Places(k2, u)) + Count(s, u)
    OBVIOUS
  <2>1. QED
    BY <1>4, PlacesDrop
<1>13. \A u \in Values : own[u] = E.own[u] + Count(s, u)
  OBVIOUS
<1> HIDE DEF rf2, k2, s, own, M
<1>14. Sound(rf2, k2, r)
  <2>1. \A a \in DOMAIN k2 : \A i \in DOMAIN k2[a] : Fits(k2[a][i], a)
    BY <1>1, <1>4, <1>11 DEF Sound
  <2>2. QED
    BY <1>1, <1>11, <1>12, <2>1 DEF Sound
<1>15. Balanced(rf2, k2, r, M)
  <2> SUFFICES ASSUME NEW u \in Values PROVE BalancedAt(rf2, k2, r, M, u)
    BY DEF Balanced
  <2>1. BalancedAt(rf, k, r, S, u)
    BY <1>1 DEF Balanced
  <2>2. CASE u = v
    <3>1. Count(s, v) = 0 /\ Places(k2, v) = {}
      BY <1>6, <1>12
    <3>2. own[v] = 0
      BY <1>7, <1>13, <3>1
    <3>3. QED
      BY <1>6, <1>10, <1>11, <2>2, <3>1, <3>2 DEF BalancedAt
  <2>3. CASE u # v /\ u \in DOMAIN rf
    <3>1. /\ Cardinality(Places(k2, u)) \in Nat
          /\ Cardinality(RootPlaces(r, S.stale, u)) \in Nat
      BY <1>12, PointersCount
    <3>2. rf[u] = Cardinality(Places(k, u))
                  + Cardinality(RootPlaces(r, S.stale, u)) + S.own[u]
          /\ S.own[u] >= 0 /\ (Tracked(u) => k[u] = S.items[u])
      BY <2>1, <2>3 DEF BalancedAt, Pointers
    <3>3. own[u] = S.own[u] + Count(s, u)
      BY <1>7, <1>13, <2>3
    <3>4. S.own[u] \in Int
      BY <1>2
    <3>5. Cardinality(Places(k, u)) = Cardinality(Places(k2, u)) + Count(s, u)
          /\ Count(s, u) \in Nat
      BY <1>12
    <3>6. /\ rf[u] = Cardinality(Places(k2, u))
                  + Cardinality(RootPlaces(r, S.stale, u)) + own[u]
          /\ own[u] >= 0
      BY ONLY <3>1, <3>2, <3>3, <3>4, <3>5
    <3>7. QED
      BY <1>10, <1>11, <2>3, <3>2, <3>6 DEF BalancedAt, Pointers
  <2>4. CASE u # v /\ u \notin DOMAIN rf
    <3>1. /\ S.own[u] <= 0
          /\ Places(k, u) = {} /\ RootPlaces(r, S.stale, u) = {}
      BY <2>1, <2>4 DEF BalancedAt
    <3>2. Count(s, u) = 0 /\ Places(k2, u) = {}
      BY <1>12, <3>1
    <3>3. S.own[u] \in Int
      BY <1>2
    <3>4. own[u] = S.own[u] + 0
      BY <1>7, <1>13, <2>4, <3>2
    <3>5. own[u] <= 0
      BY <3>1, <3>3, <3>4
    <3>6. QED
      BY <1>10, <1>11, <2>4, <3>1, <3>2, <3>5 DEF BalancedAt
  <2>5. QED
    BY <2>2, <2>3, <2>4
<1>16. Kept(k2, r, M.stale, K)
  <2>1. \A u \in K : u \in DOMAIN rf /\ Pointers(k, r, S.stale, u) # 0
    BY <1>1, KeptLive
  <2>2. v \notin K
    BY <1>5, <2>1
  <2>3. K \subseteq DOMAIN k2 /\ \A u \in K : k2[u] = k[u]
    BY <1>11, <2>1, <2>2
  <2>4. QED
    BY <1>1, <1>10, <2>3, KeptStays
<1>17. k2 = [u \in DOMAIN rf \ {v} |-> k[u]]
  BY <1>4 DEF k2
<1>18. Agrees(rf2, k2, r, M, K)
  BY <1>14, <1>15, <1>16 DEF Agrees
<1>20. M.stale = E.stale
  BY <1>3, <1>10
<1>19. QED
  BY <1>9, <1>17, <1>18, <1>20 DEF rf2, s, Destroyed
-----------------------------------------------------------------------------
(* The registry at rest: what the running operation leaves behind.         *)

Shaped(v, s) ==
    v[3] = "info" =>
        s = IF v[2] \in 1..2
            THEN <<Part(v[1], v[2], "function"), Part(v[1], v[2], "data"),
                   Part(v[1], v[2], "signatures"), Part(v[1], v[2], "help")>>
            ELSE <<Part(v[1], v[2], "function"), Part(v[1], v[2], "data")>>

KeyFor(name) == Part(name, 1, "key")

(* The members of _methods: a key and a method info of the same name, no   *)
(* name twice, and the first n system methods among them.                  *)
Members(s, n) ==
    \E m \in Nat :
        /\ Len(s) = 2 * m
        /\ \A i \in 1..m : \E name \in Names, g \in 1..2 :
               s[2 * i - 1] = KeyFor(name) /\ s[2 * i] = Part(name, g, "info")
        /\ \A i, j \in 1..m : s[2 * i - 1] = s[2 * j - 1] => i = j
        /\ \A j \in 1..n : \E i \in 1..m :
               s[2 * i - 1] = KeyFor(SystemMethods[j])

Settled(S, n) ==
    /\ S.stale = {}
    /\ \A v \in Values : S.own[v] \in {0, -1}
    /\ \A v \in Values : S.own[v] = 0 => Shaped(v, S.items[v])
    /\ S.own[Methods] = 0 => Members(S.items[Methods], n)

(* The same, of the state itself.                                          *)
Rest(rf, k, r, n) ==
    /\ Sound(rf, k, r)
    /\ \A v \in DOMAIN rf : /\ rf[v] = Pointers(k, r, {}, v)
                            /\ Shaped(v, k[v])
    /\ \A v \in Values \ DOMAIN rf :
           Places(k, v) = {} /\ RootPlaces(r, {}, v) = {}
    /\ Methods \in DOMAIN rf => Members(k[Methods], n)

LEMMA SettledRest ==
    ASSUME NEW rf, NEW k, NEW r, NEW S \in Heaps, NEW K, NEW n,
           Agrees(rf, k, r, S, K), Settled(S, n)
    PROVE  Rest(rf, k, r, n)
<1>1. Sound(rf, k, r) /\ Balanced(rf, k, r, S) /\ DOMAIN rf \subseteq Values
      /\ Contents(k)
  BY DEF Agrees, Sound
<1>2. ASSUME NEW v \in DOMAIN rf
      PROVE  /\ rf[v] = Pointers(k, r, {}, v) /\ S.own[v] = 0
             /\ Tracked(v) => k[v] = S.items[v]
  <2>1. v \in Values
    BY <1>1
  <2>2. S.own[v] >= 0 /\ rf[v] = Pointers(k, r, S.stale, v) + S.own[v]
        /\ (Tracked(v) => k[v] = S.items[v])
    BY <1>1, <2>1 DEF Balanced, BalancedAt
  <2>3. S.own[v] \in {0, -1} /\ S.stale = {}
    BY <2>1 DEF Settled
  <2>4. S.own[v] = 0
    BY <2>2, <2>3
  <2>5. Pointers(k, r, {}, v) \in Nat
    BY <1>1, PointersCount
  <2>6. rf[v] = Pointers(k, r, {}, v)
    BY ONLY <2>2, <2>3, <2>4, <2>5
  <2>7. QED
    BY <2>2, <2>4, <2>6
<1>3. ASSUME NEW v \in DOMAIN rf
      PROVE  Shaped(v, k[v])
  <2>1. v \in Values /\ S.own[v] = 0 /\ (Tracked(v) => k[v] = S.items[v])
    BY <1>1, <1>2
  <2>2. Shaped(v, S.items[v])
    BY <2>1 DEF Settled
  <2>3. QED
    BY <2>1, <2>2 DEF Shaped, Tracked
<1>4. \A v \in Values \ DOMAIN rf :
          Places(k, v) = {} /\ RootPlaces(r, {}, v) = {}
  BY <1>1 DEF Balanced, BalancedAt, Settled
<1>5. Methods \in DOMAIN rf => Members(k[Methods], n)
  BY <1>2, MethodsValue DEF Settled
<1>6. QED
  BY <1>1, <1>2, <1>3, <1>4, <1>5 DEF Rest

(* A value that is there is pointed to.                                    *)
LEMMA RestPointed ==
    ASSUME NEW rf, NEW k, NEW r, NEW n, Rest(rf, k, r, n), NEW v \in DOMAIN rf
    PROVE  \/ \E which \in RootNames : r[which] = v
           \/ \E a \in DOMAIN rf : /\ \E i \in DOMAIN k[a] : k[a][i] = v
                                   /\ Fits(v, a)
<1>1. Sound(rf, k, r) /\ DOMAIN k = DOMAIN rf /\ Contents(k)
      /\ rf \in [DOMAIN rf -> Nat \ {0}]
  BY DEF Rest, Sound
<1>2. Pointers(k, r, {}, v) # 0
  BY <1>1 DEF Rest
<1>3. Places(k, v) # {} \/ RootPlaces(r, {}, v) # {}
  BY <1>1, <1>2, PointersCount
<1>4. CASE RootPlaces(r, {}, v) # {}
  BY <1>4 DEF RootPlaces
<1>5. CASE Places(k, v) # {}
  <2>1. PICK p : p \in Places(k, v)
    BY <1>5
  <2>2. p[1] \in DOMAIN k /\ p[2] \in DOMAIN k[p[1]] /\ k[p[1]][p[2]] = v
    BY <2>1, PlacesAre
  <2>3. Fits(k[p[1]][p[2]], p[1])
    BY <1>1, <2>2 DEF Sound
  <2>4. QED
    BY <1>1, <2>2, <2>3
<1>6. QED
  BY <1>3, <1>4, <1>5

LEMMA RestHeld ==
    ASSUME NEW rf, NEW k, NEW r, NEW n, Rest(rf, k, r, n), NEW v \in DOMAIN rf
    PROVE  /\ v \in Values
           /\ v[3] = "methods" => v = Methods /\ r["methods"] = Methods
           /\ v[3] \notin {"result", "wrapped", "results"}
           /\ v[3] = "info" =>
                  \/ /\ v[2] \in 1..2
                     /\ Methods \in DOMAIN rf
                     /\ \E i \in DOMAIN k[Methods] : k[Methods][i] = v
                  \/ v[2] \in 3..4 /\ v[1] \in RootNames /\ r[v[1]] = v
           /\ v[3] \in {"function", "data", "signatures", "help"} =>
                  Part(v[1], v[2], "info") \in DOMAIN rf
           /\ v[3] = "signature" =>
                  \E g \in 1..2, i \in Nat :
                      v[2] = g + 2 * i
                      /\ Part(v[1], g, "signatures") \in DOMAIN rf
           /\ v[3] = "key" =>
                  /\ Methods \in DOMAIN rf
                  /\ \E i \in DOMAIN k[Methods] : k[Methods][i] = v
<1>1. Sound(rf, k, r) /\ DOMAIN rf \subseteq Values
  BY DEF Rest, Sound
<1>2. \A u \in DOMAIN rf :
          \/ \E which \in RootNames : r[which] = u
          \/ \E a \in DOMAIN rf : /\ \E i \in DOMAIN k[a] : k[a][i] = u
                                  /\ Fits(u, a)
  BY RestPointed
<1>3. \A u \in DOMAIN rf : u \in Values /\ u = Part(u[1], u[2], u[3])
                           /\ u[3] \in Parts /\ u[2] \in Nat
  BY <1>1 DEF Values, Part
<1>4. ASSUME NEW u \in DOMAIN rf, NEW which \in RootNames, r[which] = u
      PROVE  \/ u = Methods /\ which = "methods"
             \/ u[3] = "info" /\ u[2] \in 3..4 /\ which = u[1]
  <2>1. u # NoValue
    BY <1>3, MethodsValue
  <2>2. FitsRoot(u, which)
    BY <1>1, <1>4, <2>1 DEF Sound
  <2>3. QED
    BY <2>2 DEF FitsRoot
<1>5. ASSUME NEW u \in DOMAIN rf, u[3] = "methods"
      PROVE  u = Methods /\ r["methods"] = Methods
  <2>1. \A a \in DOMAIN rf : ~Fits(u, a)
    BY <1>5 DEF Fits
  <2>2. PICK which \in RootNames : r[which] = u
    BY <1>2, <2>1
  <2>3. QED
    BY <1>4, <1>5, <2>2
<1>6. ASSUME NEW u \in DOMAIN rf, u[3] = "results" PROVE FALSE
  <2>1. \A a \in DOMAIN rf : ~Fits(u, a)
    BY <1>6 DEF Fits
  <2>2. Methods[3] # "results"
    BY MethodsValue
  <2>3. QED
    BY <1>2, <1>4, <1>6, <2>1, <2>2
<1>7. ASSUME NEW u \in DOMAIN rf, u[3] = "wrapped" PROVE FALSE
  <2>1. \A a \in DOMAIN rf : Fits(u, a) => a[3] = "results"
    BY <1>7 DEF Fits
  <2>2. Methods[3] # "wrapped"
    BY MethodsValue
  <2>3. QED
    BY <1>2, <1>4, <1>6, <1>7, <2>1, <2>2
<1>8. ASSUME NEW u \in DOMAIN rf, u[3] = "result" PROVE FALSE
  <2>1. \A a \in DOMAIN rf : Fits(u, a) => a[3] = "wrapped"
    BY <1>8 DEF Fits
  <2>2. Methods[3] # "result"
    BY MethodsValue
  <2>3. QED
    BY <1>2, <1>4, <1>7, <1>8, <2>1, <2>2
<1>9. ASSUME NEW which \in RootNames, r[which] = v
      PROVE  v[3] = "methods" \/ (v[3] = "info" /\ v[2] \in 3..4 /\ which = v[1])
  BY <1>4, <1>9, MethodsValue
<1>10. v[3] = "info" =>
           \/ /\ v[2] \in 1..2
              /\ Methods \in DOMAIN rf
              /\ \E i \in DOMAIN k[Methods] : k[Methods][i] = v
           \/ v[2] \in 3..4 /\ v[1] \in RootNames /\ r[v[1]] = v
  <2> SUFFICES ASSUME v[3] = "info"
               PROVE  \/ /\ v[2] \in 1..2
                         /\ Methods \in DOMAIN rf
                         /\ \E i \in DOMAIN k[Methods] : k[Methods][i] = v
                      \/ v[2] \in 3..4 /\ v[1] \in RootNames /\ r[v[1]] = v
    OBVIOUS
  <2>1. CASE \E which \in RootNames : r[which] = v
    BY <1>9, <2>1
  <2>2. CASE \E a \in DOMAIN rf : /\ \E i \in DOMAIN k[a] : k[a][i] = v
                                  /\ Fits(v, a)
    <3>1. PICK a \in DOMAIN rf : /\ \E i \in DOMAIN k[a] : k[a][i] = v
                                 /\ Fits(v, a)
      BY <2>2
    <3>2. a[3] = "methods" /\ v[2] \in 1..2
      BY <3>1 DEF Fits
    <3>3. a = Methods
      BY <1>5, <3>2
    <3>4. QED
      BY <3>1, <3>2, <3>3
  <2>3. QED
    BY <1>2, <2>1, <2>2
<1>11. v[3] \in {"function", "data", "signatures", "help"} =>
           Part(v[1], v[2], "info") \in DOMAIN rf
  <2> SUFFICES ASSUME v[3] \in {"function", "data", "signatures", "help"}
               PROVE  Part(v[1], v[2], "info") \in DOMAIN rf
    OBVIOUS
  <2>1. PICK a \in DOMAIN rf : Fits(v, a)
    BY <1>2, <1>9
  <2>2. a[3] = "info" \/ a[3] = "wrapped"
    BY <2>1 DEF Fits
  <2>3. a[3] = "info"
    BY <1>7, <2>2
  <2>4. v[1] = a[1] /\ v[2] = a[2]
    BY <2>1, <2>3 DEF Fits
  <2>5. QED
    BY <1>3, <2>3, <2>4
<1>12. v[3] = "signature" =>
           \E g \in 1..2, i \in Nat :
               v[2] = g + 2 * i /\ Part(v[1], g, "signatures") \in DOMAIN rf
  <2> SUFFICES ASSUME v[3] = "signature"
               PROVE  \E g \in 1..2, i \in Nat :
                          v[2] = g + 2 * i
                          /\ Part(v[1], g, "signatures") \in DOMAIN rf
    OBVIOUS
  <2>1. PICK a \in DOMAIN rf : Fits(v, a)
    BY <1>2, <1>9
  <2>2. a[3] = "signatures" \/ a[3] = "result"
    BY <2>1 DEF Fits
  <2>3. a[3] = "signatures"
    BY <1>8, <2>2
  <2>4. v[1] = a[1] /\ a[2] \in 1..2 /\ \E i \in Nat : v[2] = a[2] + 2 * i
    BY <2>1, <2>3 DEF Fits
  <2>5. Part(v[1], a[2], "signatures") \in DOMAIN rf
    BY <1>3, <2>3, <2>4
  <2>6. QED
    BY <2>4, <2>5
<1>13. v[3] = "key" =>
           /\ Methods \in DOMAIN rf
           /\ \E i \in DOMAIN k[Methods] : k[Methods][i] = v
  <2> SUFFICES ASSUME v[3] = "key"
               PROVE  /\ Methods \in DOMAIN rf
                      /\ \E i \in DOMAIN k[Methods] : k[Methods][i] = v
    OBVIOUS
  <2>1. PICK a \in DOMAIN rf : /\ \E i \in DOMAIN k[a] : k[a][i] = v
                               /\ Fits(v, a)
    BY <1>2, <1>9
  <2>2. a[3] = "methods" \/ a[3] = "result"
    BY <2>1 DEF Fits
  <2>3. a = Methods
    BY <1>5, <1>8, <2>2
  <2>4. QED
    BY <2>1, <2>3
<1>14. QED
  BY <1>3, <1>5, <1>6, <1>7, <1>8, <1>10, <1>11, <1>12, <1>13
-----------------------------------------------------------------------------
(* The members of _methods.                                                *)

LEMMA PartIs ==
    \A name, g, part : /\ Part(name, g, part)[1] = name
                       /\ Part(name, g, part)[2] = g
                       /\ Part(name, g, part)[3] = part
BY DEF Part

LEMMA PartValues ==
    ASSUME NEW name \in Names, NEW g \in Nat, NEW part \in Parts
    PROVE  Part(name, g, part) \in Values
BY DEF Part, Values

(* The list s is a list of m members.                                      *)
Listed(s, m) ==
    /\ m \in Nat /\ Len(s) = 2 * m /\ Len(s) \div 2 = m
    /\ \A i \in 1..m :
           /\ 2 * i - 1 \in 1..Len(s) /\ 2 * i \in 1..Len(s)
           /\ \E name \in Names, g \in 1..2 :
                  /\ s[2 * i - 1] = KeyFor(name)
                  /\ s[2 * i] = Part(name, g, "info")
    /\ \A p \in 1..Len(s) : \E i \in 1..m : p = 2 * i - 1 \/ p = 2 * i
    /\ \A i, j \in 1..m : s[2 * i - 1][1] = s[2 * j - 1][1] => i = j
    /\ \A i, j \in 1..m : s[2 * i][1] = s[2 * j][1] => i = j

LEMMA MembersListed ==
    ASSUME NEW s, NEW n, Members(s, n)
    PROVE  \E m \in Nat : /\ Listed(s, m)
                          /\ \A j \in 1..n : \E i \in 1..m :
                                 s[2 * i - 1] = KeyFor(SystemMethods[j])
<1>1. PICK m \in Nat :
          /\ Len(s) = 2 * m
          /\ \A i \in 1..m : \E name \in Names, g \in 1..2 :
                 s[2 * i - 1] = KeyFor(name) /\ s[2 * i] = Part(name, g, "info")
          /\ \A i, j \in 1..m : s[2 * i - 1] = s[2 * j - 1] => i = j
          /\ \A j \in 1..n : \E i \in 1..m :
                 s[2 * i - 1] = KeyFor(SystemMethods[j])
  BY DEF Members
<1>2. Len(s) \div 2 = m
  BY <1>1
<1>3. \A i \in 1..m : 2 * i - 1 \in 1..(2 * m) /\ 2 * i \in 1..(2 * m)
  OBVIOUS
<1>4. \A p \in 1..(2 * m) : \E i \in 1..m : p = 2 * i - 1 \/ p = 2 * i
  <2> SUFFICES ASSUME NEW p \in 1..(2 * m)
               PROVE  \E i \in 1..m : p = 2 * i - 1 \/ p = 2 * i
    OBVIOUS
  <2>1. (p + 1) \div 2 \in 1..m
    OBVIOUS
  <2>2. p = 2 * ((p + 1) \div 2) - 1 \/ p = 2 * ((p + 1) \div 2)
    OBVIOUS
  <2>3. QED
    BY <2>1, <2>2
<1>5. ASSUME NEW i \in 1..m, NEW j \in 1..m,
             s[2 * i - 1][1] = s[2 * j - 1][1] \/ s[2 * i][1] = s[2 * j][1]
      PROVE  i = j
  <2>1. PICK name \in Names, g \in 1..2 :
            s[2 * i - 1] = KeyFor(name) /\ s[2 * i] = Part(name, g, "info")
    BY <1>1
  <2>2. PICK other \in Names, h \in 1..2 :
            s[2 * j - 1] = KeyFor(other) /\ s[2 * j] = Part(other, h, "info")
    BY <1>1
  <2>3. name = other
    BY ONLY <1>5, <2>1, <2>2, PartIs DEF KeyFor
  <2>4. s[2 * i - 1] = s[2 * j - 1]
    BY <2>1, <2>2, <2>3
  <2>5. QED
    BY <1>1, <2>4
<1>6. Listed(s, m)
  BY <1>1, <1>2, <1>3, <1>4, <1>5 DEF Listed
<1>7. QED
  BY <1>1, <1>6

LEMMA RestMembers ==
    ASSUME NEW rf, NEW k, NEW r, NEW n, Rest(rf, k, r, n), Methods \in DOMAIN rf
    PROVE  /\ k[Methods] \in Seq(Values) /\ DOMAIN k[Methods] = 1..Len(k[Methods])
           /\ \A i \in DOMAIN k[Methods] : k[Methods][i] \in DOMAIN rf
           /\ \E m \in Nat : /\ Listed(k[Methods], m)
                             /\ \A j \in 1..n : \E i \in 1..m :
                                    k[Methods][2 * i - 1] = KeyFor(SystemMethods[j])
<1>1. Sound(rf, k, r) /\ DOMAIN k = DOMAIN rf /\ Contents(k)
  BY DEF Rest, Sound
<1>2. k[Methods] \in Seq(Values)
  BY <1>1 DEF Contents
<1>3. DOMAIN k[Methods] = 1..Len(k[Methods])
  BY <1>2
<1>4. ASSUME NEW i \in DOMAIN k[Methods]
      PROVE  k[Methods][i] \in DOMAIN rf
  <2>1. k[Methods][i] \in Values
    BY <1>2
  <2>2. Places(k, k[Methods][i]) # {}
    BY <1>1, PlacesAre
  <2>3. QED
    BY <2>1, <2>2 DEF Rest
<1>5. Members(k[Methods], n)
  BY DEF Rest
<1>6. QED
  BY <1>2, <1>3, <1>4, <1>5, MembersListed

(* Which names are registered, as the operations see it.                   *)
LEMMA RegisteredAre ==
    ASSUME NEW n, Rest(refs, kids, roots, n), Methods \in DOMAIN refs
    PROVE  /\ MemberCount \in Nat
           /\ \A i \in 1..MemberCount : \E name \in Names, g \in 1..2 :
                  /\ KeyAt(i) = KeyFor(name) /\ KeyAt(i) \in DOMAIN refs
                  /\ InfoAt(i) = Part(name, g, "info")
                  /\ InfoAt(i) \in DOMAIN refs
           /\ \A name : Registered(name) =>
                  /\ name \in Names
                  /\ \E g \in 1..2 : InfoOf(name) = Part(name, g, "info")
                  /\ InfoOf(name) \in DOMAIN refs
                  /\ \E i \in DOMAIN kids[Methods] :
                         /\ kids[Methods][i] = InfoOf(name)
                         /\ \A j \in DOMAIN kids[Methods] :
                                kids[Methods][j] = InfoOf(name) => j = i
           /\ \A name \in Names : KeyFor(name) \in DOMAIN refs => Registered(name)
           /\ \A j \in 1..n : Registered(SystemMethods[j])
<1> DEFINE s == kids[Methods]
<1>1. /\ DOMAIN s = 1..Len(s) /\ \A i \in DOMAIN s : s[i] \in DOMAIN refs
      /\ \E m \in Nat : /\ Listed(s, m)
                        /\ \A j \in 1..n : \E i \in 1..m :
                               s[2 * i - 1] = KeyFor(SystemMethods[j])
  BY RestMembers
<1>2. PICK m \in Nat : /\ Listed(s, m)
                       /\ \A j \in 1..n : \E i \in 1..m :
                              s[2 * i - 1] = KeyFor(SystemMethods[j])
  BY <1>1
<1>3. MemberCount = m
  BY <1>2 DEF MemberCount, Listed
<1>4. \A i : KeyAt(i) = s[2 * i - 1] /\ InfoAt(i) = s[2 * i]
  BY DEF KeyAt, InfoAt
<1> HIDE DEF s
<1>5. ASSUME NEW i \in 1..m
      PROVE  /\ 2 * i - 1 \in 1..Len(s) /\ 2 * i \in 1..Len(s)
             /\ \E name \in Names, g \in 1..2 :
                    /\ s[2 * i - 1] = KeyFor(name)
                    /\ s[2 * i] = Part(name, g, "info")
  BY <1>2 DEF Listed
<1>6. \A i \in 1..m : \E name \in Names, g \in 1..2 :
          /\ KeyAt(i) = KeyFor(name) /\ KeyAt(i) \in DOMAIN refs
          /\ InfoAt(i) = Part(name, g, "info") /\ InfoAt(i) \in DOMAIN refs
  BY <1>1, <1>4, <1>5
<1>7. ASSUME NEW name, Registered(name)
      PROVE  /\ name \in Names
             /\ \E g \in 1..2 : InfoOf(name) = Part(name, g, "info")
             /\ InfoOf(name) \in DOMAIN refs
             /\ \E i \in DOMAIN s :
                    /\ s[i] = InfoOf(name)
                    /\ \A j \in DOMAIN s : s[j] = InfoOf(name) => j = i
  <2> DEFINE i == CHOOSE j \in 1..MemberCount : KeyAt(j)[1] = name
  <2>1. i \in 1..MemberCount /\ KeyAt(i)[1] = name
    BY <1>7 DEF Registered
  <2>2. InfoOf(name) = InfoAt(i)
    BY DEF InfoOf
  <2> HIDE DEF i
  <2>3. PICK other \in Names, g \in 1..2 :
            /\ KeyAt(i) = KeyFor(other)
            /\ InfoAt(i) = Part(other, g, "info") /\ InfoAt(i) \in DOMAIN refs
    BY <1>3, <1>6, <2>1
  <2>4. other = name
    BY <2>1, <2>3, PartIs DEF KeyFor
  <2>5. 2 * i \in DOMAIN s /\ s[2 * i] = InfoOf(name)
    BY <1>1, <1>3, <1>4, <1>5, <2>1, <2>2
  <2>6. ASSUME NEW j \in DOMAIN s, s[j] = InfoOf(name)
        PROVE  j = 2 * i
    <3>1. PICK l \in 1..m : j = 2 * l - 1 \/ j = 2 * l
      BY <1>1, <1>2 DEF Listed
    <3>2. s[j][3] = "info"
      BY <2>2, <2>3, <2>6, PartIs
    <3>3. PICK third \in Names : s[2 * l - 1] = KeyFor(third)
      BY <1>5
    <3>4. s[2 * l - 1][3] = "key"
      BY <3>3, PartIs DEF KeyFor
    <3>5. j = 2 * l
      BY <3>1, <3>2, <3>4
    <3>6. s[2 * l][1] = s[2 * i][1]
      BY <2>5, <2>6, <3>5
    <3>7. l = i
      BY <1>2, <1>3, <2>1, <3>6 DEF Listed
    <3>8. QED
      BY <3>5, <3>7
  <2>7. QED
    BY <2>2, <2>3, <2>4, <2>5, <2>6
<1>8. ASSUME NEW name \in Names, KeyFor(name) \in DOMAIN refs
      PROVE  Registered(name)
  <2>1. KeyFor(name)[3] = "key" /\ KeyFor(name)[1] = name
    BY PartIs DEF KeyFor
  <2>2. \E i \in DOMAIN kids[Methods] : kids[Methods][i] = KeyFor(name)
    BY <1>8, <2>1, RestHeld
  <2>3. PICK j \in DOMAIN s : s[j] = KeyFor(name)
    BY <2>2 DEF s
  <2>4. PICK l \in 1..m : j = 2 * l - 1 \/ j = 2 * l
    BY <1>1, <1>2 DEF Listed
  <2>5. PICK third \in Names, g \in 1..2 : s[2 * l] = Part(third, g, "info")
    BY <1>5
  <2>6. s[2 * l][3] = "info"
    BY <2>5, PartIs
  <2>7. j = 2 * l - 1
    BY <2>1, <2>3, <2>4, <2>6
  <2>8. KeyAt(l)[1] = name
    BY <1>4, <2>1, <2>3, <2>7
  <2>9. QED
    BY <1>3, <2>8 DEF Registered
<1>9. ASSUME NEW j \in 1..n
      PROVE  Registered(SystemMethods[j])
  <2>1. PICK i \in 1..m : s[2 * i - 1] = KeyFor(SystemMethods[j])
    BY <1>2
  <2>2. KeyAt(i)[1] = SystemMethods[j]
    BY <1>4, <2>1, PartIs DEF KeyFor
  <2>3. QED
    BY <1>3, <2>2 DEF Registered
<1>10. QED
  BY <1>3, <1>6, <1>7, <1>8, <1>9 DEF s
-----------------------------------------------------------------------------
(* The numbers in use, and the heap an operation begins with.              *)

(* No two infos of a name are there; a registration begins with a number   *)
(* under which nothing is left.                                            *)
LEMMA FreshMethod ==
    ASSUME NEW n, Rest(refs, kids, roots, n), NEW name \in Names
    PROVE  LET g == Unused(name, 1)
           IN  /\ g \in 1..2
               /\ \A part \in {"info", "function", "data", "signatures", "help"} :
                      Part(name, g, part) \notin DOMAIN refs
               /\ \A i \in Nat : Part(name, g + 2 * i, "signature") \notin DOMAIN refs
<1> DEFINE g == Unused(name, 1)
           one == Part(name, 1, "info")
           two == Part(name, 2, "info")
<1>1. g = IF one \in DOMAIN refs THEN 2 ELSE 1
  BY DEF Unused, Live
<1>2. ASSUME one \in DOMAIN refs, two \in DOMAIN refs PROVE FALSE
  <2>1. /\ one[1] = name /\ one[2] = 1 /\ one[3] = "info"
        /\ two[1] = name /\ two[2] = 2 /\ two[3] = "info"
    BY PartIs
  <2>2. Methods \in DOMAIN refs /\ \E i \in DOMAIN kids[Methods] : kids[Methods][i] = one
    BY ONLY <1>2, <2>1, RestHeld, Rest(refs, kids, roots, n)
  <2>3. \E j \in DOMAIN kids[Methods] : kids[Methods][j] = two
    BY ONLY <1>2, <2>1, RestHeld, Rest(refs, kids, roots, n)
  <2>4. PICK i \in DOMAIN kids[Methods] : kids[Methods][i] = one
    BY <2>2
  <2>5. PICK j \in DOMAIN kids[Methods] : kids[Methods][j] = two
    BY <2>3
  <2>6. PICK m \in Nat : Listed(kids[Methods], m)
    BY <2>2, RestMembers
  <2>7. DOMAIN kids[Methods] = 1..Len(kids[Methods])
    BY <2>2, RestMembers
  <2>8. PICK p \in 1..m : i = 2 * p - 1 \/ i = 2 * p
    BY <2>6, <2>7 DEF Listed
  <2>9. PICK q \in 1..m : j = 2 * q - 1 \/ j = 2 * q
    BY <2>6, <2>7 DEF Listed
  <2>10. \A l \in 1..m : kids[Methods][2 * l - 1][3] = "key"
    BY <2>6, PartIs DEF Listed, KeyFor
  <2>11. i = 2 * p /\ j = 2 * q
    BY <2>1, <2>4, <2>5, <2>8, <2>9, <2>10
  <2>12. p = q
    <3>1. kids[Methods][2 * p][1] = kids[Methods][2 * q][1]
      BY <2>1, <2>4, <2>5, <2>11
    <3>2. QED
      BY <2>6, <3>1 DEF Listed
  <2>13. QED
    BY <2>1, <2>4, <2>5, <2>11, <2>12
<1>3. g \in 1..2 /\ Part(name, g, "info") \notin DOMAIN refs
  BY <1>1, <1>2
<1> HIDE DEF g
<1>4. ASSUME NEW part \in {"function", "data", "signatures", "help"}
      PROVE  Part(name, g, part) \notin DOMAIN refs
  BY <1>3, RestHeld, PartIs
<1>5. ASSUME NEW i \in Nat
      PROVE  Part(name, g + 2 * i, "signature") \notin DOMAIN refs
  <2> DEFINE v == Part(name, g + 2 * i, "signature")
  <2> SUFFICES ASSUME v \in DOMAIN refs PROVE FALSE
    OBVIOUS
  <2>1. v[1] = name /\ v[2] = g + 2 * i /\ v[3] = "signature"
    BY PartIs
  <2> HIDE DEF v
  <2>2. PICK h \in 1..2, j \in Nat :
            v[2] = h + 2 * j /\ Part(v[1], h, "signatures") \in DOMAIN refs
    BY ONLY <2>1, RestHeld, Rest(refs, kids, roots, n), v \in DOMAIN refs
  <2>3. h = g
    BY <1>3, <2>1, <2>2
  <2>4. QED
    BY <1>4, <2>1, <2>2, <2>3
<1>6. QED
  BY <1>3, <1>4, <1>5 DEF g

LEMMA FreshRoot ==
    ASSUME NEW n, Rest(refs, kids, roots, n), NEW which \in {"default", "preinvoke"}
    PROVE  LET g == Unused(which, 3)
           IN  /\ g \in 3..4
               /\ \A part \in {"info", "function", "data"} :
                      Part(which, g, part) \notin DOMAIN refs
<1> DEFINE g == Unused(which, 3)
           one == Part(which, 3, "info")
           two == Part(which, 4, "info")
<1>1. g = IF one \in DOMAIN refs THEN 4 ELSE 3
  BY DEF Unused, Live
<1>2. ASSUME one \in DOMAIN refs, two \in DOMAIN refs PROVE FALSE
  <2>1. /\ one[1] = which /\ one[2] = 3 /\ one[3] = "info"
        /\ two[1] = which /\ two[2] = 4 /\ two[3] = "info"
    BY PartIs
  <2>2. roots[which] = one
    BY ONLY <1>2, <2>1, RestHeld, Rest(refs, kids, roots, n)
  <2>3. roots[which] = two
    BY ONLY <1>2, <2>1, RestHeld, Rest(refs, kids, roots, n)
  <2>4. QED
    BY <2>1, <2>2, <2>3
<1>3. g \in 3..4 /\ Part(which, g, "info") \notin DOMAIN refs
  BY <1>1, <1>2
<1> HIDE DEF g
<1>4. ASSUME NEW part \in {"function", "data"}
      PROVE  Part(which, g, part) \notin DOMAIN refs
  BY <1>3, RestHeld, PartIs
<1>5. QED
  BY <1>3, <1>4 DEF g

(* The pointers the operation will overwrite are its own from the start.   *)
Start(rf, k, r, stale) ==
    Heap([v \in Values |-> IF v \notin DOMAIN rf THEN -1
                           ELSE IF \E which \in stale : r[which] = v THEN 1
                           ELSE 0],
         [v \in Values |-> IF v \in DOMAIN rf THEN k[v] ELSE <<>>], stale)

LEMMA StartFields ==
    ASSUME NEW rf, NEW k, NEW r, NEW n, Rest(rf, k, r, n),
           NEW stale \in SUBSET RootNames
    PROVE  LET S == Start(rf, k, r, stale)
           IN  /\ S \in Heaps /\ S.stale = stale
               /\ \A v \in Values :
                      /\ v \notin DOMAIN rf => S.own[v] = -1
                      /\ v \in DOMAIN rf =>
                             /\ S.items[v] = k[v]
                             /\ S.own[v] = IF \E which \in stale : r[which] = v
                                           THEN 1 ELSE 0
<1> DEFINE own == [v \in Values |-> IF v \notin DOMAIN rf THEN -1
                           ELSE IF \E which \in stale : r[which] = v THEN 1
                           ELSE 0]
           items == [v \in Values |-> IF v \in DOMAIN rf THEN k[v] ELSE <<>>]
           S == Start(rf, k, r, stale)
<1>1. own \in [Values -> Nat \union {-1}]
  OBVIOUS
<1>2. items \in [Values -> Seq(Values)]
  <2>1. k \in [DOMAIN rf -> Seq(Values)] /\ <<>> \in Seq(Values)
    BY DEF Rest, Sound, Contents
  <2>2. QED
    BY <2>1
<1>3. S = Heap(own, items, stale)
  BY DEF Start
<1> HIDE DEF S, own, items
<1>4. S \in Heaps /\ S.own = own /\ S.items = items /\ S.stale = stale
  <2>1. Heap(own, items, stale) \in Heaps
    BY <1>1, <1>2, HeapMade
  <2>2. QED
    BY <1>3, <2>1, HeapParts
<1>5. QED
  BY <1>4 DEF S, own, items

LEMMA StartAgrees ==
    ASSUME NEW rf, NEW k, NEW r, NEW n, Rest(rf, k, r, n),
           NEW stale \in SUBSET RootNames, NEW K, Kept(k, r, stale, K)
    PROVE  Agrees(rf, k, r, Start(rf, k, r, stale), K)
<1> DEFINE S == Start(rf, k, r, stale)
<1>1. /\ S \in Heaps /\ S.stale = stale
      /\ \A v \in Values :
             /\ v \notin DOMAIN rf => S.own[v] = -1
             /\ v \in DOMAIN rf =>
                    /\ S.items[v] = k[v]
                    /\ S.own[v] = IF \E which \in stale : r[which] = v
                                  THEN 1 ELSE 0
  BY StartFields
<1> HIDE DEF S
<1>2. Sound(rf, k, r) /\ Contents(k) /\ DOMAIN rf \subseteq Values
  BY DEF Rest, Sound
<1>3. Balanced(rf, k, r, S)
  <2> SUFFICES ASSUME NEW v \in Values PROVE BalancedAt(rf, k, r, S, v)
    BY DEF Balanced
  <2>1. CASE v \in DOMAIN rf
    <3>1. rf[v] = Pointers(k, r, {}, v)
      BY <2>1 DEF Rest
    <3> DEFINE all == RootPlaces(r, {}, v)
               left == RootPlaces(r, stale, v)
    <3>2. /\ Cardinality(Places(k, v)) \in Nat
          /\ IsFiniteSet(left) /\ Cardinality(left) \in Nat
          /\ IsFiniteSet(all) /\ Cardinality(all) \in Nat
      BY <1>2, PointersCount
    <3>3. S.own[v] >= 0 /\ Cardinality(all) = Cardinality(left) + S.own[v]
      <4>1. CASE \E which \in stale : r[which] = v
        <5>1. PICK which \in stale : r[which] = v
          BY <4>1
        <5>2. \A w \in RootNames : r[w] = v => w = which
          <6>1. \A w \in RootNames : r[w] = v => FitsRoot(v, w)
            BY <1>2, MethodsValue DEF Sound
          <6>2. v[3] = "methods" <=> v = Methods
            BY <2>1, RestHeld, MethodsValue
          <6>3. Methods[3] # "info"
            BY MethodsValue
          <6>4. QED
            BY <5>1, <6>1, <6>2, <6>3 DEF FitsRoot, RootNames
        <5>3. all = left \union {which} /\ which \notin left
          BY <5>1, <5>2 DEF RootPlaces
        <5>4. Cardinality(all) = Cardinality(left) + 1
          BY <3>2, <5>3, FS_AddElement
        <5>5. S.own[v] = 1
          BY <1>1, <2>1, <4>1
        <5>6. QED
          BY <5>4, <5>5
      <4>2. CASE ~ \E which \in stale : r[which] = v
        <5>1. all = left
          BY <4>2 DEF RootPlaces
        <5>2. S.own[v] = 0
          BY <1>1, <2>1, <4>2
        <5>3. QED
          BY <3>2, <5>1, <5>2
      <4>3. QED
        BY <4>1, <4>2
    <3>4. S.own[v] \in Int
      BY <1>1, HeapFields
    <3>5. rf[v] = Cardinality(Places(k, v)) + Cardinality(left) + S.own[v]
      <4>1. rf[v] = Cardinality(Places(k, v)) + Cardinality(all)
        BY <3>1 DEF Pointers
      <4> HIDE DEF all, left
      <4>2. QED
        BY ONLY <3>2, <3>3, <3>4, <4>1
    <3>6. k[v] = S.items[v] /\ rf[v] = Pointers(k, r, S.stale, v) + S.own[v]
      BY <1>1, <2>1, <3>5 DEF Pointers
    <3>7. S.own[v] >= 0
      BY <3>3
    <3> HIDE DEF all, left
    <3>8. QED
      BY ONLY <2>1, <3>6, <3>7 DEF BalancedAt
  <2>2. CASE v \notin DOMAIN rf
    <3>1. Places(k, v) = {} /\ RootPlaces(r, {}, v) = {}
      BY <2>2 DEF Rest
    <3>2. RootPlaces(r, stale, v) = {}
      BY <3>1 DEF RootPlaces
    <3>3. S.own[v] = -1
      BY <1>1, <2>2
    <3>4. S.own[v] <= 0 /\ S.stale = stale
      BY <1>1, <3>3
    <3>5. QED
      BY ONLY <2>2, <3>1, <3>2, <3>4 DEF BalancedAt
  <2>3. QED
    BY <2>1, <2>2
<1>4. Agrees(rf, k, r, S, K)
  BY <1>1, <1>2, <1>3 DEF Agrees
<1>5. QED
  BY <1>4 DEF S

(* What an operation may hold on to.                                       *)
LEMMA KeptNone ==
    ASSUME NEW k, NEW r, NEW stale
    PROVE  Kept(k, r, stale, {})
BY DEF Kept

LEMMA KeptMethods ==
    ASSUME NEW k, NEW r, NEW stale, r["methods"] = Methods, "methods" \notin stale
    PROVE  Kept(k, r, stale, {Methods})
<1>1. "methods" \in RootNames \ stale
  BY DEF RootNames
<1>2. QED
  BY <1>1, MethodsValue DEF Kept

LEMMA KeptAll ==
    ASSUME NEW rf, NEW k, NEW r, NEW n, Rest(rf, k, r, n)
    PROVE  Kept(k, r, {}, DOMAIN rf)
<1>1. DOMAIN rf \subseteq Values /\ DOMAIN k = DOMAIN rf
  BY DEF Rest, Sound
<1>2. \A v \in DOMAIN rf :
          \/ \E which \in RootNames : r[which] = v
          \/ \E a \in DOMAIN rf : \E i \in DOMAIN k[a] : k[a][i] = v
  BY RestPointed
<1>3. QED
  BY <1>1, <1>2 DEF Kept
-----------------------------------------------------------------------------
(* The runs of the pieces the operations are made of, told by what they    *)
(* change: only the values of X.                                           *)

Same(S, E, X) ==
    /\ E.stale = S.stale
    /\ \A u \in Values : u \notin X => /\ E.own[u] = S.own[u]
                                       /\ E.items[u] = S.items[u]

LEMMA SameCat ==
    ASSUME NEW S, NEW M, NEW E, NEW X, NEW Y, Same(S, M, X), Same(M, E, Y)
    PROVE  Same(S, E, X \union Y)
BY DEF Same

LEMMA NewRuns ==
    ASSUME NEW K, NEW S \in Heaps, NEW v \in Values, S.own[v] = -1
    PROVE  \E E \in Heaps :
               /\ Run(K, New(v), S, E)
               /\ Same(S, E, {v}) /\ E.own[v] = 1 /\ E.items[v] = <<>>
<1> DEFINE own == [S.own EXCEPT ![v] = 1]
           items == [S.items EXCEPT ![v] = <<>>]
           E == Heap(own, items, S.stale)
<1>1. E \in Heaps /\ Run(K, New(v), S, E)
  BY RunNew
<1>2. /\ S.own \in [Values -> Nat \union {-1}]
      /\ S.items \in [Values -> Seq(Values)]
  BY HeapFields
<1>3. /\ own[v] = 1 /\ items[v] = <<>>
      /\ \A u \in Values : u # v => own[u] = S.own[u] /\ items[u] = S.items[u]
  BY <1>2
<1> HIDE DEF own, items
<1>4. E.own = own /\ E.items = items /\ E.stale = S.stale
  BY HeapParts
<1> HIDE DEF E
<1>5. QED
  BY <1>1, <1>3, <1>4 DEF Same

LEMMA IncRuns ==
    ASSUME NEW K, NEW S \in Heaps, NEW v \in Values,
           S.own[v] >= 1 \/ (S.own[v] = 0 /\ Held(K, S, v))
    PROVE  \E E \in Heaps :
               /\ Run(K, Inc(v), S, E)
               /\ Same(S, E, {v}) /\ E.own[v] = S.own[v] + 1 /\ E.items = S.items
<1> DEFINE own == [S.own EXCEPT ![v] = S.own[v] + 1]
           E == Heap(own, S.items, S.stale)
<1>1. E \in Heaps /\ Run(K, Inc(v), S, E)
  BY RunInc
<1>2. S.own \in [Values -> Nat \union {-1}]
  BY HeapFields
<1>3. /\ own[v] = S.own[v] + 1
      /\ \A u \in Values : u # v => own[u] = S.own[u]
  BY <1>2
<1> HIDE DEF own
<1>4. E.own = own /\ E.items = S.items /\ E.stale = S.stale
  BY HeapParts
<1> HIDE DEF E
<1>5. QED
  BY <1>1, <1>3, <1>4 DEF Same

LEMMA DecRuns ==
    ASSUME NEW K, NEW S \in Heaps, NEW v \in Values, S.own[v] >= 1
    PROVE  \E E \in Heaps :
               /\ Run(K, Dec(v), S, E)
               /\ Same(S, E, {v}) /\ E.own[v] = S.own[v] - 1 /\ E.items = S.items
<1> DEFINE own == [S.own EXCEPT ![v] = S.own[v] - 1]
           E == Heap(own, S.items, S.stale)
<1>1. E \in Heaps /\ Run(K, Dec(v), S, E)
  BY RunDec
<1>2. S.own \in [Values -> Nat \union {-1}]
  BY HeapFields
<1>3. /\ own[v] = S.own[v] - 1
      /\ \A u \in Values : u # v => own[u] = S.own[u]
  BY <1>2
<1> HIDE DEF own
<1>4. E.own = own /\ E.items = S.items /\ E.stale = S.stale
  BY HeapParts
<1> HIDE DEF E
<1>5. QED
  BY <1>1, <1>3, <1>4 DEF Same

Moved(S, E, a, v) ==
    /\ Same(S, E, {a, v})
    /\ E.own[v] = S.own[v] - 1 /\ E.own[a] = S.own[a]
    /\ E.items[v] = S.items[v]
    /\ Tracked(a) => E.items[a] = Append(S.items[a], v)
    /\ ~Tracked(a) => E.items = S.items

LEMMA MoveRuns ==
    ASSUME NEW K, NEW S \in Heaps, NEW v \in Values, NEW a \in Values,
           v # a, S.own[v] >= 1, S.own[a] >= 1, Fits(v, a)
    PROVE  \E E \in Heaps : Run(K, MoveInto(a, v), S, E) /\ Moved(S, E, a, v)
<1> DEFINE own == [S.own EXCEPT ![v] = S.own[v] - 1]
           items == Linked(S.items, a, v)
           E == Heap(own, items, S.stale)
<1>1. E \in Heaps /\ Run(K, MoveInto(a, v), S, E)
  BY RunMove
<1>2. /\ S.own \in [Values -> Nat \union {-1}]
      /\ S.items \in [Values -> Seq(Values)]
  BY HeapFields
<1>3. /\ own[v] = S.own[v] - 1
      /\ \A u \in Values : u # v => own[u] = S.own[u]
  BY <1>2
<1>4. /\ Tracked(a) => items[a] = Append(S.items[a], v)
      /\ ~Tracked(a) => items = S.items
      /\ \A u \in Values : u # a => items[u] = S.items[u]
  BY <1>2 DEF Linked
<1> HIDE DEF own, items
<1>5. E.own = own /\ E.items = items /\ E.stale = S.stale
  BY HeapParts
<1> HIDE DEF E
<1>6. QED
  BY <1>1, <1>3, <1>4, <1>5 DEF Same, Moved

(* A value made and moved into an array.                                   *)
Added(S, E, a, v) ==
    /\ Same(S, E, {a, v})
    /\ E.own[v] = 0 /\ E.own[a] = S.own[a]
    /\ E.items[v] = <<>>
    /\ Tracked(a) => E.items[a] = Append(S.items[a], v)
    /\ ~Tracked(a) => E.items[a] = S.items[a]

LEMMA ItemRuns ==
    ASSUME NEW K, NEW S \in Heaps, NEW v \in Values, NEW a \in Values,
           v # a, S.own[v] = -1, S.own[a] >= 1, Fits(v, a)
    PROVE  \E E \in Heaps :
               Run(K, New(v) \o MoveInto(a, v), S, E) /\ Added(S, E, a, v)
<1>1. PICK M \in Heaps : /\ Run(K, New(v), S, M)
                         /\ Same(S, M, {v}) /\ M.own[v] = 1 /\ M.items[v] = <<>>
  BY NewRuns
<1>2. M.own[a] = S.own[a] /\ M.items[a] = S.items[a]
  BY <1>1 DEF Same
<1>3. M.own[v] >= 1 /\ M.own[a] >= 1
  BY <1>1, <1>2
<1>4. PICK E \in Heaps : Run(K, MoveInto(a, v), M, E) /\ Moved(M, E, a, v)
  <2>1. M \in Heaps /\ v \in Values /\ a \in Values /\ v # a /\ Fits(v, a)
    OBVIOUS
  <2>2. QED
    BY ONLY <1>3, <2>1, MoveRuns
<1>5. Run(K, New(v) \o MoveInto(a, v), S, E)
  BY <1>1, <1>4, RunCat
<1>6. Same(S, E, {a, v})
  <2>1. Same(S, E, {v} \union {a, v})
    BY <1>1, <1>4, SameCat DEF Moved
  <2>2. {v} \union {a, v} = {a, v}
    OBVIOUS
  <2>3. QED
    BY <2>1, <2>2
<1>7. E.own[v] = 0
  BY ONLY <1>1, <1>4 DEF Moved
<1>8. QED
  BY <1>1, <1>2, <1>4, <1>5, <1>6, <1>7 DEF Moved, Added

LEMMA PairRuns ==
    ASSUME NEW K, NEW S \in Heaps, NEW name \in Names, NEW g \in Nat,
           \A part \in {"info", "function", "data"} :
               S.own[Part(name, g, part)] = -1
    PROVE  LET info == Part(name, g, "info")
               fun == Part(name, g, "function")
               data == Part(name, g, "data")
           IN  \E E \in Heaps :
                   /\ Run(K, BuildPair(name, g), S, E)
                   /\ Same(S, E, {info, fun, data})
                   /\ E.own[info] = 1 /\ E.own[fun] = 0 /\ E.own[data] = 0
                   /\ E.items[info] = <<fun, data>>
<1> DEFINE info == Part(name, g, "info")
           fun == Part(name, g, "function")
           data == Part(name, g, "data")
<1>1. /\ info \in Values /\ fun \in Values /\ data \in Values
  BY PartValues DEF Parts
<1>2. info # fun /\ info # data /\ fun # data /\ Fits(fun, info) /\ Fits(data, info)
      /\ Tracked(info)
  BY PartIs DEF Fits, Tracked
<1>3. S.own[info] = -1 /\ S.own[fun] = -1 /\ S.own[data] = -1
  OBVIOUS
<1>4. BuildPair(name, g) = (New(info) \o (New(fun) \o MoveInto(info, fun)))
                           \o (New(data) \o MoveInto(info, data))
  BY DEF BuildPair
<1> HIDE DEF info, fun, data
<1>5. PICK A \in Heaps : /\ Run(K, New(info), S, A)
                         /\ Same(S, A, {info}) /\ A.own[info] = 1
                         /\ A.items[info] = <<>>
  BY <1>1, <1>3, NewRuns
<1>6. A.own[fun] = -1 /\ A.own[data] = -1 /\ A.own[info] >= 1
  BY <1>1, <1>2, <1>3, <1>5 DEF Same, Added
<1>7. PICK B \in Heaps :
          /\ Run(K, New(fun) \o MoveInto(info, fun), A, B)
          /\ Added(A, B, info, fun)
  BY <1>1, <1>2, <1>6, ItemRuns
<1>8. B.own[data] = -1 /\ B.own[info] >= 1
  BY <1>1, <1>2, <1>6, <1>7 DEF Same, Added
<1>9. PICK E \in Heaps :
          /\ Run(K, New(data) \o MoveInto(info, data), B, E)
          /\ Added(B, E, info, data)
  BY <1>1, <1>2, <1>8, ItemRuns
<1>10. Run(K, BuildPair(name, g), S, E)
  <2>1. Run(K, New(info) \o (New(fun) \o MoveInto(info, fun)), S, B)
    BY <1>5, <1>7, RunCat
  <2>2. QED
    BY <1>4, <1>9, <2>1, RunCat
<1>11. Same(S, E, {info, fun, data})
  BY <1>5, <1>7, <1>9 DEF Same, Added
<1>12. E.own[info] = 1 /\ E.own[fun] = 0 /\ E.own[data] = 0
  BY <1>1, <1>2, <1>5, <1>7, <1>9 DEF Same, Added
<1>13. E.items[info] = <<fun, data>>
  <2>1. Append(<<>>, fun) = <<fun>>
    OBVIOUS
  <2>2. Append(<<fun>>, data) = <<fun, data>>
    BY Appends
  <2>3. QED
    BY <1>2, <1>5, <1>7, <1>9, <2>1, <2>2 DEF Added
<1>14. QED
  BY <1>10, <1>11, <1>12, <1>13 DEF info, fun, data

LEMMA InfoRuns ==
    ASSUME NEW K, NEW S \in Heaps, NEW name \in Names, NEW g \in Nat,
           \A part \in {"info", "function", "data", "help"} :
               S.own[Part(name, g, part)] = -1,
           S.own[Part(name, g, "signatures")] = 1
    PROVE  LET info == Part(name, g, "info")
               fun == Part(name, g, "function")
               data == Part(name, g, "data")
               list == Part(name, g, "signatures")
               help == Part(name, g, "help")
           IN  \E E \in Heaps :
                   /\ Run(K, BuildInfo(name, g), S, E)
                   /\ Same(S, E, {info, fun, data, help})
                   /\ E.own[info] = 1 /\ E.own[fun] = 0 /\ E.own[data] = 0
                   /\ E.own[help] = 0
                   /\ E.items[info] = <<fun, data, list, help>>
<1> DEFINE info == Part(name, g, "info")
           fun == Part(name, g, "function")
           data == Part(name, g, "data")
           list == Part(name, g, "signatures")
           help == Part(name, g, "help")
<1>1. /\ info \in Values /\ fun \in Values /\ data \in Values
      /\ list \in Values /\ help \in Values
  BY PartValues DEF Parts
<1>2. /\ info # fun /\ info # data /\ info # list /\ info # help
      /\ list # fun /\ list # data /\ list # help /\ help # fun /\ help # data
      /\ Fits(list, info) /\ Fits(help, info) /\ Tracked(info)
  BY PartIs DEF Fits, Tracked
<1>3. S.own[help] = -1 /\ S.own[list] = 1
  OBVIOUS
<1>4. BuildInfo(name, g) = (((BuildPair(name, g) \o Inc(list)) \o MoveInto(info, list))
                            \o New(help)) \o MoveInto(info, help)
  BY DEF BuildInfo
<1>5. PICK A \in Heaps :
          /\ Run(K, BuildPair(name, g), S, A)
          /\ Same(S, A, {info, fun, data})
          /\ A.own[info] = 1 /\ A.own[fun] = 0 /\ A.own[data] = 0
          /\ A.items[info] = <<fun, data>>
  <2>1. \A part \in {"info", "function", "data"} : S.own[Part(name, g, part)] = -1
    OBVIOUS
  <2>2. S \in Heaps /\ name \in Names /\ g \in Nat
    OBVIOUS
  <2>3. QED
    BY ONLY <2>1, <2>2, PairRuns
<1> HIDE DEF info, fun, data, list, help
<1>6. A.own[list] = 1 /\ A.own[help] = -1
  BY <1>1, <1>2, <1>3, <1>5 DEF Same, Moved
<1>7. PICK B \in Heaps : /\ Run(K, Inc(list), A, B)
                         /\ Same(A, B, {list}) /\ B.own[list] = A.own[list] + 1
                         /\ B.items = A.items
  <2>1. A.own[list] >= 1 \/ (A.own[list] = 0 /\ Held(K, A, list))
    BY <1>6
  <2>2. A \in Heaps /\ list \in Values
    BY <1>1
  <2>3. QED
    BY ONLY <2>1, <2>2, IncRuns
<1>8. B.own[list] = 2 /\ B.own[info] = 1 /\ B.own[help] = -1
  BY <1>1, <1>2, <1>5, <1>6, <1>7 DEF Same, Moved
<1>9. PICK C \in Heaps :
          /\ Run(K, MoveInto(info, list), B, C) /\ Moved(B, C, info, list)
  <2>1. B.own[list] >= 1 /\ B.own[info] >= 1
    BY <1>8
  <2>2. QED
    BY <1>1, <1>2, <2>1, MoveRuns
<1>10. C.own[list] = 1 /\ C.own[info] = 1 /\ C.own[help] = -1
  BY <1>1, <1>2, <1>8, <1>9 DEF Same, Moved
<1>11. PICK D \in Heaps : /\ Run(K, New(help), C, D)
                          /\ Same(C, D, {help}) /\ D.own[help] = 1
                          /\ D.items[help] = <<>>
  BY <1>1, <1>10, NewRuns, ZenonT(30)
<1>12. D.own[info] = 1 /\ D.own[list] = 1 /\ D.items[info] = C.items[info]
       /\ D.items[list] = C.items[list]
  BY <1>1, <1>2, <1>10, <1>11 DEF Same, Moved
<1>13. PICK E \in Heaps :
          /\ Run(K, MoveInto(info, help), D, E) /\ Moved(D, E, info, help)
  <2>1. D.own[help] >= 1 /\ D.own[info] >= 1
    BY <1>11, <1>12
  <2>2. QED
    BY <1>1, <1>2, <2>1, MoveRuns
<1>14. Run(K, BuildInfo(name, g), S, E)
  <2>1. Run(K, BuildPair(name, g) \o Inc(list), S, B)
    BY <1>5, <1>7, RunCat
  <2>2. Run(K, (BuildPair(name, g) \o Inc(list)) \o MoveInto(info, list), S, C)
    BY <1>9, <2>1, RunCat
  <2>3. Run(K, ((BuildPair(name, g) \o Inc(list)) \o MoveInto(info, list))
               \o New(help), S, D)
    BY <1>11, <2>2, RunCat
  <2>4. QED
    BY <1>4, <1>13, <2>3, RunCat
<1>15. /\ E.own[list] = S.own[list] /\ E.items[list] = S.items[list]
  <2>1. E.own[list] = D.own[list] /\ E.items[list] = D.items[list]
    BY <1>1, <1>2, <1>13 DEF Same, Moved
  <2>2. B.items[list] = S.items[list]
    BY <1>1, <1>2, <1>5, <1>7 DEF Same, Moved
  <2>3. QED
    BY <1>3, <1>9, <1>12, <2>1, <2>2 DEF Moved
<1>16. Same(S, E, {info, fun, data, help})
  <2>1. Same(S, E, {info, fun, data, help, list})
    BY <1>5, <1>7, <1>9, <1>11, <1>13 DEF Same, Moved
  <2>2. QED
    BY <1>15, <2>1 DEF Same, Moved
<1>17. E.own[info] = 1 /\ E.own[help] = 0
  BY <1>11, <1>12, <1>13 DEF Moved
<1>18. E.own[fun] = 0 /\ E.own[data] = 0
  BY <1>1, <1>2, <1>5, <1>7, <1>9, <1>11, <1>13 DEF Same, Moved
<1>19. E.items[info] = <<fun, data, list, help>>
  <2>1. B.items[info] = <<fun, data>>
    BY <1>5, <1>7
  <2>2. D.items[info] = <<fun, data, list>>
    BY <1>2, <1>9, <1>12, <2>1, Appends DEF Moved
  <2>3. QED
    BY <1>2, <1>13, <2>2, Appends DEF Moved
<1>20. QED
  BY <1>14, <1>16, <1>17, <1>18, <1>19 DEF info, fun, data, list, help
-----------------------------------------------------------------------------
(* The list of members, replaced in and appended to.                       *)

Has(s, name) == \E i \in 1..(Len(s) \div 2) : s[2 * i - 1] = KeyFor(name)

LEMMA MembersMore ==
    ASSUME NEW s, NEW n \in Nat, Members(s, n), Has(s, SystemMethods[n + 1])
    PROVE  Members(s, n + 1)
<1>1. PICK m \in Nat :
          /\ Len(s) = 2 * m
          /\ \A i \in 1..m : \E name \in Names, g \in 1..2 :
                 s[2 * i - 1] = KeyFor(name) /\ s[2 * i] = Part(name, g, "info")
          /\ \A i, j \in 1..m : s[2 * i - 1] = s[2 * j - 1] => i = j
          /\ \A j \in 1..n : \E i \in 1..m :
                 s[2 * i - 1] = KeyFor(SystemMethods[j])
  BY DEF Members
<1>2. Len(s) \div 2 = m
  BY <1>1
<1>3. \A j \in 1..(n + 1) : j \in 1..n \/ j = n + 1
  OBVIOUS
<1>4. \A j \in 1..(n + 1) : \E i \in 1..m :
          s[2 * i - 1] = KeyFor(SystemMethods[j])
  BY <1>1, <1>2, <1>3 DEF Has
<1>5. QED
  BY <1>1, <1>4 DEF Members

LEMMA SwappedType ==
    ASSUME NEW s \in Seq(Values), NEW old, NEW info \in Values
    PROVE  /\ Swapped(s, old, info) \in Seq(Values)
           /\ DOMAIN Swapped(s, old, info) = DOMAIN s
           /\ Len(Swapped(s, old, info)) = Len(s)
BY DEF Swapped

LEMMA MembersReplaced ==
    ASSUME NEW s \in Seq(Values), NEW n, Members(s, n), NEW name \in Names,
           NEW g \in 1..2, NEW h \in 1..2, Has(s, name)
    PROVE  LET q == Swapped(s, Part(name, h, "info"), Part(name, g, "info"))
           IN  Members(q, n) /\ Has(q, name)
<1> DEFINE old == Part(name, h, "info")
           info == Part(name, g, "info")
           q == Swapped(s, old, info)
<1>1. old[3] = "info" /\ info[3] = "info" /\ info \in Values
  BY PartIs, PartValues DEF Parts
<1>2. DOMAIN q = 1..Len(s) /\ q \in Seq(Values) /\ Len(q) = Len(s)
      /\ \A i \in 1..Len(s) : q[i] = IF s[i] = old THEN info ELSE s[i]
  BY <1>1 DEF Swapped
<1>3. PICK m \in Nat :
          /\ Len(s) = 2 * m
          /\ \A i \in 1..m : \E other \in Names, f \in 1..2 :
                 s[2 * i - 1] = KeyFor(other) /\ s[2 * i] = Part(other, f, "info")
          /\ \A i, j \in 1..m : s[2 * i - 1] = s[2 * j - 1] => i = j
          /\ \A j \in 1..n : \E i \in 1..m :
                 s[2 * i - 1] = KeyFor(SystemMethods[j])
  BY DEF Members
<1> HIDE DEF q
<1>4. ASSUME NEW i \in 1..m
      PROVE  /\ q[2 * i - 1] = s[2 * i - 1]
             /\ \E other \in Names, f \in 1..2 :
                    q[2 * i - 1] = KeyFor(other) /\ q[2 * i] = Part(other, f, "info")
  <2>1. 2 * i - 1 \in 1..Len(s) /\ 2 * i \in 1..Len(s)
    BY <1>3
  <2>2. PICK other \in Names, f \in 1..2 :
            s[2 * i - 1] = KeyFor(other) /\ s[2 * i] = Part(other, f, "info")
    BY <1>3
  <2>3. KeyFor(other)[3] = "key"
    BY PartIs DEF KeyFor
  <2>4. q[2 * i - 1] = s[2 * i - 1]
    BY <1>1, <1>2, <2>1, <2>2, <2>3
  <2>5. CASE s[2 * i] = old
    <3>1. other = name
      BY <2>2, <2>5, PartIs
    <3>2. q[2 * i] = info
      BY <1>2, <2>1, <2>5
    <3>3. QED
      BY <2>2, <2>4, <3>1, <3>2
  <2>6. CASE s[2 * i] # old
    <3>1. q[2 * i] = s[2 * i]
      BY <1>2, <2>1, <2>6
    <3>2. QED
      BY <2>2, <2>4, <3>1
  <2>7. QED
    BY <2>5, <2>6
<1>5. Members(q, n)
  <2>1. \A i \in 1..m : q[2 * i - 1] = s[2 * i - 1]
    BY <1>4
  <2>2. /\ \A i, j \in 1..m : q[2 * i - 1] = q[2 * j - 1] => i = j
        /\ \A j \in 1..n : \E i \in 1..m : q[2 * i - 1] = KeyFor(SystemMethods[j])
    BY <1>3, <2>1
  <2>3. \A i \in 1..m : \E other \in Names, f \in 1..2 :
            q[2 * i - 1] = KeyFor(other) /\ q[2 * i] = Part(other, f, "info")
    BY <1>4
  <2>4. Len(q) = 2 * m
    BY <1>2, <1>3
  <2>5. QED
    BY <2>2, <2>3, <2>4 DEF Members
<1>6. Has(q, name)
  <2>1. Len(s) \div 2 = m /\ Len(q) \div 2 = m
    BY <1>2, <1>3
  <2>2. QED
    BY <1>4, <2>1 DEF Has
<1>7. QED
  BY <1>5, <1>6 DEF q

LEMMA MembersAppended ==
    ASSUME NEW s \in Seq(Values), NEW n, Members(s, n), NEW name \in Names,
           NEW g \in 1..2, \A i \in DOMAIN s : s[i] # KeyFor(name)
    PROVE  LET q == s \o <<KeyFor(name), Part(name, g, "info")>>
           IN  Members(q, n) /\ Has(q, name)
<1> DEFINE info == Part(name, g, "info")
           key == KeyFor(name)
           q == s \o <<key, info>>
<1>1. key \in Values /\ info \in Values
  BY PartValues DEF KeyFor, Parts
<1> HIDE DEF key, info
<1>2. /\ q \in Seq(Values) /\ Len(q) = Len(s) + 2
      /\ \A i \in 1..Len(s) : q[i] = s[i]
      /\ q[Len(s) + 1] = key /\ q[Len(s) + 2] = info
  BY <1>1
<1>3. PICK m \in Nat :
          /\ Len(s) = 2 * m
          /\ \A i \in 1..m : \E other \in Names, f \in 1..2 :
                 s[2 * i - 1] = KeyFor(other) /\ s[2 * i] = Part(other, f, "info")
          /\ \A i, j \in 1..m : s[2 * i - 1] = s[2 * j - 1] => i = j
          /\ \A j \in 1..n : \E i \in 1..m :
                 s[2 * i - 1] = KeyFor(SystemMethods[j])
  BY DEF Members
<1> HIDE DEF q
<1>4. \A i \in 1..m : 2 * i - 1 \in 1..Len(s) /\ 2 * i \in 1..Len(s)
  BY <1>3
<1>5. \A i \in 1..m : q[2 * i - 1] = s[2 * i - 1] /\ q[2 * i] = s[2 * i]
                      /\ s[2 * i - 1] # key
  BY <1>2, <1>4 DEF key
<1>6. /\ 2 * (m + 1) = Len(q) /\ q[2 * (m + 1) - 1] = key /\ q[2 * (m + 1)] = info
  <2>1. 2 * (m + 1) = Len(s) + 2 /\ 2 * (m + 1) - 1 = Len(s) + 1
    BY <1>3
  <2>2. QED
    BY <1>2, <2>1
<1>7. \A i \in 1..(m + 1) : i \in 1..m \/ i = m + 1
  OBVIOUS
<1>8. \A i \in 1..(m + 1) : \E other \in Names, f \in 1..2 :
          q[2 * i - 1] = KeyFor(other) /\ q[2 * i] = Part(other, f, "info")
  <2> SUFFICES ASSUME NEW i \in 1..(m + 1)
               PROVE  \E other \in Names, f \in 1..2 :
                          q[2 * i - 1] = KeyFor(other) /\ q[2 * i] = Part(other, f, "info")
    OBVIOUS
  <2>1. CASE i = m + 1
    BY <1>6, <2>1 DEF key, info
  <2>2. CASE i \in 1..m
    BY <1>3, <1>5, <2>2
  <2>3. QED
    BY <1>7, <2>1, <2>2
<1>9. ASSUME NEW i \in 1..(m + 1), NEW j \in 1..(m + 1),
             q[2 * i - 1] = q[2 * j - 1]
      PROVE  i = j
  <2>1. CASE i = m + 1 /\ j = m + 1
    BY <2>1
  <2>2. CASE i \in 1..m /\ j \in 1..m
    BY <1>3, <1>5, <1>9, <2>2
  <2>3. ~(i = m + 1 /\ j \in 1..m) /\ ~(i \in 1..m /\ j = m + 1)
    BY <1>5, <1>6, <1>9
  <2>4. QED
    BY <1>7, <2>1, <2>2, <2>3
<1>10. \A j \in 1..n : \E i \in 1..(m + 1) :
           q[2 * i - 1] = KeyFor(SystemMethods[j])
  <2> SUFFICES ASSUME NEW j \in 1..n
               PROVE  \E i \in 1..(m + 1) : q[2 * i - 1] = KeyFor(SystemMethods[j])
    OBVIOUS
  <2>1. PICK i \in 1..m : s[2 * i - 1] = KeyFor(SystemMethods[j])
    BY <1>3
  <2>2. i \in 1..(m + 1)
    OBVIOUS
  <2>3. QED
    BY <1>5, <2>1, <2>2
<1>11. m + 1 \in Nat /\ Len(q) = 2 * (m + 1)
  BY <1>6
<1>12. Members(q, n)
  BY <1>8, <1>9, <1>10, <1>11 DEF Members
<1>13. Has(q, name)
  <2>1. Len(q) \div 2 = m + 1 /\ m + 1 \in 1..(m + 1)
    BY <1>11
  <2>2. QED
    BY <1>6, <2>1 DEF Has, key
<1>14. QED
  BY <1>12, <1>13 DEF q, key, info
-----------------------------------------------------------------------------
(* xmlrpc_struct_set_value.                                                *)

Replacing(S, E, info, old) ==
    /\ E.stale = S.stale
    /\ E.own[info] = S.own[info] - 1 /\ E.own[old] = S.own[old] + 1
    /\ \A u \in Values : u # info /\ u # old => E.own[u] = S.own[u]
    /\ E.items[Methods] = Swapped(S.items[Methods], old, info)
    /\ \A u \in Values : u # Methods => E.items[u] = S.items[u]

LEMMA ReplaceRuns ==
    ASSUME NEW K, NEW S \in Heaps, NEW info \in Values, NEW old \in Values,
           Methods \in K, old \notin K, S.own[info] >= 1, S.own[old] >= 0,
           info # old, Fits(info, Methods),
           \E i \in DOMAIN S.items[Methods] :
               /\ S.items[Methods][i] = old
               /\ \A j \in DOMAIN S.items[Methods] :
                      S.items[Methods][j] = old => j = i
    PROVE  \E E \in Heaps : Run(K, << <<"replace", info, old>> >>, S, E)
                            /\ Replacing(S, E, info, old)
<1> DEFINE own == [S.own EXCEPT ![info] = S.own[info] - 1,
                                ![old] = S.own[old] + 1]
           q == Swapped(S.items[Methods], old, info)
           items == [S.items EXCEPT ![Methods] = q]
           E == Heap(own, items, S.stale)
<1>1. /\ S.own \in [Values -> Nat \union {-1}]
      /\ S.items \in [Values -> Seq(Values)] /\ S.stale \in SUBSET RootNames
      /\ Methods \in Values
  BY HeapFields, MethodsValue
<1>2. S.own[info] - 1 \in Nat /\ S.own[old] + 1 \in Nat
  <2>1. S.own[info] \in Nat /\ S.own[old] \in Nat
    BY <1>1
  <2>2. QED
    BY <2>1
<1>3. own \in [Values -> Nat \union {-1}]
  BY <1>1, <1>2
<1>4. q \in Seq(Values)
  <2>1. S.items[Methods] \in Seq(Values)
    BY <1>1
  <2>2. QED
    BY <2>1, SwappedType
<1>5. items \in [Values -> Seq(Values)]
  BY <1>1, <1>4
<1>6. E \in Heaps
  BY <1>1, <1>3, <1>5, HeapMade
<1>7. DoesReplace(K, S, info, old, E)
  BY DEF DoesReplace, Swapped
<1>8. Does(K, <<"replace", info, old>>, S, E)
  BY <1>7 DEF Does
<1>9. Run(K, << <<"replace", info, old>> >>, S, E)
  BY <1>6, <1>8, StepKinds, RunOne
<1>10. /\ own[info] = S.own[info] - 1 /\ own[old] = S.own[old] + 1
       /\ \A u \in Values : u # info /\ u # old => own[u] = S.own[u]
       /\ items[Methods] = q
       /\ \A u \in Values : u # Methods => items[u] = S.items[u]
  BY <1>1
<1> HIDE DEF own, items
<1>11. E.own = own /\ E.items = items /\ E.stale = S.stale
  BY HeapParts
<1> HIDE DEF E
<1>12. QED
  BY <1>6, <1>9, <1>10, <1>11 DEF Replacing

Joining(S, E, key, info) ==
    /\ E.stale = S.stale
    /\ E.own[info] = S.own[info] - 1 /\ E.own[key] = S.own[key] - 1
    /\ \A u \in Values : u # info /\ u # key => E.own[u] = S.own[u]
    /\ E.items[Methods] = S.items[Methods] \o <<key, info>>
    /\ \A u \in Values : u # Methods => E.items[u] = S.items[u]

LEMMA MemberRuns ==
    ASSUME NEW K, NEW S \in Heaps, NEW key \in Values, NEW info \in Values,
           Methods \in K, S.own[key] >= 1, S.own[info] >= 1,
           key # info, Fits(key, Methods), Fits(info, Methods)
    PROVE  \E E \in Heaps : Run(K, << <<"member", key, info>> >>, S, E)
                            /\ Joining(S, E, key, info)
<1> DEFINE own == [S.own EXCEPT ![key] = S.own[key] - 1,
                                ![info] = S.own[info] - 1]
           q == S.items[Methods] \o <<key, info>>
           items == [S.items EXCEPT ![Methods] = q]
           E == Heap(own, items, S.stale)
<1>1. /\ S.own \in [Values -> Nat \union {-1}]
      /\ S.items \in [Values -> Seq(Values)] /\ S.stale \in SUBSET RootNames
      /\ Methods \in Values
  BY HeapFields, MethodsValue
<1>2. S.own[info] - 1 \in Nat /\ S.own[key] - 1 \in Nat
  <2>1. S.own[info] \in Nat /\ S.own[key] \in Nat
    BY <1>1
  <2>2. S.own[info] >= 1 /\ S.own[key] >= 1
    OBVIOUS
  <2>3. QED
    BY ONLY <2>1, <2>2
<1>3. own \in [Values -> Nat \union {-1}]
  BY <1>1, <1>2
<1>4. q \in Seq(Values)
  <2>1. S.items[Methods] \in Seq(Values)
    BY <1>1
  <2>2. QED
    BY <2>1
<1>5. items \in [Values -> Seq(Values)]
  BY <1>1, <1>4
<1>6. E \in Heaps
  BY <1>1, <1>3, <1>5, HeapMade
<1>7. DoesMember(K, S, key, info, E)
  BY DEF DoesMember
<1>8. Does(K, <<"member", key, info>>, S, E)
  BY <1>7 DEF Does
<1>9. Run(K, << <<"member", key, info>> >>, S, E)
  BY <1>6, <1>8, StepKinds, RunOne
<1>10. /\ own[info] = S.own[info] - 1 /\ own[key] = S.own[key] - 1
       /\ \A u \in Values : u # info /\ u # key => own[u] = S.own[u]
       /\ items[Methods] = q
       /\ \A u \in Values : u # Methods => items[u] = S.items[u]
  BY <1>1
<1> HIDE DEF own, items
<1>11. E.own = own /\ E.items = items /\ E.stale = S.stale
  BY HeapParts
<1> HIDE DEF E
<1>12. QED
  BY <1>6, <1>9, <1>10, <1>11 DEF Joining
Valued(S, E, name, n) ==
    /\ E.stale = S.stale
    /\ \A u \in Values : u # KeyFor(name) => E.own[u] = S.own[u]
    /\ E.own[KeyFor(name)] = S.own[KeyFor(name)] \/ E.own[KeyFor(name)] = 0
    /\ \A u \in Values : u # Methods /\ u # KeyFor(name) => E.items[u] = S.items[u]
    /\ Members(E.items[Methods], n) /\ Has(E.items[Methods], name)

(* What the operation finds when it sets a member.                         *)
MayValue(S, name, info) ==
    /\ S.items[Methods] = kids[Methods]
    /\ S.own[info] = 1
    /\ Registered(name) => S.own[InfoOf(name)] = 0 /\ InfoOf(name) # info
    /\ ~Registered(name) => S.own[KeyFor(name)] = -1

LEMMA SetRegisteredRuns ==
    ASSUME NEW n, Rest(refs, kids, roots, n), Methods \in DOMAIN refs,
           NEW S \in Heaps, NEW name \in Names, NEW g \in 1..2,
           MayValue(S, name, Part(name, g, "info")), Registered(name)
    PROVE  \E E \in Heaps :
               /\ Run({Methods}, SetValue(name, Part(name, g, "info")), S, E)
               /\ Valued(S, E, name, n)
<1> DEFINE K == {Methods}
           info == Part(name, g, "info")
           old == InfoOf(name)
           s == S.items[Methods]
<1>1. /\ S.items[Methods] = kids[Methods] /\ S.own[info] = 1
      /\ S.own[old] = 0 /\ old # info
  BY DEF MayValue
<1>2. /\ \E h \in 1..2 : old = Part(name, h, "info")
      /\ \E i \in DOMAIN kids[Methods] :
             /\ kids[Methods][i] = old
             /\ \A j \in DOMAIN kids[Methods] : kids[Methods][j] = old => j = i
  BY RegisteredAre
<1>3. PICK h \in 1..2 : old = Part(name, h, "info")
  BY <1>2
<1>4. SetValue(name, info) = (<< <<"replace", info, old>> >> \o Inc(info)) \o Dec(old)
  BY DEF SetValue
<1>5. info \in Values /\ old \in Values /\ Methods \in Values /\ Methods \in K
      /\ old # Methods /\ info # Methods
  <2>1. h \in Nat /\ g \in Nat
    OBVIOUS
  <2>2. info \in Values /\ old \in Values /\ old[3] = "info" /\ info[3] = "info"
    BY <1>3, <2>1, PartValues, PartIs DEF Parts
  <2>3. QED
    BY <2>2, MethodsValue
<1>6. Fits(info, Methods)
  BY PartIs, MethodsValue DEF Fits
<1>7. Has(s, name)
  <2>1. PICK i \in 1..MemberCount : KeyAt(i)[1] = name
    BY DEF Registered
  <2>2. PICK other \in Names : KeyAt(i) = KeyFor(other)
    BY <2>1, RegisteredAre
  <2>3. other = name
    BY <2>1, <2>2, PartIs DEF KeyFor
  <2>4. QED
    BY <1>1, <2>2, <2>3 DEF Has, MemberCount, KeyAt
<1>8. /\ s \in Seq(Values) /\ Members(s, n)
  <2>1. kids[Methods] \in Seq(Values)
    BY RestMembers
  <2>2. Members(kids[Methods], n)
    BY DEF Rest
  <2>3. QED
    BY <1>1, <2>1, <2>2
<1>9. \E i \in DOMAIN s :
          /\ s[i] = old
          /\ \A j \in DOMAIN s : s[j] = old => j = i
  BY <1>1, <1>2
<1> HIDE DEF info, old, K
<1>10. PICK A \in Heaps : /\ Run(K, << <<"replace", info, old>> >>, S, A)
                          /\ Replacing(S, A, info, old)
  <2>1. old \notin K /\ S.own[info] >= 1 /\ S.own[old] >= 0 /\ info # old
    BY <1>1, <1>5 DEF K
  <2>2. QED
    BY <1>5, <1>6, <1>9, <2>1, ReplaceRuns
<1> HIDE DEF s
<1>11. /\ A.own[info] = 0 /\ A.own[old] = 1
       /\ A.items[Methods] = Swapped(s, old, info)
  BY <1>1, <1>10 DEF Replacing, s
<1>12. Held(K, A, info)
  <2>1. PICK i \in DOMAIN s : s[i] = old
    BY <1>9
  <2>2. i \in DOMAIN A.items[Methods] /\ A.items[Methods][i] = info
    BY <1>11, <2>1 DEF Swapped
  <2>3. QED
    BY <1>5, <2>2, MethodsValue DEF Held
<1>13. PICK B \in Heaps : /\ Run(K, Inc(info), A, B)
                          /\ Same(A, B, {info}) /\ B.own[info] = A.own[info] + 1
                          /\ B.items = A.items
  <2>1. A.own[info] >= 1 \/ (A.own[info] = 0 /\ Held(K, A, info))
    BY <1>11, <1>12
  <2>2. A \in Heaps /\ info \in Values
    BY <1>5
  <2>3. QED
    BY ONLY <2>1, <2>2, IncRuns
<1>14. B.own[old] = 1 /\ B.own[info] = 1
  BY <1>1, <1>5, <1>11, <1>13 DEF Same
<1>15. PICK E \in Heaps : /\ Run(K, Dec(old), B, E)
                          /\ Same(B, E, {old}) /\ E.own[old] = B.own[old] - 1
                          /\ E.items = B.items
  <2>1. B.own[old] >= 1 /\ B \in Heaps /\ old \in Values
    BY <1>5, <1>14
  <2>2. QED
    BY ONLY <2>1, DecRuns
<1>16. Run(K, SetValue(name, info), S, E)
  <2>1. Run(K, << <<"replace", info, old>> >> \o Inc(info), S, B)
    BY <1>10, <1>13, RunCat
  <2>2. QED
    BY <1>4, <1>15, <2>1, RunCat
<1>17. \A u \in Values : E.own[u] = S.own[u]
  <2>1. E.own[old] = 0
    BY <1>14, <1>15
  <2>2. E.own[info] = 1
    BY <1>1, <1>5, <1>14, <1>15 DEF Same
  <2>3. \A u \in Values : u # info /\ u # old => E.own[u] = S.own[u]
    BY <1>10, <1>13, <1>15 DEF Same, Replacing
  <2>4. QED
    BY <1>1, <2>1, <2>2, <2>3
<1>18. /\ E.items[Methods] = Swapped(s, old, info)
       /\ \A u \in Values : u # Methods => E.items[u] = S.items[u]
       /\ E.stale = S.stale
  BY <1>10, <1>11, <1>13, <1>15 DEF Same, Replacing
<1>19. Members(E.items[Methods], n) /\ Has(E.items[Methods], name)
  BY <1>3, <1>7, <1>8, <1>18, MembersReplaced DEF info
<1>20. Valued(S, E, name, n)
  <2>1. KeyFor(name) \in Values
    BY PartValues DEF KeyFor, Parts
  <2>2. QED
    BY <1>17, <1>18, <1>19, <2>1 DEF Valued
<1>21. QED
  BY <1>16, <1>20 DEF K, info

LEMMA SetNewRuns ==
    ASSUME NEW n, Rest(refs, kids, roots, n), Methods \in DOMAIN refs,
           NEW S \in Heaps, NEW name \in Names, NEW g \in 1..2,
           MayValue(S, name, Part(name, g, "info")), ~Registered(name)
    PROVE  \E E \in Heaps :
               /\ Run({Methods}, SetValue(name, Part(name, g, "info")), S, E)
               /\ Valued(S, E, name, n)
<1> DEFINE K == {Methods}
           info == Part(name, g, "info")
           key == KeyFor(name)
           s == S.items[Methods]
<1>1. /\ S.items[Methods] = kids[Methods] /\ S.own[info] = 1
      /\ S.own[key] = -1
  BY DEF MayValue
<1>2. SetValue(name, info) = (((New(key) \o << <<"member", key, info>> >>)
                               \o Inc(key)) \o Inc(info)) \o Dec(key)
  BY DEF SetValue, KeyFor
<1>3. /\ info \in Values /\ key \in Values /\ Methods \in Values /\ Methods \in K
      /\ key # Methods /\ info # Methods /\ key # info
  <2>1. 1 \in Nat /\ g \in Nat
    OBVIOUS
  <2>2. info \in Values /\ key \in Values /\ key[3] = "key" /\ info[3] = "info"
    BY <2>1, PartValues, PartIs DEF Parts, KeyFor
  <2>3. QED
    BY <2>2, MethodsValue
<1>4. Fits(info, Methods) /\ Fits(key, Methods)
  BY PartIs, MethodsValue DEF Fits, KeyFor
<1>5. /\ s \in Seq(Values) /\ Members(s, n)
  BY <1>1, RestMembers DEF Rest
<1>6. \A i \in DOMAIN s : s[i] # key
  <2>1. \A i \in DOMAIN kids[Methods] : kids[Methods][i] \in DOMAIN refs
    BY RestMembers
  <2>2. key \notin DOMAIN refs
    BY RegisteredAre
  <2>3. QED
    BY <1>1, <2>1, <2>2
<1>7. Members(s \o <<key, info>>, n) /\ Has(s \o <<key, info>>, name)
  BY <1>5, <1>6, MembersAppended
<1> HIDE DEF info, key, K, s
<1>8. PICK A \in Heaps : /\ Run(K, New(key), S, A)
                         /\ Same(S, A, {key}) /\ A.own[key] = 1
                         /\ A.items[key] = <<>>
  BY <1>1, <1>3, NewRuns
<1>9. A.own[info] = 1 /\ A.items[Methods] = s
  BY <1>1, <1>3, <1>8 DEF Same, s
<1>10. PICK B \in Heaps : /\ Run(K, << <<"member", key, info>> >>, A, B)
                          /\ Joining(A, B, key, info)
  <2>1. A.own[key] >= 1 /\ A.own[info] >= 1
    BY <1>8, <1>9
  <2>2. QED
    BY <1>3, <1>4, <2>1, MemberRuns
<1>11. B.own[key] = 0 /\ B.own[info] = 0 /\ B.items[Methods] = s \o <<key, info>>
  BY <1>8, <1>9, <1>10 DEF Joining
<1>12. \A M : M.items = B.items => Held(K, M, key) /\ Held(K, M, info)
  <2>1. \E i \in DOMAIN (s \o <<key, info>>) : (s \o <<key, info>>)[i] = key
    <3>1. Len(s) + 1 \in DOMAIN (s \o <<key, info>>)
          /\ (s \o <<key, info>>)[Len(s) + 1] = key
      BY <1>3, <1>5
    <3>2. QED
      BY <3>1
  <2>2. \E i \in DOMAIN (s \o <<key, info>>) : (s \o <<key, info>>)[i] = info
    <3>1. Len(s) + 2 \in DOMAIN (s \o <<key, info>>)
          /\ (s \o <<key, info>>)[Len(s) + 2] = info
      BY <1>3, <1>5
    <3>2. QED
      BY <3>1
  <2>3. QED
    BY <1>3, <1>11, <2>1, <2>2, MethodsValue DEF Held
<1>13. PICK C \in Heaps : /\ Run(K, Inc(key), B, C)
                          /\ Same(B, C, {key}) /\ C.own[key] = B.own[key] + 1
                          /\ C.items = B.items
  <2>1. B.own[key] >= 1 \/ (B.own[key] = 0 /\ Held(K, B, key))
    BY <1>11, <1>12
  <2>2. B \in Heaps /\ key \in Values
    BY <1>3
  <2>3. QED
    BY ONLY <2>1, <2>2, IncRuns
<1>14. C.own[key] = 1 /\ C.own[info] = 0
  BY <1>3, <1>11, <1>13 DEF Same
<1>15. PICK D \in Heaps : /\ Run(K, Inc(info), C, D)
                          /\ Same(C, D, {info}) /\ D.own[info] = C.own[info] + 1
                          /\ D.items = C.items
  <2>1. C.own[info] >= 1 \/ (C.own[info] = 0 /\ Held(K, C, info))
    BY <1>12, <1>13, <1>14
  <2>2. C \in Heaps /\ info \in Values
    BY <1>3
  <2>3. QED
    BY ONLY <2>1, <2>2, IncRuns
<1>16. D.own[key] = 1 /\ D.own[info] = 1
  BY <1>3, <1>14, <1>15 DEF Same
<1>17. PICK E \in Heaps : /\ Run(K, Dec(key), D, E)
                          /\ Same(D, E, {key}) /\ E.own[key] = D.own[key] - 1
                          /\ E.items = D.items
  <2>1. D.own[key] >= 1 /\ D \in Heaps /\ key \in Values
    BY <1>3, <1>16
  <2>2. QED
    BY ONLY <2>1, DecRuns
<1>18. Run(K, SetValue(name, info), S, E)
  <2>1. Run(K, New(key) \o << <<"member", key, info>> >>, S, B)
    BY <1>8, <1>10, RunCat
  <2>2. Run(K, (New(key) \o << <<"member", key, info>> >>) \o Inc(key), S, C)
    BY <1>13, <2>1, RunCat
  <2>3. Run(K, ((New(key) \o << <<"member", key, info>> >>) \o Inc(key))
               \o Inc(info), S, D)
    BY <1>15, <2>2, RunCat
  <2>4. QED
    BY <1>2, <1>17, <2>3, RunCat
<1>19. /\ E.own[key] = 0
       /\ \A u \in Values : u # key => E.own[u] = S.own[u]
  <2>1. E.own[key] = 0
    BY <1>16, <1>17
  <2>2. E.own[info] = 1
    BY <1>3, <1>16, <1>17 DEF Same
  <2>3. \A u \in Values : u # info /\ u # key => E.own[u] = S.own[u]
    BY <1>8, <1>10, <1>13, <1>15, <1>17 DEF Same, Joining
  <2>4. QED
    BY <1>1, <2>1, <2>2, <2>3
<1>20. /\ E.items[Methods] = s \o <<key, info>>
       /\ \A u \in Values : u # Methods /\ u # key => E.items[u] = S.items[u]
       /\ E.stale = S.stale
  <2>1. E.items = B.items /\ E.stale = B.stale
    BY ONLY <1>13, <1>15, <1>17 DEF Same
  <2>2. /\ A.stale = S.stale
        /\ \A u \in Values : u # key => A.items[u] = S.items[u]
    BY ONLY <1>8 DEF Same
  <2>3. /\ B.stale = A.stale
        /\ \A u \in Values : u # Methods => B.items[u] = A.items[u]
    BY ONLY <1>10 DEF Joining
  <2>4. ASSUME NEW u \in Values, u # Methods, u # key PROVE E.items[u] = S.items[u]
    BY ONLY <2>1, <2>2, <2>3, <2>4
  <2>5. QED
    BY ONLY <1>11, <2>1, <2>2, <2>3, <2>4
<1>21. Valued(S, E, name, n)
  BY <1>7, <1>19, <1>20 DEF Valued, key
<1>22. QED
  BY <1>18, <1>21 DEF K, info
-----------------------------------------------------------------------------
(* xmlrpc_buildSignatureArray.                                             *)

SigParts == {"signatures", "signature"}

Signed(S, E, name, g) ==
    /\ E.stale = S.stale
    /\ \A u \in Values : u[3] \notin SigParts =>
           E.own[u] = S.own[u] /\ E.items[u] = S.items[u]
    /\ \A u \in Values : u[3] \in SigParts /\ u # Part(name, g, "signatures") =>
           E.own[u] \in {0, -1}

(* The list after its first i signatures.                                  *)
Building(S, name, g, i) ==
    {E \in Heaps : /\ Signed(S, E, name, g)
                   /\ E.own[Part(name, g, "signatures")] = 1
                   /\ \A j \in Nat : j > i =>
                          E.own[Part(name, g + 2 * j, "signature")] = -1}

LEMMA SignatureValues ==
    ASSUME NEW name \in Names, NEW g \in 1..2
    PROVE  /\ Part(name, g, "signatures") \in Values
           /\ \A i \in Nat :
                  /\ Part(name, g + 2 * i, "signature") \in Values
                  /\ Part(name, g + 2 * i, "signature") # Part(name, g, "signatures")
                  /\ Fits(Part(name, g + 2 * i, "signature"), Part(name, g, "signatures"))
           /\ \A i, j \in Nat : i # j => Part(name, g + 2 * i, "signature")
                                             # Part(name, g + 2 * j, "signature")
<1>1. g \in Nat /\ Part(name, g, "signatures") \in Values
  BY PartValues DEF Parts
<1>2. ASSUME NEW i \in Nat
      PROVE  /\ Part(name, g + 2 * i, "signature") \in Values
             /\ Part(name, g + 2 * i, "signature") # Part(name, g, "signatures")
             /\ Fits(Part(name, g + 2 * i, "signature"), Part(name, g, "signatures"))
  <2>1. g + 2 * i \in Nat
    OBVIOUS
  <2>2. Part(name, g + 2 * i, "signature") \in Values
    BY <2>1, PartValues DEF Parts
  <2>3. QED
    BY <2>2, PartIs DEF Fits
<1>3. ASSUME NEW i \in Nat, NEW j \in Nat, i # j
      PROVE  Part(name, g + 2 * i, "signature") # Part(name, g + 2 * j, "signature")
  <2>1. g + 2 * i # g + 2 * j
    BY <1>3
  <2>2. QED
    BY <2>1, PartIs
<1>4. QED
  BY <1>1, <1>2, <1>3

(* A good signature is moved into the list.                                *)
LEMMA SignatureRuns ==
    ASSUME NEW K, NEW S, NEW name \in Names, NEW g \in 1..2, NEW i \in Nat,
           i >= 1, NEW M \in Building(S, name, g, i - 1)
    PROVE  LET list == Part(name, g, "signatures")
               one == Part(name, g + 2 * i, "signature")
           IN  \E E \in Building(S, name, g, i) :
                   Run(K, New(one) \o MoveInto(list, one), M, E)
<1> DEFINE list == Part(name, g, "signatures")
           one == Part(name, g + 2 * i, "signature")
<1>1. /\ list \in Values /\ one \in Values /\ one # list /\ Fits(one, list)
  BY SignatureValues
<1>2. list[3] = "signatures" /\ one[3] = "signature"
  BY PartIs
<1>3. M \in Heaps /\ Signed(S, M, name, g) /\ M.own[list] = 1 /\ M.own[one] = -1
  BY DEF Building
<1>4. \A j \in Nat : j > i => /\ M.own[Part(name, g + 2 * j, "signature")] = -1
                              /\ Part(name, g + 2 * j, "signature") \in Values
                              /\ Part(name, g + 2 * j, "signature") # one
                              /\ Part(name, g + 2 * j, "signature") # list
  <2> SUFFICES ASSUME NEW j \in Nat, j > i
               PROVE  /\ M.own[Part(name, g + 2 * j, "signature")] = -1
                      /\ Part(name, g + 2 * j, "signature") \in Values
                      /\ Part(name, g + 2 * j, "signature") # one
                      /\ Part(name, g + 2 * j, "signature") # list
    OBVIOUS
  <2>1. j > i - 1 /\ j # i
    OBVIOUS
  <2>2. M.own[Part(name, g + 2 * j, "signature")] = -1
    BY <2>1 DEF Building
  <2>3. QED
    BY <2>1, <2>2, SignatureValues
<1> HIDE DEF one
<1>5. PICK E \in Heaps : Run(K, New(one) \o MoveInto(list, one), M, E)
                         /\ Added(M, E, list, one)
  <2>1. M.own[list] >= 1
    BY <1>3
  <2> HIDE DEF list
  <2>2. QED
    BY <1>1, <1>3, <2>1, ItemRuns
<1>6. E.own[one] = 0 /\ E.own[list] = 1
  BY <1>3, <1>5 DEF Added
<1>7. /\ E.stale = M.stale
      /\ \A u \in Values : u # one /\ u # list =>
             E.own[u] = M.own[u] /\ E.items[u] = M.items[u]
  BY <1>5 DEF Added, Same
<1> HIDE DEF list
<1>8. \A u \in Values : u[3] \notin SigParts => u # one /\ u # list
  BY <1>2 DEF SigParts
<1>9. /\ E.stale = S.stale
      /\ \A u \in Values : u[3] \notin SigParts =>
             E.own[u] = S.own[u] /\ E.items[u] = S.items[u]
      /\ \A u \in Values : u[3] \in SigParts /\ u # list => E.own[u] \in {0, -1}
  BY <1>3, <1>6, <1>7, <1>8 DEF Signed, list
<1>10. Signed(S, E, name, g)
  BY <1>9 DEF Signed, list
<1>11. \A j \in Nat : j > i => E.own[Part(name, g + 2 * j, "signature")] = -1
  BY <1>4, <1>7
<1>12. E \in Building(S, name, g, i)
  BY <1>6, <1>10, <1>11 DEF Building, list
<1>13. QED
  BY <1>5, <1>12 DEF one, list

(* One that cannot be interpreted is dropped.                              *)
LEMMA BadSignatureRuns ==
    ASSUME NEW K, NEW S, NEW name \in Names, NEW g \in 1..2, NEW i \in Nat,
           i >= 1, NEW M \in Building(S, name, g, i - 1)
    PROVE  LET one == Part(name, g + 2 * i, "signature")
           IN  \E E \in Building(S, name, g, i) :
                   Run(K, New(one) \o Dec(one), M, E)
<1> DEFINE list == Part(name, g, "signatures")
           one == Part(name, g + 2 * i, "signature")
<1>1. /\ list \in Values /\ one \in Values /\ one # list
  BY SignatureValues
<1>2. list[3] = "signatures" /\ one[3] = "signature"
  BY PartIs
<1>3. M \in Heaps /\ Signed(S, M, name, g) /\ M.own[list] = 1 /\ M.own[one] = -1
  BY DEF Building
<1>4. \A j \in Nat : j > i => /\ M.own[Part(name, g + 2 * j, "signature")] = -1
                              /\ Part(name, g + 2 * j, "signature") \in Values
                              /\ Part(name, g + 2 * j, "signature") # one
  <2> SUFFICES ASSUME NEW j \in Nat, j > i
               PROVE  /\ M.own[Part(name, g + 2 * j, "signature")] = -1
                      /\ Part(name, g + 2 * j, "signature") \in Values
                      /\ Part(name, g + 2 * j, "signature") # one
    OBVIOUS
  <2>1. j > i - 1 /\ j # i
    OBVIOUS
  <2>2. M.own[Part(name, g + 2 * j, "signature")] = -1
    BY <2>1 DEF Building
  <2>3. QED
    BY <2>1, <2>2, SignatureValues
<1> HIDE DEF one, list
<1>5. PICK A \in Heaps : /\ Run(K, New(one), M, A)
                         /\ Same(M, A, {one}) /\ A.own[one] = 1
                         /\ A.items[one] = <<>>
  BY <1>1, <1>3, NewRuns
<1>6. PICK E \in Heaps : /\ Run(K, Dec(one), A, E)
                         /\ Same(A, E, {one}) /\ E.own[one] = A.own[one] - 1
                         /\ E.items = A.items
  <2>1. A.own[one] >= 1 /\ A \in Heaps /\ one \in Values
    BY <1>1, <1>5
  <2>2. QED
    BY ONLY <2>1, DecRuns
<1>7. Run(K, New(one) \o Dec(one), M, E)
  BY <1>5, <1>6, RunCat
<1>8. E.own[one] = 0
  BY <1>5, <1>6
<1>9. /\ E.stale = M.stale
      /\ \A u \in Values : u # one =>
             E.own[u] = M.own[u] /\ E.items[u] = M.items[u]
  BY <1>5, <1>6 DEF Same
<1>10. \A u \in Values : u[3] \notin SigParts => u # one
  BY <1>2 DEF SigParts
<1>11. Signed(S, E, name, g)
  BY <1>3, <1>8, <1>9, <1>10 DEF Signed
<1>12. \A j \in Nat : j > i => E.own[Part(name, g + 2 * j, "signature")] = -1
  BY <1>4, <1>9
<1>13. E.own[list] = 1
  BY <1>1, <1>3, <1>9
<1>14. E \in Building(S, name, g, i)
  BY <1>11, <1>12, <1>13 DEF Building, list
<1>15. QED
  BY <1>7, <1>14 DEF one

LEMMA SignaturesRuns ==
    ASSUME NEW K, NEW S \in Heaps, NEW name \in Names, NEW g \in 1..2,
           NEW signature \in [count : Nat, bad : BOOLEAN],
           S.own[Part(name, g, "signatures")] = -1,
           \A i \in Nat : S.own[Part(name, g + 2 * i, "signature")] = -1,
           \A u \in Values : S.own[u] \in {0, -1}
    PROVE  \E E \in Heaps :
               /\ Run(K, BuildSignatures(name, g, signature), S, E)
               /\ Signed(S, E, name, g)
               /\ E.own[Part(name, g, "signatures")] =
                      IF signature.bad THEN 0 ELSE 1
<1> DEFINE list == Part(name, g, "signatures")
           one(i) == Part(name, g + 2 * i, "signature")
           One(i) == New(one(i)) \o IF signature.bad /\ i = signature.count
                                    THEN Dec(one(i)) ELSE MoveInto(list, one(i))
           count == signature.count
           ss == [i \in 1..count |-> One(i)]
           P == [i \in 0..count |-> Building(S, name, g, i)]
           last == IF signature.bad THEN Dec(list) ELSE <<>>
<1>1. count \in Nat /\ signature.bad \in BOOLEAN
  OBVIOUS
<1>2. BuildSignatures(name, g, signature) = (New(list) \o FlattenSeq(ss)) \o last
  BY DEF BuildSignatures
<1>3. list \in Values /\ list[3] = "signatures"
  BY SignatureValues, PartIs
<1>4. \A i \in Nat : one(i) \in Values /\ one(i) # list
  BY SignatureValues
<1>5. \A v \in Values : New(v) \in Seq(Steps) /\ Dec(v) \in Seq(Steps)
  <2> SUFFICES ASSUME NEW v \in Values
               PROVE  New(v) \in Seq(Steps) /\ Dec(v) \in Seq(Steps)
    OBVIOUS
  <2>1. <<"new", v>> \in Steps /\ <<"dec", v>> \in Steps
    BY StepKinds
  <2>2. QED
    BY <2>1 DEF New, Dec
<1>6. \A v, a \in Values : MoveInto(a, v) \in Seq(Steps)
  <2> SUFFICES ASSUME NEW v \in Values, NEW a \in Values
               PROVE  MoveInto(a, v) \in Seq(Steps)
    OBVIOUS
  <2>1. <<"inc", v>> \in Steps /\ <<"link", v, a>> \in Steps /\ <<"dec", v>> \in Steps
    BY StepKinds
  <2>2. Inc(v) \in Seq(Steps) /\ << <<"link", v, a>> >> \in Seq(Steps)
        /\ Dec(v) \in Seq(Steps)
    BY <2>1 DEF Inc, Dec
  <2>3. QED
    BY <2>2 DEF MoveInto, AppendItem
<1>7. ss \in Seq(Seq(Steps)) /\ Len(ss) = count /\ \A i \in 1..count : ss[i] = One(i)
  <2>1. \A i \in 1..count : One(i) \in Seq(Steps)
    <3> SUFFICES ASSUME NEW i \in 1..count PROVE One(i) \in Seq(Steps)
      OBVIOUS
    <3>1. one(i) \in Values
      BY <1>4
    <3> HIDE DEF one, list
    <3>2. /\ New(one(i)) \in Seq(Steps) /\ Dec(one(i)) \in Seq(Steps)
          /\ MoveInto(list, one(i)) \in Seq(Steps)
      BY <1>3, <1>5, <1>6, <3>1
    <3>3. QED
      BY <3>2
  <2> HIDE DEF One
  <2>2. QED
    BY <1>1, <2>1
<1>8. \A i \in 1..count : \A M \in P[i - 1] : \E E \in P[i] : Run(K, ss[i], M, E)
  <2> SUFFICES ASSUME NEW i \in 1..count, NEW M \in P[i - 1]
               PROVE  \E E \in P[i] : Run(K, ss[i], M, E)
    OBVIOUS
  <2>1. /\ i \in Nat /\ i >= 1 /\ M \in Building(S, name, g, i - 1)
        /\ P[i] = Building(S, name, g, i)
    BY <1>1
  <2>2. CASE signature.bad /\ i = count
    <3>1. ss[i] = New(one(i)) \o Dec(one(i))
      BY <1>7, <2>2
    <3>2. \E E \in Building(S, name, g, i) : Run(K, New(one(i)) \o Dec(one(i)), M, E)
      BY <2>1, BadSignatureRuns
    <3>3. QED
      BY <2>1, <3>1, <3>2
  <2>3. CASE ~(signature.bad /\ i = count)
    <3>1. ss[i] = New(one(i)) \o MoveInto(list, one(i))
      BY <1>7, <2>3
    <3>2. \E E \in Building(S, name, g, i) :
              Run(K, New(one(i)) \o MoveInto(list, one(i)), M, E)
      BY <2>1, SignatureRuns
    <3>3. QED
      BY <2>1, <3>1, <3>2
  <2>4. QED
    BY <2>2, <2>3
<1> HIDE DEF ss, one, One
<1>9. PICK A \in Heaps : /\ Run(K, New(list), S, A)
                         /\ Same(S, A, {list}) /\ A.own[list] = 1
                         /\ A.items[list] = <<>>
  <2>1. S.own[list] = -1 /\ S \in Heaps /\ list \in Values
    BY <1>3
  <2> HIDE DEF list
  <2>2. QED
    BY ONLY <2>1, NewRuns
<1>10. A \in P[0]
  <2>1. Signed(S, A, name, g)
    BY <1>3, <1>9 DEF Signed, Same, SigParts
  <2>2. \A j \in Nat : A.own[Part(name, g + 2 * j, "signature")] = -1
    <3>1. \A j \in Nat : /\ Part(name, g + 2 * j, "signature") \in Values
                         /\ Part(name, g + 2 * j, "signature") # list
      BY SignatureValues
    <3>2. QED
      BY <1>9, <3>1 DEF Same
  <2>3. P[0] = Building(S, name, g, 0)
    BY <1>1
  <2>4. QED
    BY <1>9, <2>1, <2>2, <2>3 DEF Building
<1>11. PICK B \in P[count] : Run(K, FlattenSeq(ss), A, B)
  <2>1. P[0] \subseteq Heaps
    BY <1>1 DEF Building
  <2> HIDE DEF P
  <2>2. QED
    BY <1>7, <1>8, <1>10, <2>1, RunFlatten
<1>12. B \in Heaps /\ Signed(S, B, name, g) /\ B.own[list] = 1
  BY <1>1, <1>11 DEF Building
<1> HIDE DEF P
<1>13. Run(K, New(list) \o FlattenSeq(ss), S, B)
  BY <1>9, <1>11, RunCat
<1>14. CASE ~signature.bad
  <2>1. Run(K, <<>>, B, B)
    BY <1>12, RunNil
  <2>2. Run(K, BuildSignatures(name, g, signature), S, B)
    BY <1>2, <1>13, <1>14, <2>1, RunCat
  <2>3. QED
    BY <1>12, <1>14, <2>2
<1>15. CASE signature.bad
  <2> HIDE DEF list
  <2>1. PICK E \in Heaps : /\ Run(K, Dec(list), B, E)
                           /\ Same(B, E, {list}) /\ E.own[list] = B.own[list] - 1
                           /\ E.items = B.items
    <3>1. B.own[list] >= 1 /\ B \in Heaps /\ list \in Values
      BY <1>3, <1>12
    <3>2. QED
      BY ONLY <3>1, DecRuns
  <2>2. Run(K, BuildSignatures(name, g, signature), S, E)
    BY <1>2, <1>13, <1>15, <2>1, RunCat
  <2>3. E.own[list] = 0
    BY <1>12, <2>1
  <2>4. Signed(S, E, name, g)
    BY <1>3, <1>12, <2>1 DEF Signed, Same, SigParts, list
  <2>5. QED
    BY <1>15, <2>2, <2>3, <2>4 DEF list
<1>16. QED
  BY <1>14, <1>15
-----------------------------------------------------------------------------
(* xmlrpc_registry_add_method_w_doc.                                       *)

LEMMA RestShaped ==
    ASSUME NEW rf, NEW k, NEW r, NEW n, Rest(rf, k, r, n)
    PROVE  LET S == Start(rf, k, r, {})
           IN  /\ S \in Heaps /\ S.stale = {}
               /\ \A u \in Values : S.own[u] \in {0, -1}
               /\ \A u \in Values : u \notin DOMAIN rf => S.own[u] = -1
               /\ \A u \in DOMAIN rf : S.own[u] = 0 /\ S.items[u] = k[u]
               /\ \A u \in Values : S.own[u] = 0 => Shaped(u, S.items[u])
<1> DEFINE S == Start(rf, k, r, {})
<1>1. /\ S \in Heaps /\ S.stale = {}
      /\ \A v \in Values :
             /\ v \notin DOMAIN rf => S.own[v] = -1
             /\ v \in DOMAIN rf =>
                    /\ S.items[v] = k[v]
                    /\ S.own[v] = IF \E which \in {} : r[which] = v
                                  THEN 1 ELSE 0
  BY StartFields
<1>2. DOMAIN rf \subseteq Values
  BY DEF Rest, Sound
<1> HIDE DEF S
<1>3. \A u \in DOMAIN rf : S.own[u] = 0 /\ S.items[u] = k[u]
  BY <1>1, <1>2
<1>4. \A u \in Values : S.own[u] = 0 => u \in DOMAIN rf
  BY <1>1
<1>5. \A u \in Values : S.own[u] = 0 => Shaped(u, S.items[u])
  BY <1>3, <1>4 DEF Rest
<1>6. \A u \in Values : S.own[u] \in {0, -1}
  BY <1>1, <1>3
<1>7. QED
  BY <1>1, <1>3, <1>5, <1>6 DEF S

LEMMA AddMethodRuns ==
    ASSUME NEW n, Rest(refs, kids, roots, n), Methods \in DOMAIN refs,
           NEW name \in Names, NEW signature \in [count : Nat, bad : BOOLEAN]
    PROVE  \E E \in Heaps :
               /\ Run({Methods}, AddMethodSteps(name, signature),
                      Start(refs, kids, roots, {}), E)
               /\ Settled(E, n)
               /\ ~signature.bad => Has(E.items[Methods], name)
<1> DEFINE K == {Methods}
           S == Start(refs, kids, roots, {})
           g == Unused(name, 1)
           info == Part(name, g, "info")
           fun == Part(name, g, "function")
           data == Part(name, g, "data")
           list == Part(name, g, "signatures")
           help == Part(name, g, "help")
           key == KeyFor(name)
<1>1. /\ S \in Heaps /\ S.stale = {}
      /\ \A u \in Values : S.own[u] \in {0, -1}
      /\ \A u \in Values : u \notin DOMAIN refs => S.own[u] = -1
      /\ \A u \in DOMAIN refs : S.own[u] = 0 /\ S.items[u] = kids[u]
      /\ \A u \in Values : S.own[u] = 0 => Shaped(u, S.items[u])
  BY RestShaped
<1>2. /\ g \in 1..2
      /\ \A part \in {"info", "function", "data", "signatures", "help"} :
             Part(name, g, part) \notin DOMAIN refs
      /\ \A i \in Nat : Part(name, g + 2 * i, "signature") \notin DOMAIN refs
  BY FreshMethod
<1>3. AddMethodSteps(name, signature) =
          BuildSignatures(name, g, signature)
          \o IF signature.bad THEN <<>>
             ELSE ((BuildInfo(name, g) \o SetValue(name, info)) \o Dec(info))
                  \o Dec(list)
  BY DEF AddMethodSteps
<1>4. signature.bad \in BOOLEAN
  OBVIOUS
<1> HIDE DEF S, g
<1>5. g \in Nat /\ \A part \in Parts : Part(name, g, part) \in Values
  <2>1. g \in Nat
    BY <1>2
  <2>2. QED
    BY <2>1, PartValues
<1>6. /\ info[3] = "info" /\ fun[3] = "function" /\ data[3] = "data"
      /\ list[3] = "signatures" /\ help[3] = "help" /\ key[3] = "key"
  BY PartIs DEF KeyFor
<1>7. /\ info \in Values /\ fun \in Values /\ data \in Values
      /\ list \in Values /\ help \in Values /\ key \in Values /\ Methods \in Values
  BY <1>5, PartValues, MethodsValue DEF Parts, KeyFor
<1>8. /\ S.own[info] = -1 /\ S.own[fun] = -1 /\ S.own[data] = -1
      /\ S.own[list] = -1 /\ S.own[help] = -1
      /\ \A i \in Nat : S.own[Part(name, g + 2 * i, "signature")] = -1
  <2>1. \A i \in Nat : Part(name, g + 2 * i, "signature") \in Values
    BY <1>2, SignatureValues
  <2>2. QED
    BY <1>1, <1>2, <1>7, <2>1
<1>9. PICK A \in Heaps :
          /\ Run(K, BuildSignatures(name, g, signature), S, A)
          /\ Signed(S, A, name, g)
          /\ A.own[Part(name, g, "signatures")] = IF signature.bad THEN 0 ELSE 1
  <2>1. /\ S.own[Part(name, g, "signatures")] = -1
        /\ \A i \in Nat : S.own[Part(name, g + 2 * i, "signature")] = -1
        /\ \A u \in Values : S.own[u] \in {0, -1}
    BY <1>1, <1>8
  <2>2. /\ S \in Heaps /\ name \in Names /\ g \in 1..2
        /\ signature \in [count : Nat, bad : BOOLEAN]
    BY <1>1, <1>2
  <2>3. QED
    BY ONLY <2>1, <2>2, SignaturesRuns
<1>10. A.stale = {} /\ A.own[list] = IF signature.bad THEN 0 ELSE 1
  BY <1>1, <1>9 DEF Signed
<1>11. /\ \A u \in Values : u[3] \notin SigParts =>
              A.own[u] = S.own[u] /\ A.items[u] = S.items[u]
       /\ \A u \in Values : u # list => A.own[u] \in {0, -1}
       /\ \A u \in Values : u # list /\ A.own[u] = 0 => Shaped(u, A.items[u])
  <2>1. \A u \in Values : u[3] \in SigParts => Shaped(u, A.items[u])
    BY DEF SigParts, Shaped
  <2>2. QED
    BY <1>1, <1>9, <2>1 DEF Signed
<1>12. Methods \notin {info, fun, data, list, help, key} /\ Methods[3] \notin SigParts
  BY <1>6, MethodsValue DEF SigParts
<1>13. A.own[Methods] = 0 /\ A.items[Methods] = kids[Methods]
  BY <1>1, <1>7, <1>11, <1>12
<1>14. Members(kids[Methods], n)
  BY DEF Rest
<1> HIDE DEF info, fun, data, list, help, key, K
<1>15. CASE signature.bad
  <2>1. Run(K, <<>>, A, A)
    BY RunNil
  <2>2. Run(K, BuildSignatures(name, g, signature) \o <<>>, S, A)
    BY <1>9, <2>1, RunCat
  <2>3. Run(K, AddMethodSteps(name, signature), S, A)
    BY <1>3, <1>15, <2>2
  <2>4. Shaped(list, A.items[list])
    BY <1>6 DEF Shaped
  <2>5. Settled(A, n)
    BY <1>10, <1>11, <1>13, <1>14, <1>15, <2>4 DEF Settled
  <2>6. QED
    BY <1>15, <2>3, <2>5 DEF K, S
<1>16. CASE ~signature.bad
  <2>1. /\ A.own[info] = -1 /\ A.own[fun] = -1 /\ A.own[data] = -1
        /\ A.own[help] = -1 /\ A.own[list] = 1
    BY <1>6, <1>7, <1>8, <1>10, <1>11, <1>16 DEF SigParts
  <2>2. PICK B \in Heaps :
            /\ Run(K, BuildInfo(name, g), A, B)
            /\ Same(A, B, {info, fun, data, help})
            /\ B.own[info] = 1 /\ B.own[fun] = 0 /\ B.own[data] = 0
            /\ B.own[help] = 0
            /\ B.items[info] = <<fun, data, list, help>>
    <3>1. /\ \A part \in {"info", "function", "data", "help"} :
                 A.own[Part(name, g, part)] = -1
          /\ A.own[Part(name, g, "signatures")] = 1
      BY <2>1 DEF info, fun, data, list, help
    <3>2. A \in Heaps /\ name \in Names /\ g \in Nat
      BY <1>5
    <3>3. QED
      BY ONLY <3>1, <3>2, InfoRuns DEF info, fun, data, list, help
  <2>3. \A u \in Values : u \notin {info, fun, data, help} =>
            B.own[u] = A.own[u] /\ B.items[u] = A.items[u]
    BY <2>2 DEF Same
  <2>4. B.own[Methods] = 0 /\ B.items[Methods] = kids[Methods] /\ B.own[list] = 1
    BY <1>6, <1>7, <1>12, <1>13, <2>1, <2>3
  <2>5. Registered(name) => B.own[InfoOf(name)] = 0 /\ InfoOf(name) # info
    <3> SUFFICES ASSUME Registered(name)
                 PROVE  B.own[InfoOf(name)] = 0 /\ InfoOf(name) # info
      OBVIOUS
    <3>1. InfoOf(name) \in DOMAIN refs /\ \E h \in 1..2 : InfoOf(name) = Part(name, h, "info")
      BY RegisteredAre
    <3>2. InfoOf(name)[3] = "info"
      BY <3>1, PartIs
    <3>3. InfoOf(name) # info
      BY <1>2, <3>1 DEF info
    <3>4. InfoOf(name) \in Values
      BY <3>1, RestHeld
    <3>5. A.own[InfoOf(name)] = 0
      BY <1>1, <1>11, <3>1, <3>2, <3>4 DEF SigParts
    <3>6. QED
      BY <1>6, <2>3, <3>2, <3>3, <3>4, <3>5
  <2>6. ~Registered(name) => B.own[key] = -1
    <3> SUFFICES ASSUME ~Registered(name) PROVE B.own[key] = -1
      OBVIOUS
    <3>1. key \notin DOMAIN refs
      BY RegisteredAre DEF key
    <3>2. A.own[key] = -1
      BY <1>1, <1>6, <1>7, <1>11, <3>1 DEF SigParts
    <3>3. QED
      BY <1>6, <1>7, <2>3, <3>2
  <2>7. MayValue(B, name, info)
    BY <2>2, <2>4, <2>5, <2>6 DEF MayValue, key
  <2>8. PICK C \in Heaps : Run(K, SetValue(name, info), B, C) /\ Valued(B, C, name, n)
    <3>1. B \in Heaps /\ g \in 1..2
      BY <1>2
    <3>2. CASE Registered(name)
      BY <2>7, <3>1, <3>2, SetRegisteredRuns DEF K, info
    <3>3. CASE ~Registered(name)
      BY <2>7, <3>1, <3>3, SetNewRuns DEF K, info
    <3>4. QED
      BY <3>2, <3>3
  <2>9. /\ C.stale = B.stale
        /\ \A u \in Values : u # key => C.own[u] = B.own[u]
        /\ C.own[key] = B.own[key] \/ C.own[key] = 0
        /\ \A u \in Values : u # Methods /\ u # key => C.items[u] = B.items[u]
        /\ Members(C.items[Methods], n) /\ Has(C.items[Methods], name)
    BY <2>8 DEF Valued, key
  <2>10. info # key /\ list # key /\ info # list /\ Methods # key
    BY <1>6, <1>12
  <2>11. C.own[info] = 1 /\ C.own[list] = 1
    BY <1>7, <2>2, <2>4, <2>9, <2>10
  <2>12. PICK D \in Heaps : /\ Run(K, Dec(info), C, D)
                            /\ Same(C, D, {info}) /\ D.own[info] = C.own[info] - 1
                            /\ D.items = C.items
    <3>1. C.own[info] >= 1 /\ C \in Heaps /\ info \in Values
      BY <1>7, <2>11
    <3>2. QED
      BY ONLY <3>1, DecRuns
  <2>13. D.own[list] = 1 /\ D.own[info] = 0
    BY <1>7, <2>10, <2>11, <2>12 DEF Same
  <2>14. PICK E \in Heaps : /\ Run(K, Dec(list), D, E)
                            /\ Same(D, E, {list}) /\ E.own[list] = D.own[list] - 1
                            /\ E.items = D.items
    <3>1. D.own[list] >= 1 /\ D \in Heaps /\ list \in Values
      BY <1>7, <2>13
    <3>2. QED
      BY ONLY <3>1, DecRuns
  <2>15. E.own[list] = 0 /\ E.own[info] = 0
    BY <1>7, <2>10, <2>13, <2>14 DEF Same
  <2>16. Run(K, AddMethodSteps(name, signature), S, E)
    <3>1. Run(K, BuildInfo(name, g) \o SetValue(name, info), A, C)
      BY <2>2, <2>8, RunCat
    <3>2. Run(K, (BuildInfo(name, g) \o SetValue(name, info)) \o Dec(info), A, D)
      BY <2>12, <3>1, RunCat
    <3>3. Run(K, ((BuildInfo(name, g) \o SetValue(name, info)) \o Dec(info))
                 \o Dec(list), A, E)
      BY <2>14, <3>2, RunCat
    <3>4. QED
      BY <1>3, <1>9, <1>16, <3>3, RunCat
  <2>17. /\ E.stale = {}
         /\ \A u \in Values : u # info /\ u # list => E.own[u] = C.own[u]
         /\ E.items = C.items
    BY <1>10, <2>2, <2>9, <2>12, <2>14 DEF Same
  <2>18. \A u \in Values : E.own[u] \in {0, -1}
    <3> SUFFICES ASSUME NEW u \in Values PROVE E.own[u] \in {0, -1}
      OBVIOUS
    <3>1. CASE u = info \/ u = list
      BY <2>15, <3>1
    <3>2. CASE u = key
      <4>1. B.own[key] = A.own[key]
        BY <1>6, <1>7, <2>3
      <4>2. QED
        BY <1>6, <1>7, <1>11, <2>9, <2>10, <2>17, <3>2, <4>1
    <3>3. CASE u \in {fun, data, help}
      <4>1. u # key /\ u # info /\ u # list
        BY <1>6, <3>3
      <4>2. QED
        BY <2>2, <2>9, <2>17, <3>3, <4>1
    <3>4. CASE u \notin {info, list, key, fun, data, help}
      BY <1>11, <2>3, <2>9, <2>17, <3>4
    <3>5. QED
      BY <3>1, <3>2, <3>3, <3>4
  <2>19. \A u \in Values : E.own[u] = 0 => Shaped(u, E.items[u])
    <3> SUFFICES ASSUME NEW u \in Values, E.own[u] = 0 PROVE Shaped(u, E.items[u])
      OBVIOUS
    <3>1. CASE u = info
      <4>1. E.items[info] = <<fun, data, list, help>>
        BY <1>7, <1>12, <2>2, <2>9, <2>10, <2>17
      <4>2. info[1] = name /\ info[2] = g
        BY PartIs DEF info
      <4>3. QED
        BY <1>2, <3>1, <4>1, <4>2 DEF Shaped, fun, data, list, help
    <3>2. CASE u # info /\ u[3] = "info"
      <4>1. u \notin {fun, data, help, list, key, Methods}
        BY <1>6, <3>2, MethodsValue
      <4>2. A.own[u] = 0 /\ E.items[u] = A.items[u]
        BY <2>3, <2>9, <2>17, <3>2, <4>1
      <4>3. QED
        BY <1>11, <4>1, <4>2
    <3>3. CASE u[3] # "info"
      BY <3>3 DEF Shaped
    <3>4. QED
      BY <3>1, <3>2, <3>3
  <2>20. Settled(E, n)
    BY <2>9, <2>17, <2>18, <2>19 DEF Settled
  <2>21. QED
    BY <2>9, <2>16, <2>17, <2>20 DEF K, S
<1>17. QED
  BY <1>4, <1>15, <1>16
-----------------------------------------------------------------------------
(* The default and preinvoke methods, a new registry and its end.          *)

LEMMA EmptyAtRest ==
    ASSUME NEW rf, NEW k, NEW r, NEW n, Rest(rf, k, r, n),
           \A which \in RootNames : r[which] = NoValue
    PROVE  DOMAIN rf = {}
<1>1. \A v \in DOMAIN rf : v \in Values /\ v[3] \in Parts
  <2> SUFFICES ASSUME NEW v \in DOMAIN rf PROVE v \in Values /\ v[3] \in Parts
    OBVIOUS
  <2>1. v \in Values
    BY RestHeld
  <2>2. QED
    BY <2>1 DEF Values
<1>2. \A v \in DOMAIN rf : v[3] # "methods"
  <2> SUFFICES ASSUME NEW v \in DOMAIN rf, v[3] = "methods" PROVE FALSE
    OBVIOUS
  <2>1. r["methods"] = Methods /\ Methods # NoValue
    BY RestHeld, MethodsValue
  <2>2. QED
    BY <2>1 DEF RootNames
<1>3. Methods \notin DOMAIN rf
  BY <1>2, MethodsValue
<1>4. \A v \in DOMAIN rf : v[3] # "info"
  <2> SUFFICES ASSUME NEW v \in DOMAIN rf, v[3] = "info" PROVE FALSE
    OBVIOUS
  <2>1. v[1] \in RootNames /\ r[v[1]] = v
    BY <1>3, RestHeld
  <2>2. QED
    BY <1>1, <2>1, MethodsValue
<1>5. \A v \in DOMAIN rf : v[3] \notin {"function", "data", "signatures", "help"}
  <2> SUFFICES ASSUME NEW v \in DOMAIN rf,
                      v[3] \in {"function", "data", "signatures", "help"}
               PROVE  FALSE
    OBVIOUS
  <2>1. Part(v[1], v[2], "info") \in DOMAIN rf
    BY RestHeld
  <2>2. QED
    BY <1>4, <2>1, PartIs
<1>6. \A v \in DOMAIN rf : v[3] # "signature"
  <2> SUFFICES ASSUME NEW v \in DOMAIN rf, v[3] = "signature" PROVE FALSE
    OBVIOUS
  <2>1. \E g \in 1..2, i \in Nat :
            v[2] = g + 2 * i /\ Part(v[1], g, "signatures") \in DOMAIN rf
    BY RestHeld
  <2>2. QED
    BY <1>5, <2>1, PartIs
<1>7. \A v \in DOMAIN rf : v[3] \notin {"key", "result", "wrapped", "results"}
  BY <1>3, RestHeld
<1>8. QED
  BY <1>1, <1>2, <1>4, <1>5, <1>6, <1>7 DEF Parts

Rooted(S, E, v, which) ==
    /\ E.stale = S.stale \ {which}
    /\ E.own[v] = S.own[v] - 1
    /\ \A u \in Values : u # v => E.own[u] = S.own[u]
    /\ E.items = S.items

LEMMA RootRuns ==
    ASSUME NEW K, NEW S \in Heaps, NEW v \in Values, NEW which \in RootNames,
           S.own[v] >= 1, FitsRoot(v, which), which \in S.stale
    PROVE  \E E \in Heaps : Run(K, << <<"root", v, which>> >>, S, E)
                            /\ Rooted(S, E, v, which)
<1> DEFINE own == [S.own EXCEPT ![v] = S.own[v] - 1]
           stale == S.stale \ {which}
           E == Heap(own, S.items, stale)
<1>1. /\ S.own \in [Values -> Nat \union {-1}]
      /\ S.items \in [Values -> Seq(Values)] /\ S.stale \in SUBSET RootNames
  BY HeapFields
<1>2. own \in [Values -> Nat \union {-1}]
  <2>1. S.own[v] - 1 \in Nat
    BY <1>1
  <2>2. QED
    BY <1>1, <2>1
<1>3. stale \in SUBSET RootNames
  BY <1>1
<1>4. E \in Heaps
  BY <1>1, <1>2, <1>3, HeapMade
<1>5. Does(K, <<"root", v, which>>, S, E)
  BY DEF Does, DoesRoot
<1>6. Run(K, << <<"root", v, which>> >>, S, E)
  BY <1>4, <1>5, StepKinds, RunOne
<1>7. /\ own[v] = S.own[v] - 1
      /\ \A u \in Values : u # v => own[u] = S.own[u]
  BY <1>1
<1> HIDE DEF own, stale
<1>8. E.own = own /\ E.items = S.items /\ E.stale = stale
  BY HeapParts
<1> HIDE DEF E
<1>9. QED
  BY <1>4, <1>6, <1>7, <1>8 DEF Rooted, stale

(* A pointer of the registry, if any, is dropped.                          *)
Dropped(S, E, v) ==
    /\ E.stale = S.stale /\ E.items = S.items
    /\ \A u \in Values : u # v => E.own[u] = S.own[u]
    /\ v \in Values => E.own[v] = 0

LEMMA DropRuns ==
    ASSUME NEW K, NEW S \in Heaps, NEW v \in Values \union {NoValue},
           v \in Values => S.own[v] = 1
    PROVE  \E E \in Heaps : /\ Run(K, IF v # NoValue THEN Dec(v) ELSE <<>>, S, E)
                            /\ Dropped(S, E, v)
<1>1. CASE v = NoValue
  <2>1. Run(K, <<>>, S, S)
    BY RunNil
  <2>2. Dropped(S, S, v)
    BY <1>1, MethodsValue DEF Dropped
  <2>3. QED
    BY <1>1, <2>1, <2>2
<1>2. CASE v # NoValue
  <2>1. v \in Values /\ S.own[v] >= 1 /\ S \in Heaps
    BY <1>2
  <2>2. PICK E \in Heaps : /\ Run(K, Dec(v), S, E)
                           /\ Same(S, E, {v}) /\ E.own[v] = S.own[v] - 1
                           /\ E.items = S.items
    BY ONLY <2>1, DecRuns
  <2>3. E.own[v] = 0
    BY <2>1, <2>2
  <2>4. Dropped(S, E, v)
    BY <2>2, <2>3 DEF Dropped, Same
  <2>5. QED
    BY <1>2, <2>2, <2>4
<1>3. QED
  BY <1>1, <1>2

(* The values the registry refers to are there, and not the same.          *)
LEMMA RootsLive ==
    ASSUME NEW rf, NEW k, NEW r, NEW n, Rest(rf, k, r, n)
    PROVE  \A which \in RootNames :
               /\ r[which] \in DOMAIN rf \union {NoValue}
               /\ r[which] \in Values \union {NoValue}
               /\ r[which] # NoValue => FitsRoot(r[which], which)
<1> SUFFICES ASSUME NEW which \in RootNames
             PROVE  /\ r[which] \in DOMAIN rf \union {NoValue}
                    /\ r[which] \in Values \union {NoValue}
                    /\ r[which] # NoValue => FitsRoot(r[which], which)
  OBVIOUS
<1>1. /\ r[which] \in Values \union {NoValue}
      /\ r[which] # NoValue => FitsRoot(r[which], which)
  BY DEF Rest, Sound
<1>2. r[which] # NoValue => which \in RootPlaces(r, {}, r[which])
  BY DEF RootPlaces
<1>3. \A v \in Values \ DOMAIN rf : RootPlaces(r, {}, v) = {}
  BY DEF Rest
<1>4. QED
  BY <1>1, <1>2, <1>3

LEMMA StartShaped ==
    ASSUME NEW rf, NEW k, NEW r, NEW n, Rest(rf, k, r, n),
           NEW stale \in SUBSET RootNames
    PROVE  LET S == Start(rf, k, r, stale)
           IN  /\ S \in Heaps /\ S.stale = stale
               /\ \A u \in Values : u \notin DOMAIN rf => S.own[u] = -1
               /\ \A u \in DOMAIN rf : S.items[u] = k[u] /\ Shaped(u, S.items[u])
               /\ \A u \in DOMAIN rf : (\E w \in stale : r[w] = u) => S.own[u] = 1
               /\ \A u \in DOMAIN rf : (\A w \in stale : r[w] # u) => S.own[u] = 0
<1> DEFINE S == Start(rf, k, r, stale)
<1>1. /\ S \in Heaps /\ S.stale = stale
      /\ \A v \in Values :
             /\ v \notin DOMAIN rf => S.own[v] = -1
             /\ v \in DOMAIN rf =>
                    /\ S.items[v] = k[v]
                    /\ S.own[v] = IF \E which \in stale : r[which] = v
                                  THEN 1 ELSE 0
  BY StartFields
<1>2. DOMAIN rf \subseteq Values /\ \A u \in DOMAIN rf : Shaped(u, k[u])
  BY DEF Rest, Sound
<1> HIDE DEF S
<1>3. \A u \in DOMAIN rf : S.items[u] = k[u] /\ Shaped(u, S.items[u])
  BY <1>1, <1>2
<1>4. \A u \in DOMAIN rf : S.own[u] = IF \E which \in stale : r[which] = u
                                      THEN 1 ELSE 0
  BY <1>1, <1>2
<1>5. QED
  BY <1>1, <1>3, <1>4 DEF S

LEMMA SetRootRuns ==
    ASSUME NEW n, Rest(refs, kids, roots, n), NEW which \in {"default", "preinvoke"}
    PROVE  \E E \in Heaps :
               /\ Run({}, SetRootSteps(which), Start(refs, kids, roots, {which}), E)
               /\ Settled(E, n)
<1> DEFINE S == Start(refs, kids, roots, {which})
           g == Unused(which, 3)
           info == Part(which, g, "info")
           fun == Part(which, g, "function")
           data == Part(which, g, "data")
           old == roots[which]
<1>1. which \in RootNames /\ which # "methods" /\ which \in Names
  BY DEF RootNames, Names
<1>2. /\ S \in Heaps /\ S.stale = {which}
      /\ \A u \in Values : u \notin DOMAIN refs => S.own[u] = -1
      /\ \A u \in DOMAIN refs : S.items[u] = kids[u] /\ Shaped(u, S.items[u])
      /\ \A u \in DOMAIN refs : u = old => S.own[u] = 1
      /\ \A u \in DOMAIN refs : u # old => S.own[u] = 0
  <2>1. {which} \in SUBSET RootNames
    BY <1>1
  <2>2. QED
    BY <2>1, StartShaped
<1>3. /\ g \in 3..4
      /\ \A part \in {"info", "function", "data"} :
             Part(which, g, part) \notin DOMAIN refs
  BY FreshRoot
<1>4. SetRootSteps(which) =
          (BuildPair(which, g) \o (IF old # NoValue THEN Dec(old) ELSE <<>>))
          \o << <<"root", info, which>> >>
  BY DEF SetRootSteps
<1> HIDE DEF S, g, old
<1>5. g \in Nat /\ g \notin 1..2
  BY <1>3
<1>6. /\ info[3] = "info" /\ fun[3] = "function" /\ data[3] = "data"
      /\ info[1] = which /\ info[2] = g
  BY PartIs
<1>7. /\ info \in Values /\ fun \in Values /\ data \in Values /\ Methods \in Values
  BY <1>1, <1>5, PartValues, MethodsValue DEF Parts
<1>8. old \in DOMAIN refs \union {NoValue} /\ old \in Values \union {NoValue}
      /\ (old # NoValue => old[3] = "info")
  BY <1>1, RootsLive DEF FitsRoot, old
<1>9. /\ S.own[info] = -1 /\ S.own[fun] = -1 /\ S.own[data] = -1
      /\ old \notin {info, fun, data}
  <2>1. info \notin DOMAIN refs /\ fun \notin DOMAIN refs /\ data \notin DOMAIN refs
    BY <1>3
  <2>2. QED
    BY <1>2, <1>7, <1>8, <2>1, MethodsValue
<1>10. Methods \notin {info, fun, data, old}
  BY <1>6, <1>8, MethodsValue
<1>11. PICK A \in Heaps :
           /\ Run({}, BuildPair(which, g), S, A)
           /\ Same(S, A, {info, fun, data})
           /\ A.own[info] = 1 /\ A.own[fun] = 0 /\ A.own[data] = 0
           /\ A.items[info] = <<fun, data>>
  <2>1. \A part \in {"info", "function", "data"} : S.own[Part(which, g, part)] = -1
    BY <1>9
  <2>2. S \in Heaps /\ which \in Names /\ g \in Nat
    BY <1>1, <1>2, <1>5
  <2>3. QED
    BY ONLY <2>1, <2>2, PairRuns
<1> HIDE DEF info, fun, data
<1>12. \A u \in Values : u \notin {info, fun, data} =>
           A.own[u] = S.own[u] /\ A.items[u] = S.items[u]
  BY <1>11 DEF Same
<1>13. old \in Values => A.own[old] = 1
  BY <1>2, <1>8, <1>9, <1>12, MethodsValue
<1>14. PICK B \in Heaps :
           /\ Run({}, IF old # NoValue THEN Dec(old) ELSE <<>>, A, B)
           /\ Dropped(A, B, old)
  BY <1>8, <1>13, DropRuns
<1>15. B.own[info] = 1 /\ B.stale = {which}
  BY <1>2, <1>7, <1>9, <1>11, <1>14 DEF Dropped, Same
<1>16. PICK E \in Heaps : /\ Run({}, << <<"root", info, which>> >>, B, E)
                          /\ Rooted(B, E, info, which)
  <2>1. FitsRoot(info, which)
    BY <1>1, <1>3, <1>6 DEF FitsRoot
  <2>2. B.own[info] >= 1 /\ which \in B.stale
    BY <1>15
  <2>3. QED
    BY <1>1, <1>7, <2>1, <2>2, RootRuns
<1>17. Run({}, SetRootSteps(which), S, E)
  <2>1. Run({}, BuildPair(which, g) \o (IF old # NoValue THEN Dec(old) ELSE <<>>), S, B)
    BY <1>11, <1>14, RunCat
  <2>2. QED
    BY <1>4, <1>16, <2>1, RunCat
<1>18. /\ E.stale = {} /\ E.own[info] = 0 /\ E.items = A.items
       /\ \A u \in Values : u # info => E.own[u] = B.own[u]
  BY <1>14, <1>15, <1>16 DEF Rooted, Dropped
<1>19. \A u \in Values : E.own[u] \in {0, -1}
  <2> SUFFICES ASSUME NEW u \in Values PROVE E.own[u] \in {0, -1}
    OBVIOUS
  <2>1. CASE u = info
    BY <1>18, <2>1
  <2>2. CASE u # info /\ u = old
    BY <1>14, <1>18, <2>2 DEF Dropped
  <2>3. CASE u # info /\ u # old /\ u \in {fun, data}
    BY <1>11, <1>14, <1>18, <2>3 DEF Dropped
  <2>4. CASE u \notin {info, old, fun, data}
    <3>1. E.own[u] = S.own[u]
      BY <1>12, <1>14, <1>18, <2>4 DEF Dropped
    <3>2. QED
      BY <1>2, <2>4, <3>1
  <2>5. QED
    BY <2>1, <2>2, <2>3, <2>4
<1>20. \A u \in Values : E.own[u] = 0 => Shaped(u, E.items[u])
  <2> SUFFICES ASSUME NEW u \in Values, E.own[u] = 0 PROVE Shaped(u, E.items[u])
    OBVIOUS
  <2>1. CASE u = info
    <3>1. E.items[info] = <<fun, data>>
      BY <1>11, <1>18
    <3>2. QED
      BY <1>5, <1>6, <2>1, <3>1 DEF Shaped, fun, data
  <2>2. CASE u # info /\ u[3] = "info"
    <3>1. u \notin {info, fun, data}
      BY <1>6, <2>2
    <3>2. E.items[u] = S.items[u]
      BY <1>12, <1>18, <3>1
    <3>3. u \in DOMAIN refs
      <4>1. CASE u = old
        BY <1>8, <4>1, MethodsValue
      <4>2. CASE u # old
        <5>1. S.own[u] = 0
          BY <1>12, <1>14, <1>18, <2>2, <3>1, <4>2 DEF Dropped
        <5>2. QED
          BY <1>2, <5>1
      <4>3. QED
        BY <4>1, <4>2
    <3>4. QED
      BY <1>2, <3>2, <3>3
  <2>3. CASE u[3] # "info"
    BY <2>3 DEF Shaped
  <2>4. QED
    BY <2>1, <2>2, <2>3
<1>21. E.own[Methods] = 0 => Members(E.items[Methods], n)
  <2> SUFFICES ASSUME E.own[Methods] = 0 PROVE Members(E.items[Methods], n)
    OBVIOUS
  <2>1. S.own[Methods] = 0 /\ E.items[Methods] = S.items[Methods]
    BY <1>7, <1>10, <1>12, <1>14, <1>18 DEF Dropped
  <2>2. Methods \in DOMAIN refs
    BY <1>2, <1>7, <2>1
  <2>3. QED
    BY <1>2, <2>1, <2>2 DEF Rest
<1>22. Settled(E, n)
  BY <1>18, <1>19, <1>20, <1>21 DEF Settled
<1>23. QED
  BY <1>17, <1>22 DEF S
LEMMA FreeRuns ==
    ASSUME NEW n, Rest(refs, kids, roots, n), roots["methods"] = Methods
    PROVE  \E E \in Heaps :
               /\ Run({}, FreeSteps, Start(refs, kids, roots, RootNames), E)
               /\ Settled(E, n)
<1> DEFINE S == Start(refs, kids, roots, RootNames)
           default == roots["default"]
           preinvoke == roots["preinvoke"]
<1>1. /\ S \in Heaps /\ S.stale = RootNames
      /\ \A u \in Values : u \notin DOMAIN refs => S.own[u] = -1
      /\ \A u \in DOMAIN refs : S.items[u] = kids[u] /\ Shaped(u, S.items[u])
      /\ \A u \in DOMAIN refs : (\E w \in RootNames : roots[w] = u) => S.own[u] = 1
      /\ \A u \in DOMAIN refs : (\A w \in RootNames : roots[w] # u) => S.own[u] = 0
  BY StartShaped
<1>2. FreeSteps = ((Dec(Methods)
                    \o IF default # NoValue THEN Dec(default) ELSE <<>>)
                   \o IF preinvoke # NoValue THEN Dec(preinvoke) ELSE <<>>)
                  \o << <<"freed", Methods>> >>
  BY DEF FreeSteps
<1>3. RootNames = {"methods", "default", "preinvoke"}
  BY DEF RootNames
<1>4. /\ Methods \in DOMAIN refs \union {NoValue}
      /\ default \in DOMAIN refs \union {NoValue}
      /\ preinvoke \in DOMAIN refs \union {NoValue}
      /\ default # NoValue => FitsRoot(default, "default")
      /\ preinvoke # NoValue => FitsRoot(preinvoke, "preinvoke")
  BY <1>3, RootsLive
<1>5. /\ default # NoValue => default[1] = "default" /\ default[3] = "info"
      /\ preinvoke # NoValue => preinvoke[1] = "preinvoke" /\ preinvoke[3] = "info"
  BY <1>4 DEF FitsRoot
<1>6. /\ Methods \in Values /\ Methods \in DOMAIN refs /\ Methods[3] = "methods"
      /\ NoValue \notin Values
  BY <1>4, MethodsValue
<1>7. DOMAIN refs \subseteq Values
  BY DEF Rest, Sound
<1>8. Methods # default /\ Methods # preinvoke
      /\ (default # NoValue => default # preinvoke)
  BY <1>5, <1>6, <1>7
<1>9. /\ S.own[Methods] = 1
      /\ default \in Values => S.own[default] = 1
      /\ preinvoke \in Values => S.own[preinvoke] = 1
  BY <1>1, <1>3, <1>4, <1>6
<1>10. \A u \in DOMAIN refs : u \notin {Methods, default, preinvoke} => S.own[u] = 0
  BY <1>1, <1>3
<1> HIDE DEF S, default, preinvoke
<1>11. PICK A \in Heaps : Run({}, Dec(Methods), S, A) /\ Dropped(S, A, Methods)
  <2>1. Methods \in Values \union {NoValue} /\ (Methods \in Values => S.own[Methods] = 1)
    BY <1>6, <1>9
  <2>2. S \in Heaps
    BY <1>1
  <2>3. PICK A \in Heaps :
            /\ Run({}, IF Methods # NoValue THEN Dec(Methods) ELSE <<>>, S, A)
            /\ Dropped(S, A, Methods)
    BY <2>1, <2>2, DropRuns
  <2>4. Methods # NoValue
    BY <1>6
  <2>5. QED
    BY <2>3, <2>4
<1>12. PICK B \in Heaps :
           /\ Run({}, IF default # NoValue THEN Dec(default) ELSE <<>>, A, B)
           /\ Dropped(A, B, default)
  <2>1. default \in Values \union {NoValue}
        /\ (default \in Values => A.own[default] = 1)
    BY <1>4, <1>7, <1>8, <1>9, <1>11 DEF Dropped
  <2>2. QED
    BY <2>1, DropRuns
<1>13. PICK C \in Heaps :
           /\ Run({}, IF preinvoke # NoValue THEN Dec(preinvoke) ELSE <<>>, B, C)
           /\ Dropped(B, C, preinvoke)
  <2>1. preinvoke \in Values => B.own[preinvoke] = 1
    <3> SUFFICES ASSUME preinvoke \in Values PROVE B.own[preinvoke] = 1
      OBVIOUS
    <3>1. preinvoke # Methods /\ preinvoke # default
      BY <1>6, <1>8
    <3>2. QED
      BY <1>9, <1>11, <1>12, <3>1 DEF Dropped
  <2>2. preinvoke \in Values \union {NoValue}
    BY <1>4, <1>7
  <2>3. QED
    BY <2>1, <2>2, DropRuns
<1> DEFINE E == Heap(C.own, C.items, {})
<1>14. E \in Heaps
  <2>1. {} \in SUBSET RootNames
    OBVIOUS
  <2>2. QED
    BY <2>1, HeapFields, HeapMade
<1>15. E.own = C.own /\ E.items = C.items /\ E.stale = {}
  BY HeapParts
<1>16. C.stale = RootNames /\ C.items = S.items
  BY <1>1, <1>11, <1>12, <1>13 DEF Dropped
<1>17. Run({}, << <<"freed", Methods>> >>, C, E)
  <2>1. Does({}, <<"freed", Methods>>, C, E)
    BY <1>16 DEF Does, DoesFreed
  <2> HIDE DEF E
  <2>2. <<"freed", Methods>> \in Steps
    BY StepKinds
  <2>3. QED
    BY <1>14, <2>1, <2>2, RunOne
<1> HIDE DEF E
<1>18. Run({}, FreeSteps, S, E)
  <2>1. Run({}, Dec(Methods) \o IF default # NoValue THEN Dec(default) ELSE <<>>, S, B)
    BY <1>11, <1>12, RunCat
  <2>2. Run({}, (Dec(Methods)
                 \o IF default # NoValue THEN Dec(default) ELSE <<>>)
                \o IF preinvoke # NoValue THEN Dec(preinvoke) ELSE <<>>, S, C)
    BY <1>13, <2>1, RunCat
  <2>3. QED
    BY <1>2, <1>17, <2>2, RunCat
<1>19. \A u \in Values : E.own[u] = IF u \in {Methods, default, preinvoke}
                                    THEN 0 ELSE S.own[u]
  <2> SUFFICES ASSUME NEW u \in Values
               PROVE  E.own[u] = IF u \in {Methods, default, preinvoke}
                                 THEN 0 ELSE S.own[u]
    OBVIOUS
  <2>1. CASE u = preinvoke
    BY <1>13, <1>15, <2>1 DEF Dropped
  <2>2. CASE u # preinvoke /\ u = default
    BY <1>12, <1>13, <1>15, <2>2 DEF Dropped
  <2>3. CASE u # preinvoke /\ u # default
    BY <1>11, <1>12, <1>13, <1>15, <2>3 DEF Dropped
  <2>4. QED
    BY <2>1, <2>2, <2>3
<1>20. \A u \in Values : E.own[u] \in {0, -1} /\ (E.own[u] = 0 => u \in DOMAIN refs)
  <2> SUFFICES ASSUME NEW u \in Values
               PROVE  E.own[u] \in {0, -1} /\ (E.own[u] = 0 => u \in DOMAIN refs)
    OBVIOUS
  <2>1. CASE u \in {Methods, default, preinvoke}
    BY <1>4, <1>6, <1>19, <2>1
  <2>2. CASE u \notin {Methods, default, preinvoke}
    BY <1>1, <1>10, <1>19, <2>2
  <2>3. QED
    BY <2>1, <2>2
<1>21. \A u \in Values : E.own[u] = 0 => Shaped(u, E.items[u])
  BY <1>1, <1>15, <1>16, <1>20
<1>22. Members(E.items[Methods], n)
  BY <1>1, <1>6, <1>15, <1>16 DEF Rest
<1>23. Settled(E, n)
  BY <1>15, <1>20, <1>21, <1>22 DEF Settled
<1>24. QED
  BY <1>14, <1>18, <1>23 DEF S

(* xmlrpc_registry_new, before the system methods.                         *)
LEMMA NewRegistryRuns ==
    ASSUME NEW n, Rest(refs, kids, roots, n), DOMAIN refs = {}
    PROVE  \E E \in Heaps :
               /\ Run({}, New(Methods) \o << <<"root", Methods, "methods">> >>,
                      Start(refs, kids, roots, {"methods"}), E)
               /\ Settled(E, 0)
<1> DEFINE S == Start(refs, kids, roots, {"methods"})
<1>1. /\ S \in Heaps /\ S.stale = {"methods"}
      /\ \A u \in Values : S.own[u] = -1
  <2>1. {"methods"} \in SUBSET RootNames
    BY DEF RootNames
  <2>2. QED
    BY <2>1, StartShaped
<1> HIDE DEF S
<1>2. PICK A \in Heaps : /\ Run({}, New(Methods), S, A)
                         /\ Same(S, A, {Methods}) /\ A.own[Methods] = 1
                         /\ A.items[Methods] = <<>>
  <2>1. S \in Heaps /\ Methods \in Values /\ S.own[Methods] = -1
    BY <1>1, MethodsValue
  <2>2. QED
    BY ONLY <2>1, NewRuns
<1>3. PICK E \in Heaps : /\ Run({}, << <<"root", Methods, "methods">> >>, A, E)
                         /\ Rooted(A, E, Methods, "methods")
  <2>1. /\ A.own[Methods] >= 1 /\ "methods" \in RootNames /\ "methods" \in A.stale
        /\ FitsRoot(Methods, "methods") /\ Methods \in Values
    BY <1>1, <1>2, MethodsValue DEF RootNames, FitsRoot, Same
  <2>2. QED
    BY <2>1, RootRuns
<1>4. Run({}, New(Methods) \o << <<"root", Methods, "methods">> >>, S, E)
  BY <1>2, <1>3, RunCat
<1>5. /\ E.stale = {} /\ E.own[Methods] = 0 /\ E.items[Methods] = <<>>
      /\ \A u \in Values : u # Methods => E.own[u] = -1
  BY <1>1, <1>2, <1>3 DEF Rooted, Same
<1>6. \A u \in Values : E.own[u] \in {0, -1} /\ (E.own[u] = 0 => u = Methods)
  <2>1. \A u \in Values : u = Methods \/ u # Methods
    OBVIOUS
  <2>2. QED
    BY <1>5
<1>7. \A u \in Values : E.own[u] = 0 => Shaped(u, E.items[u])
  BY <1>6, MethodsValue DEF Shaped
<1>8. Members(<<>>, 0)
  <2>1. Len(<<>>) = 2 * 0 /\ 0 \in Nat
    OBVIOUS
  <2>2. \A i \in 1..0 : FALSE
    OBVIOUS
  <2>3. QED
    BY <2>1, <2>2 DEF Members
<1>9. Settled(E, 0)
  BY <1>5, <1>6, <1>7, <1>8 DEF Settled
<1>10. QED
  BY <1>4, <1>9 DEF S
-----------------------------------------------------------------------------
(* Requests.  The registry is only read: all that is in it stays.          *)

Reading == Rest(refs, kids, roots, 5) /\ roots["methods"] = Methods

ResultParts == {"result", "wrapped", "results"}

(* A heap in the course of a request.                                      *)
Lent(S) ==
    /\ S.stale = {}
    /\ \A u \in DOMAIN refs : S.own[u] = 0 /\ S.items[u] = kids[u]
    /\ \A u \in Values \ DOMAIN refs : S.own[u] # -1 => u[3] \in ResultParts

LEMMA ReadingFacts ==
    ASSUME Reading
    PROVE  /\ Rest(refs, kids, roots, 5) /\ Methods \in DOMAIN refs
           /\ DOMAIN refs \subseteq Values
           /\ \A u \in DOMAIN refs : u[3] \notin ResultParts
           /\ \A u \in DOMAIN refs :
                  /\ kids[u] \in Seq(Values) /\ DOMAIN kids[u] = 1..Len(kids[u])
                  /\ \A i \in DOMAIN kids[u] :
                         kids[u][i] \in DOMAIN refs /\ Fits(kids[u][i], u)
<1>1. Rest(refs, kids, roots, 5) /\ roots["methods"] = Methods
  BY DEF Reading
<1>2. Sound(refs, kids, roots) /\ DOMAIN refs \subseteq Values
      /\ DOMAIN kids = DOMAIN refs /\ Contents(kids)
  BY <1>1 DEF Rest, Sound
<1>3. Methods \in DOMAIN refs
  <2>1. "methods" \in RootNames
    BY DEF RootNames
  <2>2. roots["methods"] \in DOMAIN refs \union {NoValue}
    BY <1>1, <2>1, RootsLive
  <2>3. Methods # NoValue
    BY MethodsValue
  <2>4. QED
    BY <1>1, <2>2, <2>3
<1>4. \A u \in DOMAIN refs : u[3] \notin ResultParts
  BY <1>1, RestHeld DEF ResultParts
<1>5. ASSUME NEW u \in DOMAIN refs
      PROVE  /\ kids[u] \in Seq(Values) /\ DOMAIN kids[u] = 1..Len(kids[u])
             /\ \A i \in DOMAIN kids[u] :
                    kids[u][i] \in DOMAIN refs /\ Fits(kids[u][i], u)
  <2>1. kids[u] \in Seq(Values)
    BY <1>2 DEF Contents
  <2>2. DOMAIN kids[u] = 1..Len(kids[u])
    BY <2>1
  <2>3. ASSUME NEW i \in DOMAIN kids[u]
        PROVE  kids[u][i] \in DOMAIN refs /\ Fits(kids[u][i], u)
    <3>1. kids[u][i] \in Values
      BY <2>1
    <3>2. Places(kids, kids[u][i]) # {}
      BY <1>2, PlacesAre
    <3>3. \A v \in Values \ DOMAIN refs : Places(kids, v) = {}
      BY <1>1 DEF Rest
    <3>4. Fits(kids[u][i], u)
      BY <1>2 DEF Sound
    <3>5. QED
      BY <3>1, <3>2, <3>3, <3>4
  <2>4. QED
    BY <2>1, <2>2, <2>3
<1>6. QED
  BY <1>1, <1>2, <1>3, <1>4, <1>5

(* A list of runs that each come back to the same heap.                    *)
LEMMA RunAround ==
    ASSUME NEW K, NEW S \in Heaps, NEW ss \in Seq(Seq(Steps)),
           \A i \in 1..Len(ss) : Run(K, ss[i], S, S)
    PROVE  Run(K, FlattenSeq(ss), S, S)
<1> DEFINE P == [i \in 0..Len(ss) |-> {S}]
<1>1. Len(ss) \in Nat
  OBVIOUS
<1>2. \A i \in 0..Len(ss) : P[i] = {S}
  OBVIOUS
<1>3. \A i \in 1..Len(ss) : i \in 0..Len(ss) /\ i - 1 \in 0..Len(ss)
  BY <1>1
<1>4. 0 \in 0..Len(ss) /\ Len(ss) \in 0..Len(ss)
  BY <1>1
<1> HIDE DEF P
<1>5. \A i \in 1..Len(ss) : \A M \in P[i - 1] : \E E \in P[i] : Run(K, ss[i], M, E)
  <2> SUFFICES ASSUME NEW i \in 1..Len(ss)
               PROVE  \A M \in P[i - 1] : \E E \in P[i] : Run(K, ss[i], M, E)
    OBVIOUS
  <2>1. P[i - 1] = {S} /\ P[i] = {S} /\ Run(K, ss[i], S, S)
    BY <1>2, <1>3
  <2>2. QED
    BY <2>1
<1>6. S \in P[0] /\ P[0] \subseteq Heaps
  BY <1>2, <1>4
<1>7. \E E \in P[Len(ss)] : Run(K, FlattenSeq(ss), S, E)
  BY <1>5, <1>6, RunFlatten
<1>8. QED
  BY <1>2, <1>4, <1>7

LEMMA GetRuns ==
    ASSUME Reading, NEW S \in Heaps, Lent(S), NEW v \in DOMAIN refs
    PROVE  Run(DOMAIN refs, GetItem(v), S, S)
<1>1. v \in Values /\ S.own[v] >= 0
  BY ReadingFacts DEF Lent
<1>2. QED
  BY <1>1, RunGet

LEMMA ParsePairRuns ==
    ASSUME Reading, NEW S \in Heaps, Lent(S), NEW info \in DOMAIN refs,
           info[3] = "info"
    PROVE  Run(DOMAIN refs, ParsePair(info), S, S)
<1>1. Shaped(info, kids[info])
  BY ReadingFacts DEF Rest
<1>2. 1 \in DOMAIN kids[info] /\ 2 \in DOMAIN kids[info]
  BY <1>1 DEF Shaped
<1>3. kids[info][1] \in DOMAIN refs /\ kids[info][2] \in DOMAIN refs
  BY <1>2, ReadingFacts
<1>4. Run(DOMAIN refs, GetItem(kids[info][1]), S, S)
  BY <1>3, GetRuns
<1>5. Run(DOMAIN refs, GetItem(kids[info][2]), S, S)
  BY <1>3, GetRuns
<1>6. QED
  BY <1>4, <1>5, RunCat DEF ParsePair

(* What a method returns: the result it makes, or a reference of its own   *)
(* to the help text of another.                                            *)
Returned(S, E, x, result) ==
    \/ x = NoValue /\ E = S
    \/ /\ x = result \/ (x \in DOMAIN refs /\ x[3] = "help")
       /\ x \in Values /\ E.stale = S.stale
       /\ E.own[x] = IF x = result THEN 1 ELSE S.own[x] + 1
       /\ x # result => E.items[x] = S.items[x]
       /\ \A u \in Values : u # x => E.own[u] = S.own[u] /\ E.items[u] = S.items[u]

Returns(S, result) ==
    {p \in (Values \union {NoValue}) \X Heaps : Returned(S, p[2], p[1], result)}

Answers(S, answer, T) ==
    \E s, x : /\ answer = Answer(s, x)
              /\ \E E \in Heaps : Run(DOMAIN refs, s, S, E) /\ <<x, E>> \in T

LEMMA AnswerIs ==
    /\ \A s, x : Answer(s, x).steps = s /\ Answer(s, x).result = x
    /\ \A s, x, p : [Answer(s, x) EXCEPT !.steps = p \o @] = Answer(p \o s, x)
<1>1. \A s, x : Answer(s, x).steps = s /\ Answer(s, x).result = x
  BY DEF Answer
<1>2. ASSUME NEW s, NEW x, NEW p
      PROVE  [Answer(s, x) EXCEPT !.steps = p \o @] = Answer(p \o s, x)
  <2>1. \A q : [Answer(s, x) EXCEPT !.steps = q] = Answer(q, x)
    BY DEF Answer
  <2>2. [Answer(s, x) EXCEPT !.steps = p \o @]
            = [Answer(s, x) EXCEPT !.steps = p \o s]
    BY <1>1
  <2>3. QED
    BY <2>1, <2>2
<1>3. QED
  BY <1>1, <1>2

LEMMA AnswersBefore ==
    ASSUME NEW S, NEW T, NEW p, Run(DOMAIN refs, p, S, S),
           NEW answer, Answers(S, answer, T)
    PROVE  Answers(S, [answer EXCEPT !.steps = p \o @], T)
<1>1. PICK s, x : /\ answer = Answer(s, x)
                  /\ \E E \in Heaps : Run(DOMAIN refs, s, S, E) /\ <<x, E>> \in T
  BY DEF Answers
<1>2. PICK E \in Heaps : Run(DOMAIN refs, s, S, E) /\ <<x, E>> \in T
  BY <1>1
<1>3. [answer EXCEPT !.steps = p \o @] = Answer(p \o s, x)
  BY <1>1, AnswerIs
<1>4. Run(DOMAIN refs, p \o s, S, E)
  BY <1>2, RunCat
<1>5. QED
  BY <1>2, <1>3, <1>4 DEF Answers

LEMMA FaultAnswers ==
    ASSUME NEW S \in Heaps, NEW T, <<NoValue, S>> \in T, NEW p,
           Run(DOMAIN refs, p, S, S)
    PROVE  Answers(S, Fault(p), T)
BY DEF Answers, Fault

LEMMA ResultReturned ==
    ASSUME NEW S \in Heaps, NEW result \in Values, NEW E \in Heaps,
           Same(S, E, {result}), E.own[result] = 1
    PROVE  <<result, E>> \in Returns(S, result)
<1>1. Returned(S, E, result, result)
  BY DEF Returned, Same
<1>2. <<result, E>> \in (Values \union {NoValue}) \X Heaps
  OBVIOUS
<1>3. <<result, E>>[1] = result /\ <<result, E>>[2] = E
  OBVIOUS
<1>4. QED
  BY <1>1, <1>2, <1>3 DEF Returns

LEMMA NothingReturned ==
    ASSUME NEW S \in Heaps, NEW result
    PROVE  <<NoValue, S>> \in Returns(S, result)
<1>1. Returned(S, S, NoValue, result)
  BY DEF Returned
<1>2. <<NoValue, S>> \in (Values \union {NoValue}) \X Heaps
  OBVIOUS
<1>3. <<NoValue, S>>[1] = NoValue /\ <<NoValue, S>>[2] = S
  OBVIOUS
<1>4. QED
  BY <1>1, <1>2, <1>3 DEF Returns
LEMMA LentNew ==
    ASSUME Reading, NEW S \in Heaps, Lent(S), NEW v \in Values, S.own[v] = -1,
           v[3] \in ResultParts, NEW E, Same(S, E, {v})
    PROVE  Lent(E) /\ v \notin DOMAIN refs
<1>1. v \notin DOMAIN refs
  BY DEF Lent
<1>2. DOMAIN refs \subseteq Values
  BY ReadingFacts
<1>3. QED
  BY <1>1, <1>2 DEF Lent, Same

LEMMA ListMethodsAnswers ==
    ASSUME Reading, NEW S \in Heaps, Lent(S), NEW list \in Values,
           S.own[list] = -1, list[3] = "result"
    PROVE  Answers(S, ListMethods(list), Returns(S, list))
<1> DEFINE Listing(i) == GetKeyAndValue(KeyAt(i), InfoAt(i))
                         \o AppendItem(list, KeyAt(i))
           ss == [i \in 1..MemberCount |-> Listing(i)]
<1>1. /\ MemberCount \in Nat
      /\ \A i \in 1..MemberCount : \E name \in Names, g \in 1..2 :
             /\ KeyAt(i) = KeyFor(name) /\ KeyAt(i) \in DOMAIN refs
             /\ InfoAt(i) = Part(name, g, "info") /\ InfoAt(i) \in DOMAIN refs
  BY ReadingFacts, RegisteredAre
<1>2. PICK E \in Heaps : /\ Run(DOMAIN refs, New(list), S, E)
                         /\ Same(S, E, {list}) /\ E.own[list] = 1
                         /\ E.items[list] = <<>>
  BY NewRuns
<1>3. Lent(E) /\ list \notin DOMAIN refs
  BY <1>2, LentNew DEF ResultParts
<1>4. ASSUME NEW i \in 1..MemberCount
      PROVE  Run(DOMAIN refs, Listing(i), E, E)
  <2> DEFINE v == KeyAt(i)
             w == InfoAt(i)
  <2>1. v \in DOMAIN refs /\ w \in DOMAIN refs /\ v[3] = "key" /\ w[3] = "info"
    BY <1>1, PartIs DEF KeyFor
  <2> HIDE DEF v, w
  <2>2. /\ v \in Values /\ w \in Values /\ v # w /\ v # list
        /\ E.own[v] >= 0 /\ E.own[w] >= 0
    BY <1>3, <2>1, ReadingFacts DEF Lent
  <2>3. Fits(v, list) /\ ~Tracked(list)
    BY <2>1 DEF Fits, Tracked
  <2>4. Run(DOMAIN refs, GetKeyAndValue(v, w), E, E)
    BY <2>1, <2>2, RunKeyAndValue
  <2>5. E.own[list] >= 1
    BY <1>2
  <2>6. Run(DOMAIN refs, AppendItem(list, v), E, E)
    BY <2>1, <2>2, <2>3, <2>5, RunAppendHeld
  <2>7. QED
    BY <2>4, <2>6, RunCat DEF v, w
<1>5. \A i \in 1..MemberCount : Listing(i) \in Seq(Steps)
  BY <1>4, RunInHeaps
<1> HIDE DEF Listing
<1>6. ss \in Seq(Seq(Steps)) /\ Len(ss) = MemberCount
      /\ \A i \in 1..Len(ss) : ss[i] = Listing(i)
  BY <1>1, <1>5
<1>7. Run(DOMAIN refs, FlattenSeq(ss), E, E)
  <2> HIDE DEF ss
  <2>1. \A i \in 1..Len(ss) : Run(DOMAIN refs, ss[i], E, E)
    BY <1>4, <1>6
  <2>2. QED
    BY <1>6, <2>1, RunAround
<1>8. ListMethods(list) = Answer(New(list) \o FlattenSeq(ss), list)
  BY DEF ListMethods, Listing
<1> HIDE DEF ss
<1>9. Run(DOMAIN refs, New(list) \o FlattenSeq(ss), S, E)
  BY <1>2, <1>7, RunCat
<1>10. <<list, E>> \in Returns(S, list)
  BY <1>2, ResultReturned
<1>11. QED
  BY <1>8, <1>9, <1>10 DEF Answers

(* The method info of a registered name, and what it holds.                *)
LEMMA InfoHolds ==
    ASSUME Reading, NEW name, Registered(name)
    PROVE  /\ InfoOf(name) \in DOMAIN refs /\ InfoOf(name)[3] = "info"
           /\ Len(kids[InfoOf(name)]) = 4
           /\ \A i \in 1..4 : kids[InfoOf(name)][i] \in DOMAIN refs
           /\ kids[InfoOf(name)][3][3] = "signatures"
           /\ kids[InfoOf(name)][4][3] = "help"
<1> DEFINE info == InfoOf(name)
<1>1. info \in DOMAIN refs /\ \E g \in 1..2 : info = Part(name, g, "info")
  BY ReadingFacts, RegisteredAre
<1> HIDE DEF info
<1>2. PICK g \in 1..2 : info = Part(name, g, "info")
  BY <1>1
<1>3. info[1] = name /\ info[2] = g /\ info[3] = "info"
  BY <1>2, PartIs
<1>4. Shaped(info, kids[info])
  BY <1>1, ReadingFacts DEF Rest
<1>5. kids[info] = <<Part(name, g, "function"), Part(name, g, "data"),
                     Part(name, g, "signatures"), Part(name, g, "help")>>
  BY <1>3, <1>4 DEF Shaped
<1>6. Len(kids[info]) = 4
  BY <1>5
<1>7. DOMAIN kids[info] = 1..4
  BY <1>1, <1>6, ReadingFacts
<1>8. kids[info][3] = Part(name, g, "signatures") /\ kids[info][4] = Part(name, g, "help")
  BY <1>5
<1>9. QED
  BY <1>1, <1>3, <1>6, <1>7, <1>8, ReadingFacts, PartIs DEF info

LEMMA MethodHelpAnswers ==
    ASSUME Reading, NEW S \in Heaps, Lent(S), NEW name, Registered(name),
           NEW result, result[3] = "result"
    PROVE  Answers(S, MethodHelp(name), Returns(S, result))
<1> DEFINE items == kids[InfoOf(name)]
           ss == [i \in 1..4 |-> GetItem(items[i])]
           help == items[4]
<1>1. \A i \in 1..4 : items[i] \in DOMAIN refs
  BY InfoHolds
<1>2. help[3] = "help" /\ help \in DOMAIN refs
  BY <1>1, InfoHolds
<1>3. MethodHelp(name) = Answer(FlattenSeq(ss) \o Inc(help), help)
  BY DEF MethodHelp
<1> HIDE DEF items, help
<1>4. \A i \in 1..4 : Run(DOMAIN refs, GetItem(items[i]), S, S)
  BY <1>1, GetRuns
<1>5. \A i \in 1..4 : GetItem(items[i]) \in Seq(Steps)
  BY <1>4, RunInHeaps
<1>6. ss \in Seq(Seq(Steps)) /\ Len(ss) = 4
      /\ \A i \in 1..Len(ss) : ss[i] = GetItem(items[i])
  BY <1>5
<1> HIDE DEF ss
<1>7. Run(DOMAIN refs, FlattenSeq(ss), S, S)
  BY <1>4, <1>6, RunAround
<1>8. help \in Values /\ S.own[help] = 0 /\ help # result
  BY <1>2, ReadingFacts DEF Lent
<1>9. PICK E \in Heaps : /\ Run(DOMAIN refs, Inc(help), S, E)
                         /\ Same(S, E, {help}) /\ E.own[help] = S.own[help] + 1
                         /\ E.items = S.items
  <2>1. S.own[help] >= 1 \/ (S.own[help] = 0 /\ Held(DOMAIN refs, S, help))
    BY <1>2, <1>8 DEF Held
  <2>2. S \in Heaps /\ help \in Values
    BY <1>8
  <2>3. QED
    BY ONLY <2>1, <2>2, IncRuns
<1>10. Run(DOMAIN refs, FlattenSeq(ss) \o Inc(help), S, E)
  BY <1>7, <1>9, RunCat
<1>11. <<help, E>> \in Returns(S, result)
  <2>1. Returned(S, E, help, result)
    BY <1>2, <1>8, <1>9 DEF Returned, Same
  <2>2. <<help, E>> \in (Values \union {NoValue}) \X Heaps
    BY <1>8
  <2>3. <<help, E>>[1] = help /\ <<help, E>>[2] = E
    OBVIOUS
  <2>4. QED
    BY <2>1, <2>2, <2>3 DEF Returns
<1>12. QED
  BY <1>3, <1>10, <1>11 DEF Answers

LEMMA MethodSignatureAnswers ==
    ASSUME Reading, NEW S \in Heaps, Lent(S), NEW name, Registered(name),
           NEW copy \in Values, S.own[copy] = -1, copy[3] = "result"
    PROVE  Answers(S, MethodSignature(name, copy), Returns(S, copy))
<1> DEFINE list == kids[InfoOf(name)][3]
           Copied(i) == GetItem(kids[list][i]) \o AppendItem(copy, kids[list][i])
           ss == [i \in DOMAIN kids[list] |-> Copied(i)]
<1>1. list \in DOMAIN refs /\ list[3] = "signatures"
  BY InfoHolds
<1>2. MethodSignature(name, copy) =
          Answer((GetItem(list) \o New(copy)) \o FlattenSeq(ss), copy)
  BY DEF MethodSignature
<1> HIDE DEF list
<1>3. PICK E \in Heaps : /\ Run(DOMAIN refs, New(copy), S, E)
                         /\ Same(S, E, {copy}) /\ E.own[copy] = 1
                         /\ E.items[copy] = <<>>
  BY NewRuns
<1>4. Lent(E) /\ copy \notin DOMAIN refs
  BY <1>3, LentNew DEF ResultParts
<1>5. /\ kids[list] \in Seq(Values) /\ DOMAIN kids[list] = 1..Len(kids[list])
      /\ \A i \in DOMAIN kids[list] :
             kids[list][i] \in DOMAIN refs /\ Fits(kids[list][i], list)
  BY <1>1, ReadingFacts
<1>6. ASSUME NEW i \in DOMAIN kids[list]
      PROVE  Run(DOMAIN refs, Copied(i), E, E)
  <2> DEFINE v == kids[list][i]
  <2>1. v \in DOMAIN refs /\ v[3] = "signature"
    BY <1>1, <1>5 DEF Fits
  <2> HIDE DEF v
  <2>2. /\ v \in Values /\ v # copy /\ E.own[v] >= 0
    BY <1>4, <2>1, ReadingFacts DEF Lent
  <2>3. Fits(v, copy) /\ ~Tracked(copy)
    BY <2>1 DEF Fits, Tracked
  <2>4. Run(DOMAIN refs, GetItem(v), E, E)
    BY <1>4, <2>1, GetRuns
  <2>5. E.own[copy] >= 1
    BY <1>3
  <2>6. Run(DOMAIN refs, AppendItem(copy, v), E, E)
    BY <2>1, <2>2, <2>3, <2>5, RunAppendHeld
  <2>7. QED
    BY <2>4, <2>6, RunCat DEF v
<1>7. \A i \in DOMAIN kids[list] : Copied(i) \in Seq(Steps)
  BY <1>6, RunInHeaps
<1> HIDE DEF Copied
<1>8. Len(kids[list]) \in Nat
  BY <1>5
<1>9. ss \in Seq(Seq(Steps)) /\ Len(ss) = Len(kids[list])
      /\ \A i \in 1..Len(ss) : ss[i] = Copied(i)
  BY <1>5, <1>7, <1>8
<1>10. Run(DOMAIN refs, FlattenSeq(ss), E, E)
  <2> HIDE DEF ss
  <2>1. \A i \in 1..Len(ss) : Run(DOMAIN refs, ss[i], E, E)
    BY <1>5, <1>6, <1>9
  <2>2. QED
    BY <1>9, <2>1, RunAround
<1> HIDE DEF ss
<1>11. Run(DOMAIN refs, (GetItem(list) \o New(copy)) \o FlattenSeq(ss), S, E)
  <2>1. Run(DOMAIN refs, GetItem(list), S, S)
    BY <1>1, GetRuns
  <2>2. Run(DOMAIN refs, GetItem(list) \o New(copy), S, E)
    BY <1>3, <2>1, RunCat
  <2>3. QED
    BY <1>10, <2>2, RunCat
<1>12. <<copy, E>> \in Returns(S, copy)
  BY <1>3, ResultReturned
<1>13. QED
  BY <1>2, <1>11, <1>12 DEF Answers

LEMMA MethodAnswers ==
    ASSUME Reading, NEW S \in Heaps, Lent(S), NEW result \in Values,
           S.own[result] = -1, result[3] = "result", NEW call
    PROVE  Answers(S, Method(call, result), Returns(S, result))
<1> DEFINE introspects == {"system.listMethods", "system.methodHelp",
                           "system.methodSignature"}
           named == {"system.methodHelp", "system.methodSignature"}
<1>1. Answers(S, Fault(<<>>), Returns(S, result))
  <2>1. Run(DOMAIN refs, <<>>, S, S)
    BY RunNil
  <2>2. QED
    BY <2>1, NothingReturned, FaultAnswers
<1>2. Answers(S, Answer(New(result), result), Returns(S, result))
  <2>1. PICK E \in Heaps : /\ Run(DOMAIN refs, New(result), S, E)
                           /\ Same(S, E, {result}) /\ E.own[result] = 1
                           /\ E.items[result] = <<>>
    BY NewRuns
  <2>2. <<result, E>> \in Returns(S, result)
    BY <2>1, ResultReturned
  <2>3. QED
    BY <2>1, <2>2 DEF Answers
<1>3. Answers(S, ListMethods(result), Returns(S, result))
  BY ListMethodsAnswers
<1>4. Registered(call.arg) =>
          /\ Answers(S, MethodHelp(call.arg), Returns(S, result))
          /\ Answers(S, MethodSignature(call.arg, result), Returns(S, result))
  BY MethodHelpAnswers, MethodSignatureAnswers
<1>5. CASE (call.name \in introspects /\ ~introspection)
           \/ (call.name \in named /\ ~Registered(call.arg))
  <2>1. Method(call, result) = Fault(<<>>)
    BY <1>5 DEF Method
  <2>2. QED
    BY <1>1, <2>1
<1>6. CASE ~((call.name \in introspects /\ ~introspection)
             \/ (call.name \in named /\ ~Registered(call.arg)))
  <2>1. CASE call.name = "system.listMethods"
    <3>1. Method(call, result) = ListMethods(result)
      BY <1>6, <2>1 DEF Method
    <3>2. QED
      BY <1>3, <3>1
  <2>2. CASE call.name = "system.methodHelp"
    <3>1. Method(call, result) = MethodHelp(call.arg) /\ Registered(call.arg)
      BY <1>6, <2>2 DEF Method
    <3>2. QED
      BY <1>4, <3>1
  <2>3. CASE call.name = "system.methodSignature"
    <3>1. Method(call, result) = MethodSignature(call.arg, result)
          /\ Registered(call.arg)
      BY <1>6, <2>3 DEF Method
    <3>2. QED
      BY <1>4, <3>1
  <2>4. CASE call.name \notin introspects
    <3>1. Method(call, result) = IF call.fails THEN Fault(<<>>)
                                 ELSE Answer(New(result), result)
      BY <1>6, <2>4 DEF Method
    <3>2. QED
      BY <1>1, <1>2, <3>1
  <2>5. QED
    BY <2>1, <2>2, <2>3, <2>4
<1>7. QED
  BY <1>5, <1>6
LEMMA RootInfo ==
    ASSUME Reading, NEW which \in {"default", "preinvoke"}, roots[which] # NoValue
    PROVE  roots[which] \in DOMAIN refs /\ roots[which][3] = "info"
<1>1. which \in RootNames /\ which # "methods"
  BY DEF RootNames
<1>2. roots[which] \in DOMAIN refs /\ FitsRoot(roots[which], which)
  BY <1>1, ReadingFacts, RootsLive
<1>3. QED
  BY <1>1, <1>2 DEF FitsRoot

LEMMA PreinvokedAnswers ==
    ASSUME Reading, NEW S \in Heaps, Lent(S), NEW T, <<NoValue, S>> \in T,
           NEW answer, Answers(S, answer, T), NEW refused
    PROVE  Answers(S, Preinvoked(refused, answer), T)
<1> DEFINE steps == IF roots["preinvoke"] = NoValue THEN <<>>
                    ELSE ParsePair(roots["preinvoke"])
<1>1. Run(DOMAIN refs, steps, S, S)
  <2>1. CASE roots["preinvoke"] = NoValue
    BY <2>1, RunNil
  <2>2. CASE roots["preinvoke"] # NoValue
    BY <2>2, RootInfo, ParsePairRuns
  <2>3. QED
    BY <2>1, <2>2
<1>2. Preinvoked(refused, answer) =
          IF refused /\ roots["preinvoke"] # NoValue THEN Fault(steps)
          ELSE [answer EXCEPT !.steps = steps \o @]
  BY DEF Preinvoked
<1> HIDE DEF steps
<1>3. Answers(S, Fault(steps), T)
  BY <1>1, FaultAnswers
<1>4. Answers(S, [answer EXCEPT !.steps = steps \o @], T)
  BY <1>1, AnswersBefore
<1>5. QED
  BY <1>2, <1>3, <1>4

LEMMA DispatchAnswers ==
    ASSUME Reading, NEW S \in Heaps, Lent(S), NEW result \in Values,
           S.own[result] = -1, result[3] = "result", NEW call
    PROVE  Answers(S, DispatchCall(call, result), Returns(S, result))
<1> DEFINE info == IF Registered(call.name) THEN InfoOf(call.name)
                   ELSE roots["default"]
           answer == Method(call, result)
           given == IF info = NoValue THEN Fault(<<>>)
                    ELSE [answer EXCEPT !.steps = ParsePair(info) \o @]
           T == Returns(S, result)
<1>1. info # NoValue => info \in DOMAIN refs /\ info[3] = "info"
  BY RootInfo, InfoHolds
<1>2. Answers(S, answer, T)
  BY MethodAnswers
<1>3. <<NoValue, S>> \in T
  BY NothingReturned
<1>4. DispatchCall(call, result) = Preinvoked(call.refused, given)
  BY DEF DispatchCall
<1> HIDE DEF answer, T, info
<1>5. Answers(S, given, T)
  <2>1. CASE info = NoValue
    <3>1. Run(DOMAIN refs, <<>>, S, S)
      BY RunNil
    <3>2. Answers(S, Fault(<<>>), T)
      BY <1>3, <3>1, FaultAnswers
    <3>3. QED
      BY <2>1, <3>2
  <2>2. CASE info # NoValue
    <3>1. Run(DOMAIN refs, ParsePair(info), S, S)
      BY <1>1, <2>2, ParsePairRuns
    <3>2. Answers(S, [answer EXCEPT !.steps = ParsePair(info) \o @], T)
      BY <1>2, <3>1, AnswersBefore
    <3>3. QED
      BY <2>2, <3>2
  <2>3. QED
    BY <2>1, <2>2
<1> HIDE DEF given
<1>6. Answers(S, Preinvoked(call.refused, given), T)
  BY <1>3, <1>5, PreinvokedAnswers
<1>7. QED
  BY <1>4, <1>6 DEF T
-----------------------------------------------------------------------------
(* system.multicall.                                                       *)

(* One call done: its result wrapped, and nothing else changed.            *)
Wrap(M, D, result, wrapped) ==
    /\ Same(M, D, {result, wrapped})
    /\ D.own[wrapped] = 1 /\ D.own[result] \in {0, -1}

(* The only reference the operation has is given up.                       *)
Freed(S, E, v) == /\ Same(S, E, {v}) /\ E.own[v] = 0 /\ E.items = S.items

LEMMA LastRuns ==
    ASSUME NEW K, NEW S \in Heaps, NEW v \in Values, S.own[v] = 1
    PROVE  \E E \in Heaps : Run(K, Dec(v), S, E) /\ Freed(S, E, v)
<1>1. S.own[v] >= 1
  OBVIOUS
<1>2. PICK E \in Heaps : /\ Run(K, Dec(v), S, E)
                         /\ Same(S, E, {v}) /\ E.own[v] = S.own[v] - 1
                         /\ E.items = S.items
  BY <1>1, DecRuns
<1>3. E.own[v] = 0
  BY <1>2
<1>4. Freed(S, E, v)
  BY <1>2, <1>3 DEF Freed
<1>5. QED
  BY <1>2, <1>4

LEMMA WrapRuns ==
    ASSUME Reading, NEW M \in Heaps, Lent(M),
           NEW result \in Values, NEW wrapped \in Values,
           result[3] = "result", wrapped[3] = "wrapped",
           M.own[result] = -1, M.own[wrapped] = -1,
           NEW answer, Answers(M, answer, Returns(M, result))
    PROVE  \E D \in Heaps :
               /\ Run(DOMAIN refs,
                      (answer.steps \o New(wrapped))
                      \o IF answer.result = NoValue THEN <<>>
                         ELSE (Inc(answer.result)
                               \o MoveInto(wrapped, answer.result))
                              \o Dec(answer.result), M, D)
               /\ Wrap(M, D, result, wrapped)
<1> DEFINE K == DOMAIN refs
<1>1. PICK s, x : /\ answer = Answer(s, x)
                  /\ \E E \in Heaps : Run(K, s, M, E) /\ <<x, E>> \in Returns(M, result)
  BY DEF Answers
<1>2. PICK A \in Heaps : Run(K, s, M, A) /\ <<x, A>> \in Returns(M, result)
  BY <1>1
<1>3. answer.steps = s /\ answer.result = x
  BY <1>1, AnswerIs
<1>4. Returned(M, A, x, result)
  <2>1. <<x, A>>[1] = x /\ <<x, A>>[2] = A
    OBVIOUS
  <2>2. QED
    BY <1>2, <2>1 DEF Returns
<1> HIDE DEF K
<1>5. wrapped # x /\ wrapped # result /\ NoValue \notin Values
  BY <1>4, MethodsValue DEF Returned
<1>6. A.own[wrapped] = -1
  BY <1>4, <1>5 DEF Returned
<1>7. PICK B \in Heaps : /\ Run(K, New(wrapped), A, B)
                         /\ Same(A, B, {wrapped}) /\ B.own[wrapped] = 1
                         /\ B.items[wrapped] = <<>>
  BY <1>6, NewRuns
<1>8. Run(K, s \o New(wrapped), M, B)
  BY <1>2, <1>7, RunCat
<1>9. CASE x = NoValue
  <2>1. Run(K, (s \o New(wrapped)) \o <<>>, M, B)
    <3>1. Run(K, <<>>, B, B)
      BY RunNil
    <3>2. QED
      BY <1>8, <3>1, RunCat
  <2>2. A = M
    BY <1>4, <1>5, <1>9 DEF Returned
  <2>3. Same(M, B, {result, wrapped}) /\ B.own[result] = -1
    BY <1>5, <1>7, <2>2 DEF Same
  <2>4. QED
    BY <1>3, <1>7, <1>9, <2>1, <2>3 DEF Wrap, K
<1>10. CASE x # NoValue
  <2>1. /\ x = result \/ (x \in DOMAIN refs /\ x[3] = "help")
        /\ x \in Values /\ A.stale = M.stale
        /\ A.own[x] = IF x = result THEN 1 ELSE M.own[x] + 1
        /\ x # result => A.items[x] = M.items[x]
        /\ \A u \in Values : u # x => A.own[u] = M.own[u] /\ A.items[u] = M.items[u]
    BY <1>4, <1>10 DEF Returned
  <2>2. x # result => M.own[x] = 0
    BY <2>1 DEF Lent
  <2>3. A.own[x] = 1 /\ B.own[x] = 1
    BY <1>5, <1>7, <2>1, <2>2 DEF Same
  <2>4. PICK C \in Heaps : /\ Run(K, Inc(x), B, C)
                           /\ Same(B, C, {x}) /\ C.own[x] = B.own[x] + 1
                           /\ C.items = B.items
    <3>1. B.own[x] >= 1 \/ (B.own[x] = 0 /\ Held(K, B, x))
      BY <2>3
    <3>2. B \in Heaps /\ x \in Values
      BY <2>1
    <3>3. QED
      BY ONLY ZenonT(40), <3>1, <3>2, IncRuns
  <2>5. C.own[x] = 2 /\ C.own[wrapped] = 1
    BY <1>5, <1>7, <2>3, <2>4 DEF Same
  <2>6. PICK D \in Heaps : /\ Run(K, MoveInto(wrapped, x), C, D)
                           /\ Moved(C, D, wrapped, x)
    <3>1. /\ C.own[x] >= 1 /\ C.own[wrapped] >= 1
      BY <2>5
    <3>2. Fits(x, wrapped)
      BY <2>1 DEF Fits
    <3>3. QED
      BY <1>5, <2>1, <3>1, <3>2, MoveRuns
  <2>7. D.own[x] = 1 /\ D.own[wrapped] = 1 /\ D.items = C.items
    <3>1. ~Tracked(wrapped)
      BY DEF Tracked
    <3>2. QED
      BY <2>5, <2>6, <3>1 DEF Moved
  <2>8. PICK E \in Heaps : Run(K, Dec(x), D, E) /\ Freed(D, E, x)
    <3>1. x \in Values /\ D.own[x] = 1
      BY <2>1, <2>7
    <3>2. QED
      BY <3>1, LastRuns
  <2>9. E.own[x] = 0 /\ E.own[wrapped] = 1
    BY <1>5, <2>7, <2>8 DEF Same, Freed
  <2>10. Run(K, (s \o New(wrapped)) \o ((Inc(x) \o MoveInto(wrapped, x)) \o Dec(x)),
             M, E)
    <3>1. Run(K, Inc(x) \o MoveInto(wrapped, x), B, D)
      BY <2>4, <2>6, RunCat
    <3>2. Run(K, (Inc(x) \o MoveInto(wrapped, x)) \o Dec(x), B, E)
      BY <2>8, <3>1, RunCat
    <3>3. QED
      BY <1>8, <3>2, RunCat
  <2>11. /\ E.stale = M.stale
         /\ \A u \in Values : u # x /\ u # wrapped =>
                E.own[u] = M.own[u] /\ E.items[u] = M.items[u]
    BY <1>7, <2>1, <2>4, <2>6, <2>7, <2>8 DEF Same, Moved, Freed
  <2>12. x # result => E.own[x] = M.own[x] /\ E.items[x] = M.items[x]
    <3> SUFFICES ASSUME x # result
                 PROVE  E.own[x] = M.own[x] /\ E.items[x] = M.items[x]
      OBVIOUS
    <3>1. B.items[x] = A.items[x]
      BY <1>5, <1>7, <2>1 DEF Same
    <3>2. E.items[x] = B.items[x]
      BY <2>4, <2>7, <2>8 DEF Freed
    <3>3. QED
      BY <2>1, <2>2, <2>9, <3>1, <3>2
  <2>13. Same(M, E, {result, wrapped})
    BY <2>11, <2>12 DEF Same
  <2>14. E.own[result] \in {0, -1}
    <3>1. CASE x = result
      BY <2>9, <3>1
    <3>2. CASE x # result
      BY <1>5, <2>11, <3>2
    <3>3. QED
      BY <3>1, <3>2
  <2>15. QED
    BY <1>3, <1>10, <2>9, <2>10, <2>13, <2>14 DEF Wrap, K
<1>11. QED
  BY <1>9, <1>10

(* A multicall that has made its first i calls.                            *)
Calling(t, i) ==
    {E \in Heaps :
        /\ Lent(E)
        /\ E.own[Part(t, 0, "results")] = 1
        /\ \A u \in Values :
               u[3] \in ResultParts /\ u # Part(t, 0, "results") =>
                   E.own[u] \in {0, -1}
        /\ \A j \in Nat : j > i => /\ E.own[Part(t, j, "wrapped")] = -1
                                   /\ E.own[Part(t, j, "result")] = -1}

LEMMA CallValues ==
    ASSUME NEW t \in Names
    PROVE  /\ Part(t, 0, "results") \in Values
           /\ Part(t, 0, "results")[3] = "results"
           /\ \A i \in Nat :
                  /\ Part(t, i, "wrapped") \in Values
                  /\ Part(t, i, "result") \in Values
                  /\ Part(t, i, "wrapped")[3] = "wrapped"
                  /\ Part(t, i, "result")[3] = "result"
                  /\ Part(t, i, "wrapped")[2] = i
                  /\ Part(t, i, "result")[2] = i
                  /\ Part(t, i, "wrapped") # Part(t, 0, "results")
                  /\ Part(t, i, "result") # Part(t, 0, "results")
                  /\ Part(t, i, "wrapped") # Part(t, i, "result")
                  /\ Fits(Part(t, i, "wrapped"), Part(t, 0, "results"))
<1>1. {"results", "wrapped", "result"} \subseteq Parts
  BY DEF Parts
<1>2. Part(t, 0, "results") \in Values
  BY <1>1, PartValues
<1>3. ASSUME NEW i \in Nat
      PROVE  Part(t, i, "wrapped") \in Values /\ Part(t, i, "result") \in Values
  BY <1>1, PartValues
<1>4. \A i \in Nat : /\ Part(t, i, "wrapped")[3] = "wrapped"
                     /\ Part(t, i, "result")[3] = "result"
                     /\ Part(t, i, "wrapped")[2] = i
                     /\ Part(t, i, "result")[2] = i
  BY PartIs
<1>5. Part(t, 0, "results")[3] = "results"
  BY PartIs
<1>6. \A i \in Nat : Fits(Part(t, i, "wrapped"), Part(t, 0, "results"))
  BY <1>4, <1>5 DEF Fits
<1>7. \A i \in Nat : /\ Part(t, i, "wrapped") # Part(t, 0, "results")
                     /\ Part(t, i, "result") # Part(t, 0, "results")
                     /\ Part(t, i, "wrapped") # Part(t, i, "result")
  BY ONLY <1>4, <1>5
<1>8. QED
  BY <1>2, <1>3, <1>4, <1>5, <1>6, <1>7

(* What has been wrapped is appended to the results.                       *)
LEMMA KeepRuns ==
    ASSUME Reading, NEW t \in Names, NEW i \in Nat, i >= 1,
           NEW M \in Calling(t, i - 1), NEW D \in Heaps,
           Wrap(M, D, Part(t, i, "result"), Part(t, i, "wrapped"))
    PROVE  \E E \in Calling(t, i) :
               Run(DOMAIN refs,
                   MoveInto(Part(t, 0, "results"), Part(t, i, "wrapped")), D, E)
<1> DEFINE results == Part(t, 0, "results")
           wrapped == Part(t, i, "wrapped")
           result == Part(t, i, "result")
           K == DOMAIN refs
<1>1. /\ results \in Values /\ wrapped \in Values /\ result \in Values
      /\ wrapped # results /\ result # results /\ wrapped # result
      /\ wrapped[3] = "wrapped" /\ result[3] = "result" /\ results[3] = "results"
      /\ Fits(wrapped, results)
  BY CallValues
<1>2. /\ M \in Heaps /\ Lent(M) /\ M.own[results] = 1
      /\ \A u \in Values : u[3] \in ResultParts /\ u # results =>
                               M.own[u] \in {0, -1}
      /\ \A j \in Nat : j > i - 1 => /\ M.own[Part(t, j, "wrapped")] = -1
                                     /\ M.own[Part(t, j, "result")] = -1
  BY DEF Calling
<1>3. ASSUME NEW j \in Nat, j > i
      PROVE  /\ Part(t, j, "wrapped") \in Values /\ Part(t, j, "result") \in Values
             /\ Part(t, j, "wrapped") \notin {results, wrapped, result}
             /\ Part(t, j, "result") \notin {results, wrapped, result}
             /\ M.own[Part(t, j, "wrapped")] = -1
             /\ M.own[Part(t, j, "result")] = -1
  <2>1. /\ Part(t, j, "wrapped") \in Values /\ Part(t, j, "result") \in Values
        /\ Part(t, j, "wrapped")[2] = j /\ Part(t, j, "result")[2] = j
        /\ Part(t, j, "wrapped")[3] = "wrapped" /\ Part(t, j, "result")[3] = "result"
    BY CallValues
  <2>2. j > i - 1 /\ j # i
    BY <1>3
  <2>3. wrapped[2] = i /\ result[2] = i
    BY CallValues
  <2>4. /\ M.own[Part(t, j, "wrapped")] = -1 /\ M.own[Part(t, j, "result")] = -1
    BY <1>2, <2>2
  <2> HIDE DEF results, wrapped, result
  <2>5. /\ Part(t, j, "wrapped") # wrapped /\ Part(t, j, "wrapped") # result
        /\ Part(t, j, "result") # wrapped /\ Part(t, j, "result") # result
    BY ONLY <2>1, <2>2, <2>3
  <2>6. Part(t, j, "wrapped") # results /\ Part(t, j, "result") # results
    BY ONLY <2>1, <1>1
  <2>7. QED
    BY <2>1, <2>4, <2>5, <2>6
<1>14. M.own[result] = -1 /\ M.own[wrapped] = -1
  <2>1. i > i - 1
    OBVIOUS
  <2>2. QED
    BY <1>2, <2>1
<1> HIDE DEF results, wrapped, result, K
<1>4. Wrap(M, D, result, wrapped)
  BY DEF result, wrapped
<1>5. /\ Same(M, D, {result, wrapped}) /\ D.own[wrapped] = 1
      /\ D.own[result] \in {0, -1}
  BY <1>4 DEF Wrap
<1>6. D.own[results] = 1
  BY <1>1, <1>2, <1>5 DEF Same
<1>7. PICK E \in Heaps : /\ Run(K, MoveInto(results, wrapped), D, E)
                         /\ Moved(D, E, results, wrapped)
  <2>1. D.own[wrapped] >= 1 /\ D.own[results] >= 1
    BY <1>5, <1>6
  <2>2. QED
    BY <1>1, <2>1, MoveRuns
<1>8. ~Tracked(results)
  BY <1>1 DEF Tracked
<1>9. /\ Same(D, E, {results, wrapped}) /\ E.own[wrapped] = 0
      /\ E.own[results] = 1 /\ E.items = D.items
  BY <1>5, <1>6, <1>7, <1>8 DEF Moved
<1>10. /\ E.stale = M.stale
       /\ \A u \in Values : u \notin {results, wrapped, result} =>
              E.own[u] = M.own[u] /\ E.items[u] = M.items[u]
       /\ E.own[result] = D.own[result]
  BY <1>1, <1>5, <1>9 DEF Same
<1>11. \A u \in DOMAIN refs : u \in Values /\ u \notin {results, wrapped, result}
  <2>1. \A u \in DOMAIN refs : u \in Values /\ u[3] \notin ResultParts
    BY ReadingFacts
  <2>2. {"results", "wrapped", "result"} \subseteq ResultParts
    BY DEF ResultParts
  <2>3. QED
    BY <1>1, <2>1, <2>2
<1>12. Lent(E)
  <2>1. \A u \in DOMAIN refs : E.own[u] = 0 /\ E.items[u] = kids[u]
    BY <1>2, <1>10, <1>11 DEF Lent
  <2>2. \A u \in Values \ DOMAIN refs : E.own[u] # -1 => u[3] \in ResultParts
    <3> SUFFICES ASSUME NEW u \in Values \ DOMAIN refs, E.own[u] # -1
                 PROVE  u[3] \in ResultParts
      OBVIOUS
    <3>1. CASE u \in {results, wrapped, result}
      BY <1>1, <3>1 DEF ResultParts
    <3>2. CASE u \notin {results, wrapped, result}
      BY <1>2, <1>10, <3>2 DEF Lent
    <3>3. QED
      BY <3>1, <3>2
  <2>3. E.stale = {}
    BY <1>2, <1>10 DEF Lent
  <2>4. QED
    BY <2>1, <2>2, <2>3 DEF Lent
<1>13. E \in Calling(t, i)
  <2>1. \A u \in Values : u[3] \in ResultParts /\ u # results => E.own[u] \in {0, -1}
    <3> SUFFICES ASSUME NEW u \in Values, u[3] \in ResultParts, u # results
                 PROVE  E.own[u] \in {0, -1}
      OBVIOUS
    <3>1. CASE u = wrapped
      BY <1>9, <3>1
    <3>2. CASE u = result
      BY <1>5, <1>10, <3>2
    <3>3. CASE u \notin {results, wrapped, result}
      BY <1>2, <1>10, <3>3
    <3>4. QED
      BY <3>1, <3>2, <3>3
  <2>2. \A j \in Nat : j > i => /\ E.own[Part(t, j, "wrapped")] = -1
                                /\ E.own[Part(t, j, "result")] = -1
    BY <1>3, <1>10
  <2>3. QED
    BY <1>9, <1>12, <2>1, <2>2 DEF Calling, results
<1>15. QED
  BY <1>7, <1>13 DEF K, results, wrapped

LEMMA CallRuns ==
    ASSUME Reading, NEW t \in Names, NEW i \in Nat, i >= 1,
           NEW M \in Calling(t, i - 1), NEW call
    PROVE  LET wrapped == Part(t, i, "wrapped")
               answer == DispatchCall(call, Part(t, i, "result"))
           IN  \E E \in Calling(t, i) :
                   Run(DOMAIN refs,
                       (IF call.name = "system.multicall" THEN New(wrapped)
                        ELSE answer.steps \o New(wrapped)
                             \o IF answer.result = NoValue THEN <<>>
                                ELSE Inc(answer.result)
                                     \o MoveInto(wrapped, answer.result)
                                     \o Dec(answer.result))
                       \o MoveInto(Part(t, 0, "results"), wrapped), M, E)
<1> DEFINE wrapped == Part(t, i, "wrapped")
           result == Part(t, i, "result")
           answer == DispatchCall(call, result)
           One == IF call.name = "system.multicall" THEN New(wrapped)
                  ELSE answer.steps \o New(wrapped)
                       \o IF answer.result = NoValue THEN <<>>
                          ELSE Inc(answer.result)
                               \o MoveInto(wrapped, answer.result)
                               \o Dec(answer.result)
           K == DOMAIN refs
<1>1. /\ wrapped \in Values /\ result \in Values /\ wrapped # result
      /\ wrapped[3] = "wrapped" /\ result[3] = "result"
  BY CallValues
<1>2. /\ M \in Heaps /\ Lent(M) /\ M.own[result] = -1 /\ M.own[wrapped] = -1
  <2>1. i > i - 1
    OBVIOUS
  <2>2. QED
    BY <2>1 DEF Calling
<1>3. \E D \in Heaps : Run(K, One, M, D) /\ Wrap(M, D, result, wrapped)
  <2>1. CASE call.name = "system.multicall"
    <3> HIDE DEF wrapped, result
    <3>1. PICK D \in Heaps : /\ Run(K, New(wrapped), M, D)
                             /\ Same(M, D, {wrapped}) /\ D.own[wrapped] = 1
      BY <1>1, <1>2, NewRuns
    <3>2. Same(M, D, {result, wrapped}) /\ D.own[result] = -1
      BY <1>1, <1>2, <3>1 DEF Same
    <3>3. Wrap(M, D, result, wrapped)
      BY <3>1, <3>2 DEF Wrap
    <3>4. One = New(wrapped)
      BY <2>1
    <3>5. QED
      BY <3>1, <3>3, <3>4
  <2>2. CASE call.name # "system.multicall"
    <3>1. Answers(M, answer, Returns(M, result))
      BY <1>1, <1>2, DispatchAnswers
    <3> HIDE DEF wrapped, result, answer
    <3>2. \E D \in Heaps :
              /\ Run(DOMAIN refs,
                      (answer.steps \o New(wrapped))
                      \o IF answer.result = NoValue THEN <<>>
                         ELSE (Inc(answer.result)
                               \o MoveInto(wrapped, answer.result))
                              \o Dec(answer.result), M, D)
              /\ Wrap(M, D, result, wrapped)
      BY <1>1, <1>2, <3>1, WrapRuns
    <3>3. QED
      BY <2>2, <3>2
  <2>3. QED
    BY <2>1, <2>2
<1> HIDE DEF One
<1>4. PICK D \in Heaps : Run(K, One, M, D) /\ Wrap(M, D, result, wrapped)
  BY <1>3
<1>5. PICK E \in Calling(t, i) :
          Run(K, MoveInto(Part(t, 0, "results"), wrapped), D, E)
  BY <1>4, KeepRuns
<1> HIDE DEF wrapped
<1>6. Run(K, One \o MoveInto(Part(t, 0, "results"), wrapped), M, E)
  BY <1>4, <1>5, RunCat
<1>7. QED
  BY <1>6 DEF One, wrapped

(* The heap a request begins with.                                         *)
Begun(S) == Lent(S) /\ \A u \in Values \ DOMAIN refs : S.own[u] = -1

LEMMA CallingFrom ==
    ASSUME Reading, NEW t \in Names, NEW S \in Heaps, Begun(S), NEW E \in Heaps,
           Same(S, E, {Part(t, 0, "results")}), E.own[Part(t, 0, "results")] = 1
    PROVE  \A i \in Nat : E \in Calling(t, i)
<1> DEFINE results == Part(t, 0, "results")
<1>1. results \in Values /\ results[3] = "results" /\ results[3] \in ResultParts
  BY CallValues DEF ResultParts
<1>2. \A u \in Values : u[3] \in ResultParts => S.own[u] = -1
  BY ReadingFacts DEF Begun
<1>3. Lent(S)
  BY DEF Begun
<1>4. S.own[results] = -1
  BY <1>1, <1>2
<1> HIDE DEF results
<1>5. Same(S, E, {results}) /\ E.own[results] = 1
  BY DEF results
<1>6. Lent(E)
  BY <1>1, <1>3, <1>4, <1>5, LentNew
<1>7. \A u \in Values : u[3] \in ResultParts /\ u # results => E.own[u] = -1
  BY <1>2, <1>5 DEF Same
<1>8. ASSUME NEW j \in Nat
      PROVE  /\ E.own[Part(t, j, "wrapped")] = -1
             /\ E.own[Part(t, j, "result")] = -1
  <2>1. /\ Part(t, j, "wrapped") \in Values /\ Part(t, j, "result") \in Values
        /\ Part(t, j, "wrapped")[3] = "wrapped" /\ Part(t, j, "result")[3] = "result"
        /\ Part(t, j, "wrapped") # results /\ Part(t, j, "result") # results
    BY CallValues DEF results
  <2>2. "wrapped" \in ResultParts /\ "result" \in ResultParts
    BY DEF ResultParts
  <2>3. QED
    BY <1>7, <2>1, <2>2
<1>9. QED
  BY <1>5, <1>6, <1>7, <1>8 DEF Calling, results

(* What a request leaves: its result, if any, and nothing else of its own  *)
(* that it still has a reference to.                                       *)
Replied(E, x) ==
    /\ E.stale = {}
    /\ x \in Values => E.own[x] = 1
    /\ \A u \in Values : u # x => E.own[u] \in {0, -1}
    /\ \A u \in DOMAIN refs : E.items[u] = kids[u]
    /\ \A u \in Values \ DOMAIN refs : E.own[u] # -1 => u[3] \in ResultParts

Replies == {p \in (Values \union {NoValue}) \X Heaps : Replied(p[2], p[1])}

LEMMA CallingReplied ==
    ASSUME Reading, NEW t \in Names, NEW i \in Nat, NEW E \in Calling(t, i)
    PROVE  <<Part(t, 0, "results"), E>> \in Replies
<1> DEFINE results == Part(t, 0, "results")
<1>1. results \in Values
  BY CallValues
<1> HIDE DEF results
<1>2. /\ E \in Heaps /\ Lent(E) /\ E.own[results] = 1
      /\ \A u \in Values : u[3] \in ResultParts /\ u # results =>
             E.own[u] \in {0, -1}
  BY DEF Calling, results
<1>3. \A u \in Values : u # results => E.own[u] \in {0, -1}
  <2> SUFFICES ASSUME NEW u \in Values, u # results PROVE E.own[u] \in {0, -1}
    OBVIOUS
  <2>1. CASE u \in DOMAIN refs
    BY <1>2, <2>1 DEF Lent
  <2>2. CASE u \notin DOMAIN refs
    BY <1>2, <2>2 DEF Lent
  <2>3. QED
    BY <2>1, <2>2
<1>4. Replied(E, results)
  BY <1>2, <1>3 DEF Replied, Lent
<1> DEFINE p == <<results, E>>
<1>5. p \in (Values \union {NoValue}) \X Heaps /\ p[1] = results /\ p[2] = E
  BY <1>1, <1>2
<1> HIDE DEF p
<1>6. p \in Replies
  BY <1>4, <1>5 DEF Replies
<1>7. QED
  BY <1>6 DEF p, results

LEMMA ReturnedReplied ==
    ASSUME Reading, NEW S \in Heaps, Begun(S), NEW result \in Values,
           result \notin DOMAIN refs, result[3] = "result"
    PROVE  Returns(S, result) \subseteq Replies
<1> SUFFICES ASSUME NEW p \in Returns(S, result) PROVE p \in Replies
  OBVIOUS
<1>1. PICK x, E : p = <<x, E>> /\ x = p[1] /\ E = p[2]
  BY DEF Returns
<1>2. /\ x \in Values \union {NoValue} /\ E \in Heaps /\ Returned(S, E, x, result)
      /\ p \in (Values \union {NoValue}) \X Heaps
  BY <1>1 DEF Returns
<1>3. Lent(S) /\ \A u \in Values \ DOMAIN refs : S.own[u] = -1
  BY DEF Begun
<1>4. \A u \in Values : S.own[u] \in {0, -1}
  BY <1>3 DEF Lent
<1>5. "result" \in ResultParts
  BY DEF ResultParts
<1>6. Replied(E, x)
  <2>1. CASE x = NoValue /\ E = S
    BY <1>3, <1>4, <2>1, MethodsValue DEF Replied, Lent
  <2>2. CASE /\ x = result \/ (x \in DOMAIN refs /\ x[3] = "help")
             /\ x \in Values /\ E.stale = S.stale
             /\ E.own[x] = IF x = result THEN 1 ELSE S.own[x] + 1
             /\ x # result => E.items[x] = S.items[x]
             /\ \A u \in Values : u # x => E.own[u] = S.own[u]
                                           /\ E.items[u] = S.items[u]
    <3>1. \A u \in Values : u # x => E.own[u] \in {0, -1}
      BY <1>4, <2>2
    <3>2. E.own[x] = 1
      <4>1. CASE x = result
        BY <2>2, <4>1
      <4>2. CASE x # result
        <5>1. S.own[x] = 0
          BY <1>3, <2>2, <4>2 DEF Lent
        <5>2. E.own[x] = S.own[x] + 1
          BY <2>2, <4>2
        <5>3. QED
          BY <5>1, <5>2
      <4>3. QED
        BY <4>1, <4>2
    <3>3. \A u \in DOMAIN refs : u \in Values /\ E.items[u] = S.items[u]
      <4> SUFFICES ASSUME NEW u \in DOMAIN refs
                   PROVE  u \in Values /\ E.items[u] = S.items[u]
        OBVIOUS
      <4>1. u \in Values /\ u # result
        BY ReadingFacts
      <4>2. QED
        BY <2>2, <4>1
    <3>4. \A u \in DOMAIN refs : E.items[u] = kids[u]
      BY <1>3, <3>3 DEF Lent
    <3>5. \A u \in Values \ DOMAIN refs : E.own[u] # -1 => u[3] \in ResultParts
      <4> SUFFICES ASSUME NEW u \in Values \ DOMAIN refs, E.own[u] # -1
                   PROVE  u[3] \in ResultParts
        OBVIOUS
      <4>1. u = x
        BY <1>3, <2>2
      <4>2. u = result
        BY <2>2, <4>1
      <4>3. QED
        BY <1>5, <4>2
    <3>6. E.stale = {}
      BY <1>3, <2>2 DEF Lent
    <3>7. QED
      BY <3>1, <3>2, <3>4, <3>5, <3>6 DEF Replied
  <2>3. QED
    BY <1>2, <2>1, <2>2 DEF Returned
<1>7. QED
  BY <1>1, <1>2, <1>6 DEF Replies

LEMMA MulticallAnswers ==
    ASSUME Reading, NEW t \in Names, NEW S \in Heaps, Begun(S),
           NEW calls \in Seq(Calls)
    PROVE  Answers(S, Multicall(t, calls), Replies)
<1> DEFINE results == Part(t, 0, "results")
           K == DOMAIN refs
           One(i) ==
               LET wrapped == Part(t, i, "wrapped")
                   answer == DispatchCall(calls[i], Part(t, i, "result"))
               IN  IF calls[i].name = "system.multicall"
                   THEN New(wrapped)
                   ELSE answer.steps \o New(wrapped)
                        \o IF answer.result = NoValue THEN <<>>
                           ELSE Inc(answer.result)
                                \o MoveInto(wrapped, answer.result)
                                \o Dec(answer.result)
           Each(i) == One(i) \o MoveInto(results, Part(t, i, "wrapped"))
           ss == [i \in DOMAIN calls |-> Each(i)]
           info == InfoOf("system.multicall")
           s == ParsePair(info) \o New(results) \o FlattenSeq(ss)
<1>1. Multicall(t, calls) = Answer(s, results)
  BY DEF Multicall
<1>2. \A i \in Nat \ {0} : \A M \in Calling(t, i - 1) : \E E \in Calling(t, i) :
          Run(K, Each(i), M, E)
  <2> SUFFICES ASSUME NEW i \in Nat \ {0}, NEW M \in Calling(t, i - 1)
               PROVE  \E E \in Calling(t, i) : Run(K, Each(i), M, E)
    OBVIOUS
  <2>1. i \in Nat /\ i >= 1
    OBVIOUS
  <2>2. QED
    BY <2>1, CallRuns
<1> HIDE DEF One
<1>3. results \in Values /\ results[3] = "results" /\ results[3] \in ResultParts
  BY CallValues DEF ResultParts
<1>4. S.own[results] = -1 /\ Lent(S)
  BY <1>3, ReadingFacts DEF Begun
<1>5. info \in DOMAIN refs /\ info[3] = "info"
  <2>1. /\ Rest(refs, kids, roots, 5) /\ Methods \in DOMAIN refs
    BY ReadingFacts
  <2>2. SystemMethods[4] = "system.multicall"
    BY DEF SystemMethods
  <2>3. Registered("system.multicall")
    <3>1. \A j \in 1..5 : Registered(SystemMethods[j])
      BY <2>1, RegisteredAre
    <3>2. QED
      BY <2>2, <3>1
  <2>4. QED
    BY <2>3, InfoHolds
<1> HIDE DEF results, info
<1>6. Run(K, ParsePair(info), S, S)
  BY <1>4, <1>5, ParsePairRuns
<1>7. PICK M \in Heaps : /\ Run(K, New(results), S, M)
                         /\ Same(S, M, {results}) /\ M.own[results] = 1
  BY <1>3, <1>4, NewRuns
<1>8. \A i \in Nat : M \in Calling(t, i)
  BY <1>7, CallingFrom DEF results
<1>9. Len(calls) \in Nat /\ DOMAIN calls = 1..Len(calls)
  OBVIOUS
<1> HIDE DEF K
<1>10. \A i \in 1..Len(calls) : Each(i) \in Seq(Steps)
  <2> SUFFICES ASSUME NEW i \in 1..Len(calls) PROVE Each(i) \in Seq(Steps)
    OBVIOUS
  <2>1. i \in Nat \ {0} /\ i - 1 \in Nat
    BY <1>9
  <2>2. PICK E \in Calling(t, i) : Run(K, Each(i), M, E)
    BY <1>2, <1>8, <2>1
  <2> HIDE DEF Each
  <2>3. QED
    BY <2>2, RunInHeaps
<1>11. /\ ss \in Seq(Seq(Steps)) /\ Len(ss) = Len(calls)
       /\ \A i \in 1..Len(ss) : ss[i] = Each(i)
  BY <1>9, <1>10
<1> HIDE DEF ss, Each
<1> DEFINE P == [i \in Nat |-> Calling(t, i)]
<1>12. \A i \in Nat : P[i] = Calling(t, i)
  OBVIOUS
<1> HIDE DEF P
<1>13. \A i \in 1..Len(ss) : \A A \in P[i - 1] : \E E \in P[i] : Run(K, ss[i], A, E)
  <2> SUFFICES ASSUME NEW i \in 1..Len(ss), NEW A \in P[i - 1]
               PROVE  \E E \in P[i] : Run(K, ss[i], A, E)
    OBVIOUS
  <2>1. i \in Nat \ {0} /\ i - 1 \in Nat /\ i \in Nat
    BY <1>9, <1>11
  <2>2. A \in Calling(t, i - 1)
    BY <1>12, <2>1
  <2>3. PICK E \in Calling(t, i) : Run(K, Each(i), A, E)
    BY <1>2, <2>1, <2>2
  <2>4. ss[i] = Each(i) /\ E \in P[i]
    BY <1>11, <1>12, <2>1
  <2>5. QED
    BY <2>3, <2>4
<1>14. M \in P[0] /\ P[0] \subseteq Heaps
  BY <1>8, <1>12 DEF Calling
<1>15. PICK E \in P[Len(ss)] : Run(K, FlattenSeq(ss), M, E)
  BY <1>11, <1>13, <1>14, RunFlatten
<1>16. Len(ss) \in Nat /\ E \in Calling(t, Len(ss))
  BY <1>9, <1>11, <1>12, <1>15
<1>17. Run(K, (ParsePair(info) \o New(results)) \o FlattenSeq(ss), S, E)
  <2>1. Run(K, ParsePair(info) \o New(results), S, M)
    BY <1>6, <1>7, RunCat
  <2>2. QED
    BY <1>15, <2>1, RunCat
<1>18. <<results, E>> \in Replies
  BY <1>16, CallingReplied DEF results
<1>19. Run(K, s, S, E)
  BY <1>17
<1>20. E \in Heaps
  BY <1>16 DEF Calling
<1> HIDE DEF s
<1>21. QED
  BY <1>1, <1>18, <1>19, <1>20 DEF Answers, K

(* xmlrpc_registry_process_call: the result, if any, is released.          *)
LEMMA ReleaseRuns ==
    ASSUME Reading, NEW E \in Heaps, NEW x, <<x, E>> \in Replies
    PROVE  \E D \in Heaps :
               /\ Run(DOMAIN refs, IF x = NoValue THEN <<>> ELSE Dec(x), E, D)
               /\ Settled(D, 5)
<1>1. Replied(E, x) /\ x \in Values \union {NoValue}
  <2> DEFINE p == <<x, E>>
  <2>1. p[1] = x /\ p[2] = E
    OBVIOUS
  <2> HIDE DEF p
  <2>2. p \in Replies
    BY DEF p
  <2>3. QED
    BY <2>1, <2>2 DEF Replies
<1>2. PICK D \in Heaps :
          /\ Run(DOMAIN refs, IF x = NoValue THEN <<>> ELSE Dec(x), E, D)
          /\ D.stale = E.stale /\ D.items = E.items
          /\ x \in Values => D.own[x] = 0
          /\ \A u \in Values : u # x => D.own[u] = E.own[u]
  <2>1. CASE x = NoValue
    <3>1. Run(DOMAIN refs, <<>>, E, E)
      BY RunNil
    <3>2. QED
      BY <2>1, <3>1, MethodsValue
  <2>2. CASE x # NoValue
    <3>1. x \in Values
      BY <1>1, <2>2
    <3>2. E.own[x] = 1
      BY <1>1, <3>1 DEF Replied
    <3>3. PICK D \in Heaps : Run(DOMAIN refs, Dec(x), E, D) /\ Freed(E, D, x)
      BY <3>1, <3>2, LastRuns
    <3>4. QED
      BY <2>2, <3>3 DEF Same, Freed
  <2>3. QED
    BY <2>1, <2>2
<1>3. /\ D.stale = {} /\ \A u \in DOMAIN refs : D.items[u] = kids[u]
      /\ \A u \in Values : D.own[u] \in {0, -1}
  BY <1>1, <1>2 DEF Replied
<1>4. ASSUME NEW u \in Values \ DOMAIN refs, D.own[u] = 0
      PROVE  u[3] # "info" /\ u # Methods
  <2>1. E.own[u] # -1
    BY <1>1, <1>2, <1>4 DEF Replied
  <2>2. u[3] \in ResultParts
    BY <1>1, <2>1 DEF Replied
  <2>3. QED
    BY <2>2, ReadingFacts DEF ResultParts
<1>5. Rest(refs, kids, roots, 5) /\ Methods \in DOMAIN refs
      /\ DOMAIN refs \subseteq Values
  BY ReadingFacts
<1>6. \A u \in Values : D.own[u] = 0 => Shaped(u, D.items[u])
  <2> SUFFICES ASSUME NEW u \in Values, D.own[u] = 0
               PROVE  Shaped(u, D.items[u])
    OBVIOUS
  <2>1. CASE u \in DOMAIN refs
    BY <1>3, <1>5, <2>1 DEF Rest
  <2>2. CASE u \notin DOMAIN refs
    BY <1>4, <2>2 DEF Shaped
  <2>3. QED
    BY <2>1, <2>2
<1>7. Members(D.items[Methods], 5)
  BY <1>3, <1>5 DEF Rest
<1>8. Settled(D, 5)
  BY <1>3, <1>6, <1>7 DEF Settled
<1>9. QED
  BY <1>2, <1>8

LEMMA ProcessCallRuns ==
    ASSUME Reading, NEW t \in Names, NEW request \in Requests
    PROVE  \E E \in Heaps :
               /\ Run(DOMAIN refs, ProcessCallSteps(t, request),
                      Start(refs, kids, roots, {}), E)
               /\ Settled(E, 5)
<1> DEFINE S == Start(refs, kids, roots, {})
           result == Part(t, 0, "result")
           answer == IF request.multi
                     THEN Preinvoked(request.refused, Multicall(t, request.calls))
                     ELSE DispatchCall(request.calls[1], result)
<1>1. Rest(refs, kids, roots, 5) /\ DOMAIN refs \subseteq Values
  BY ReadingFacts
<1>2. /\ S \in Heaps /\ S.stale = {}
      /\ \A u \in Values : u \notin DOMAIN refs => S.own[u] = -1
      /\ \A u \in DOMAIN refs : S.own[u] = 0 /\ S.items[u] = kids[u]
  BY <1>1, RestShaped
<1> HIDE DEF S
<1>3. Begun(S) /\ Lent(S)
  BY <1>2 DEF Begun, Lent
<1>4. /\ result \in Values /\ result[3] = "result" /\ result[3] \in ResultParts
  BY CallValues DEF ResultParts
<1>5. result \notin DOMAIN refs /\ S.own[result] = -1
  BY <1>2, <1>4, ReadingFacts
<1> HIDE DEF result
<1>6. Answers(S, answer, Replies)
  <2>1. CASE request.multi
    <3>1. request.calls \in Seq(Calls)
      BY RequestsKnown
    <3>2. Answers(S, Multicall(t, request.calls), Replies)
      BY <1>2, <1>3, <3>1, MulticallAnswers
    <3>3. <<NoValue, S>> \in Replies
      <4>1. <<NoValue, S>> \in Returns(S, result)
        BY <1>2, NothingReturned
      <4>2. QED
        BY <1>2, <1>3, <1>4, <1>5, <4>1, ReturnedReplied
    <3>4. Answers(S, Preinvoked(request.refused, Multicall(t, request.calls)), Replies)
      BY <1>2, <1>3, <3>2, <3>3, PreinvokedAnswers
    <3>5. QED
      BY <2>1, <3>4
  <2>2. CASE ~request.multi
    <3>1. Answers(S, DispatchCall(request.calls[1], result), Returns(S, result))
      BY <1>2, <1>3, <1>4, <1>5, DispatchAnswers
    <3>2. Returns(S, result) \subseteq Replies
      BY <1>2, <1>3, <1>4, <1>5, ReturnedReplied
    <3> DEFINE a == DispatchCall(request.calls[1], result)
    <3>3. Answers(S, a, Replies)
      BY <3>1, <3>2 DEF Answers
    <3>4. QED
      BY <2>2, <3>3
  <2>3. QED
    BY <2>1, <2>2
<1>7. ProcessCallSteps(t, request) =
          answer.steps \o IF answer.result = NoValue THEN <<>> ELSE Dec(answer.result)
  BY DEF ProcessCallSteps, result
<1> HIDE DEF answer
<1>8. PICK s, x : /\ answer = Answer(s, x)
                  /\ \E E \in Heaps : Run(DOMAIN refs, s, S, E)
                                      /\ <<x, E>> \in Replies
  BY <1>6 DEF Answers
<1>9. PICK M \in Heaps : Run(DOMAIN refs, s, S, M) /\ <<x, M>> \in Replies
  BY <1>8
<1>10. answer.steps = s /\ answer.result = x
  BY <1>8, AnswerIs
<1>11. PICK E \in Heaps :
           /\ Run(DOMAIN refs, IF x = NoValue THEN <<>> ELSE Dec(x), M, E)
           /\ Settled(E, 5)
  BY <1>9, ReleaseRuns
<1>12. Run(DOMAIN refs, s \o IF x = NoValue THEN <<>> ELSE Dec(x), S, E)
  BY <1>9, <1>11, RunCat
<1>13. QED
  BY <1>7, <1>10, <1>11, <1>12 DEF S
-----------------------------------------------------------------------------
(* The invariant: what is left of the running operation runs to a registry *)
(* at rest, with the system methods that are still to be installed after   *)
(* it.                                                                     *)
Installs(n) == [i \in 1..(5 - n) |-> <<"install", SystemMethods[n + i]>>]

(* st, ch and r stand for stage, changing and roots.                       *)
Fine(st, ch, r, S, n) ==
    /\ n # 5 => ch /\ st = "up"
    /\ ~ch => S.stale = {}
    /\ S.stale = RootNames => n = 5 /\ st = "up"
    /\ st = "up" /\ "methods" \notin S.stale => r["methods"] = Methods
    /\ st # "up" => S.stale = {} /\ \A which \in RootNames : r[which] = NoValue

Underway(list, rf, k, r, st, ch, K, A, n, S, E) ==
    /\ n \in 0..5
    /\ list = A \o Installs(n)
    /\ Agrees(rf, k, r, S, K)
    /\ Run(K, A, S, E)
    /\ Settled(E, n)
    /\ Fine(st, ch, r, S, n)

Going(list, rf, k, r, st, ch) ==
    \E K, A, n, S, E : Underway(list, rf, k, r, st, ch, K, A, n, S, E)

SystemNames == {SystemMethods[i] : i \in 1..5}

LEMMA InstallsAre ==
    /\ \A n \in 0..5 : Installs(n) \in Seq({"install"} \X SystemNames)
                       /\ Len(Installs(n)) = 5 - n
    /\ \A n \in 0..4 : /\ Installs(n) # <<>>
                       /\ Installs(n)[1] = <<"install", SystemMethods[n + 1]>>
                       /\ Tail(Installs(n)) = Installs(n + 1)
    /\ Installs(5) = <<>>
    /\ Installs(0) = [i \in DOMAIN SystemMethods |-> <<"install", SystemMethods[i]>>]
<1>1. DOMAIN SystemMethods = 1..5 /\ \A i \in 1..5 : SystemMethods[i] \in SystemNames
  <2>1. DOMAIN SystemMethods = 1..5
    BY DEF SystemMethods
  <2>2. \A i \in 1..5 : SystemMethods[i] \in SystemNames
    BY DEF SystemNames
  <2>3. QED
    BY <2>1, <2>2
<1>2. ASSUME NEW n \in 0..5
      PROVE  /\ Installs(n) \in Seq({"install"} \X SystemNames)
             /\ Len(Installs(n)) = 5 - n
             /\ \A i \in 1..(5 - n) : Installs(n)[i] = <<"install", SystemMethods[n + i]>>
  <2>1. 5 - n \in Nat
    OBVIOUS
  <2>2. \A i \in 1..(5 - n) : n + i \in 1..5
    OBVIOUS
  <2>3. \A i \in 1..(5 - n) : <<"install", SystemMethods[n + i]>> \in {"install"} \X SystemNames
    BY <1>1, <2>2
  <2>4. Installs(n) \in [1..(5 - n) -> {"install"} \X SystemNames]
    BY <2>3 DEF Installs
  <2>5. Installs(n) \in Seq({"install"} \X SystemNames)
    BY <2>1, <2>4
  <2>6. DOMAIN Installs(n) = 1..(5 - n)
    BY DEF Installs
  <2>7. Len(Installs(n)) = 5 - n
    BY <2>1, <2>5, <2>6
  <2>8. QED
    BY <2>5, <2>7 DEF Installs
<1>3. ASSUME NEW n \in 0..4
      PROVE  /\ Installs(n) # <<>>
             /\ Installs(n)[1] = <<"install", SystemMethods[n + 1]>>
             /\ Tail(Installs(n)) = Installs(n + 1)
  <2>1. n \in 0..5 /\ n + 1 \in 0..5 /\ 1 \in 1..(5 - n) /\ 5 - n # 0
    OBVIOUS
  <2>2. Installs(n) # <<>>
    BY <1>2, <2>1
  <2>3. Installs(n)[1] = <<"install", SystemMethods[n + 1]>>
    BY <1>2, <2>1
  <2> DEFINE q == Installs(n)
             p == Installs(n + 1)
             T == {"install"} \X SystemNames
  <2>4. /\ q \in Seq(T) /\ Len(q) = 5 - n /\ p \in Seq(T) /\ Len(p) = 5 - (n + 1)
    BY <1>2, <2>1
  <2>5. \A i \in 1..(5 - (n + 1)) : p[i] = q[i + 1]
    <3> SUFFICES ASSUME NEW i \in 1..(5 - (n + 1)) PROVE p[i] = q[i + 1]
      OBVIOUS
    <3>1. /\ i + 1 \in 1..(5 - n) /\ n + (i + 1) = (n + 1) + i
      OBVIOUS
    <3>2. p[i] = <<"install", SystemMethods[(n + 1) + i]>>
      BY <1>2, <2>1
    <3>3. q[i + 1] = <<"install", SystemMethods[n + (i + 1)]>>
      BY <1>2, <2>1, <3>1
    <3>4. QED
      BY <3>1, <3>2, <3>3
  <2> HIDE DEF p, q, T
  <2>6. Tail(q) \in Seq(T) /\ Len(Tail(q)) = 5 - (n + 1)
        /\ \A i \in 1..(5 - (n + 1)) : Tail(q)[i] = q[i + 1]
    BY <2>1, <2>4
  <2>7. Tail(q) = p
    BY <2>4, <2>5, <2>6
  <2>8. QED
    BY <2>2, <2>3, <2>7 DEF p, q
<1>4. Installs(5) = <<>>
  <2>1. Installs(5) \in Seq({"install"} \X SystemNames) /\ Len(Installs(5)) = 0
    BY <1>2
  <2>2. QED
    BY <2>1
<1>5. Installs(0) = [i \in DOMAIN SystemMethods |-> <<"install", SystemMethods[i]>>]
  <2>1. Installs(0) = [i \in 1..5 |-> <<"install", SystemMethods[0 + i]>>]
    BY DEF Installs
  <2>2. \A i \in 1..5 : 0 + i = i
    OBVIOUS
  <2>3. QED
    BY <1>1, <2>1, <2>2
<1>6. QED
  BY <1>2, <1>3, <1>4, <1>5

LEMMA ConcatTail ==
    ASSUME NEW T, NEW a \in Seq(T), NEW b \in Seq(T), a # <<>>
    PROVE  /\ (a \o b)[1] = a[1]
           /\ Tail(a \o b) = Tail(a) \o b
<1> DEFINE p == Tail(a \o b)
           q == Tail(a) \o b
<1>1. Len(a) \in Nat /\ Len(b) \in Nat /\ Len(a) >= 1
  OBVIOUS
<1>2. (a \o b)[1] = a[1] /\ (a \o b) \in Seq(T) /\ Len(a \o b) = Len(a) + Len(b)
  BY <1>1
<1>3. p \in Seq(T) /\ Len(p) = (Len(a) + Len(b)) - 1
  BY <1>1, <1>2
<1>4. Tail(a) \in Seq(T) /\ Len(Tail(a)) = Len(a) - 1
  BY <1>1
<1>5. q \in Seq(T) /\ Len(q) = (Len(a) - 1) + Len(b)
  BY <1>4
<1>6. ASSUME NEW i \in 1..((Len(a) + Len(b)) - 1) PROVE p[i] = q[i]
  <2>1. p[i] = (a \o b)[i + 1] /\ i + 1 \in 1..(Len(a) + Len(b))
    BY <1>1, <1>2
  <2>2. CASE i + 1 <= Len(a)
    <3>1. (a \o b)[i + 1] = a[i + 1]
      BY <1>1, <2>1, <2>2
    <3>2. q[i] = Tail(a)[i] /\ Tail(a)[i] = a[i + 1]
      BY <1>1, <1>4, <2>2
    <3>3. QED
      BY <2>1, <3>1, <3>2
  <2>3. CASE ~(i + 1 <= Len(a))
    <3>1. (a \o b)[i + 1] = b[(i + 1) - Len(a)]
      BY <1>1, <2>1, <2>3
    <3>2. q[i] = b[i - (Len(a) - 1)]
      BY <1>1, <1>4, <2>3
    <3>3. i - (Len(a) - 1) = (i + 1) - Len(a)
      BY <1>1
    <3>4. QED
      BY <2>1, <3>1, <3>2, <3>3
  <2>4. QED
    BY <2>2, <2>3
<1> HIDE DEF p, q
<1>7. (Len(a) + Len(b)) - 1 = (Len(a) - 1) + Len(b)
  BY <1>1
<1>8. p = q
  BY <1>3, <1>5, <1>6, <1>7
<1>9. QED
  BY <1>2, <1>8 DEF p, q

(* An operation begins.                                                    *)
LEMMA GoingStart ==
    ASSUME NEW rf, NEW k, NEW r, NEW m, Rest(rf, k, r, m),
           NEW stale \in SUBSET RootNames, NEW K, Kept(k, r, stale, K),
           NEW A, NEW E, Run(K, A, Start(rf, k, r, stale), E),
           NEW n \in 0..5, Settled(E, n), NEW st, NEW ch,
           Fine(st, ch, r, Start(rf, k, r, stale), n)
    PROVE  Going(A \o Installs(n), rf, k, r, st, ch)
<1>1. Agrees(rf, k, r, Start(rf, k, r, stale), K)
  BY StartAgrees
<1>2. Underway(A \o Installs(n), rf, k, r, st, ch, K, A, n,
               Start(rf, k, r, stale), E)
  BY <1>1 DEF Underway
<1>3. QED
  BY <1>2 DEF Going

(* One that leaves all system methods installed.                           *)
LEMMA GoingAll ==
    ASSUME NEW rf, NEW k, NEW r, NEW m, Rest(rf, k, r, m),
           NEW stale \in SUBSET RootNames, NEW K, Kept(k, r, stale, K),
           NEW A, NEW E, Run(K, A, Start(rf, k, r, stale), E),
           Settled(E, 5), NEW st, NEW ch,
           Fine(st, ch, r, Start(rf, k, r, stale), 5)
    PROVE  Going(A, rf, k, r, st, ch)
<1>1. A \in Seq(Steps)
  BY RunInHeaps
<1>2. A \o <<>> = A
  BY <1>1
<1>3. Going(A \o Installs(5), rf, k, r, st, ch)
  BY GoingStart
<1>4. QED
  BY <1>2, <1>3, InstallsAre

(* Nothing is left before the system methods still to be installed.        *)
LEMMA UnderwayRest ==
    ASSUME NEW rf, NEW k, NEW r, NEW st, NEW ch, NEW list, NEW K, NEW n, NEW S, NEW E,
           Underway(list, rf, k, r, st, ch, K, <<>>, n, S, E)
    PROVE  /\ Rest(rf, k, r, n) /\ S.stale = {} /\ list = Installs(n)
           /\ st = "up" => r["methods"] = Methods /\ Methods \in DOMAIN rf
           /\ st # "up" => \A which \in RootNames : r[which] = NoValue
<1>1. S = E /\ S \in Heaps
  <2>1. PICK f \in [0..Len(<<>>) -> Heaps] : f[0] = S /\ f[Len(<<>>)] = E
    BY DEF Underway, Run
  <2>2. Len(<<>>) = 0
    OBVIOUS
  <2>3. QED
    BY <2>1, <2>2
<1>2. Rest(rf, k, r, n) /\ S.stale = {}
  BY <1>1, SettledRest DEF Underway, Settled
<1>3. list = Installs(n)
  <2>1. Installs(n) \in Seq({"install"} \X SystemNames)
    BY InstallsAre DEF Underway
  <2>2. <<>> \o Installs(n) = Installs(n)
    BY <2>1
  <2>3. QED
    BY <2>2 DEF Underway
<1>4. st = "up" => r["methods"] = Methods
  BY <1>2 DEF Underway, Fine
<1>5. r["methods"] = Methods => Methods \in DOMAIN rf
  BY <1>2, RootsLive, MethodsValue DEF RootNames
<1>6. st # "up" => \A which \in RootNames : r[which] = NoValue
  BY DEF Underway, Fine
<1>7. QED
  BY <1>2, <1>3, <1>4, <1>5, <1>6

LEMMA GoingIdle ==
    ASSUME NEW rf, NEW k, NEW r, NEW st, NEW ch, Going(<<>>, rf, k, r, st, ch)
    PROVE  /\ Rest(rf, k, r, 5)
           /\ st = "up" => r["methods"] = Methods /\ Methods \in DOMAIN rf
           /\ st # "up" => \A which \in RootNames : r[which] = NoValue
           /\ Going(<<>>, rf, k, r, st, TRUE)
<1>1. PICK K, A, n, S, E : Underway(<<>>, rf, k, r, st, ch, K, A, n, S, E)
  BY DEF Going
<1>2. /\ n \in 0..5 /\ <<>> = A \o Installs(n) /\ Run(K, A, S, E)
  BY <1>1 DEF Underway
<1>3. A \in Seq(Steps)
  BY <1>2, RunInHeaps
<1>4. A = <<>> /\ n = 5
  <2>1. Installs(n) \in Seq({"install"} \X SystemNames) /\ Len(Installs(n)) = 5 - n
    BY <1>2, InstallsAre
  <2>2. Len(A \o Installs(n)) = Len(A) + Len(Installs(n))
    <3> DEFINE q == Installs(n)
               U == {"install"} \X SystemNames
               T == Steps \union U
    <3>1. q \in Seq(U)
      BY <2>1
    <3> HIDE DEF q, U
    <3>2. q \in Seq(T) /\ A \in Seq(T)
      BY <1>3, <3>1
    <3> HIDE DEF T
    <3>3. Len(A \o q) = Len(A) + Len(q)
      BY <3>2
    <3>4. QED
      BY <3>3 DEF q
  <2>3. Len(A) + Len(Installs(n)) = 0
    BY <1>2, <2>2
  <2>4. Len(A) \in Nat
    BY <1>3
  <2>5. Len(A) = 0 /\ 5 - n = 0
    BY ONLY <1>2, <2>1, <2>3, <2>4
  <2>6. QED
    BY <1>2, <1>3, <2>5
<1>5. Underway(<<>>, rf, k, r, st, ch, K, <<>>, 5, S, E)
  BY <1>1, <1>4
<1>6. Underway(<<>>, rf, k, r, st, TRUE, K, <<>>, 5, S, E)
  BY <1>5 DEF Underway, Fine
<1>7. Going(<<>>, rf, k, r, st, TRUE)
  BY <1>6 DEF Going
<1>8. /\ Rest(rf, k, r, 5)
      /\ st = "up" => r["methods"] = Methods /\ Methods \in DOMAIN rf
      /\ st # "up" => \A which \in RootNames : r[which] = NoValue
  BY <1>5, UnderwayRest
<1>9. QED
  BY <1>7, <1>8

(* A step of the list, other than an installation.                         *)
Onward(list, rf, k, r, st, ch, K, B, n, S, M, E) ==
    /\ S \in Heaps /\ M \in Heaps /\ n \in 0..5
    /\ list[1] \in Steps /\ B \in Seq(Steps) /\ Tail(list) = B \o Installs(n)
    /\ Agrees(rf, k, r, S, K)
    /\ Does(K, list[1], S, M)
    /\ Run(K, B, M, E)
    /\ Settled(E, n)
    /\ Fine(st, ch, r, S, n)

LEMMA GoingOn ==
    ASSUME NEW list, NEW rf, NEW k, NEW r, NEW st, NEW ch,
           Going(list, rf, k, r, st, ch), list # <<>>
    PROVE  \/ \E K, B, n, S, M, E :
                  Onward(list, rf, k, r, st, ch, K, B, n, S, M, E)
           \/ \E n \in 0..4 :
                  /\ list[1] = <<"install", SystemMethods[n + 1]>>
                  /\ Tail(list) = Installs(n + 1)
                  /\ Rest(rf, k, r, n) /\ Methods \in DOMAIN rf
                  /\ r["methods"] = Methods /\ st = "up" /\ ch
<1>1. PICK K, A, n, S, E : Underway(list, rf, k, r, st, ch, K, A, n, S, E)
  BY DEF Going
<1>2. /\ n \in 0..5 /\ list = A \o Installs(n) /\ Run(K, A, S, E)
  BY <1>1 DEF Underway
<1>3. A \in Seq(Steps) /\ S \in Heaps /\ E \in Heaps
  BY <1>2, RunInHeaps
<1>4. CASE A = <<>>
  <2>1. Underway(list, rf, k, r, st, ch, K, <<>>, n, S, E)
    BY <1>1, <1>4
  <2>2. list = Installs(n) /\ Rest(rf, k, r, n)
    BY <2>1, UnderwayRest
  <2>3. n # 5
    BY <2>2, InstallsAre
  <2>4. n \in 0..4
    BY <1>2, <2>3
  <2>5. st = "up" /\ ch
    BY <1>1, <2>3 DEF Underway, Fine
  <2>6. Methods \in DOMAIN rf /\ r["methods"] = Methods
    BY <2>1, <2>5, UnderwayRest
  <2>7. QED
    BY <2>2, <2>4, <2>5, <2>6, InstallsAre
<1>5. CASE A # <<>>
  <2>1. A[1] \in Steps
        /\ \E M \in Heaps : Does(K, A[1], S, M) /\ Run(K, Tail(A), M, E)
    BY <1>2, <1>5, RunTail
  <2>2. PICK M \in Heaps : Does(K, A[1], S, M) /\ Run(K, Tail(A), M, E)
    BY <2>1
  <2>3. Tail(A) \in Seq(Steps)
    BY <2>2, RunInHeaps
  <2>4. list[1] = A[1] /\ Tail(list) = Tail(A) \o Installs(n)
    <3> DEFINE q == Installs(n)
               T == Steps \union ({"install"} \X SystemNames)
    <3>1. q \in Seq(T)
      <4>1. q \in Seq({"install"} \X SystemNames)
        BY <1>2, InstallsAre
      <4> HIDE DEF q
      <4>2. QED
        BY <4>1
    <3>2. A \in Seq(T)
      BY <1>3
    <3>3. list = A \o q
      BY <1>2
    <3> HIDE DEF q, T
    <3>4. QED
      BY <1>5, <3>1, <3>2, <3>3, ConcatTail DEF q
  <2>5. Onward(list, rf, k, r, st, ch, K, Tail(A), n, S, M, E)
    BY <1>1, <1>3, <2>1, <2>2, <2>3, <2>4 DEF Onward, Underway
  <2>6. QED
    BY <2>5
<1>6. QED
  BY <1>4, <1>5

(* The state takes the step: the rest is under way.                        *)
LEMMA GoingAfter ==
    ASSUME NEW list, NEW rf, NEW k, NEW r, NEW st, NEW ch, NEW K, NEW B, NEW n,
           NEW S, NEW M, NEW E,
           Onward(list, rf, k, r, st, ch, K, B, n, S, M, E),
           NEW rf2, NEW k2, NEW r2, NEW st2,
           Agrees(rf2, k2, r2, M, K), Fine(st2, ch, r2, M, n)
    PROVE  Going(Tail(list), rf2, k2, r2, st2, ch)
<1>1. Underway(Tail(list), rf2, k2, r2, st2, ch, K, B, n, M, E)
  BY DEF Onward, Underway
<1>2. QED
  BY <1>1 DEF Going

LEMMA FineStays ==
    ASSUME NEW st, NEW ch, NEW r, NEW S, NEW n, Fine(st, ch, r, S, n),
           NEW M, M.stale = S.stale
    PROVE  Fine(st, ch, r, M, n)
BY DEF Fine
-----------------------------------------------------------------------------
(* The operations, as they begin.                                          *)

LEMMA AddMethodGoes ==
    ASSUME NEW n \in 0..5, Rest(refs, kids, roots, n), Methods \in DOMAIN refs,
           roots["methods"] = Methods, NEW name \in Names,
           NEW signature \in [count : Nat, bad : BOOLEAN],
           NEW m \in {n, n + 1}, m \in 0..5,
           m # n => ~signature.bad /\ name = SystemMethods[n + 1]
    PROVE  Going(AddMethodSteps(name, signature) \o Installs(m),
                 refs, kids, roots, "up", TRUE)
<1> DEFINE S == Start(refs, kids, roots, {})
           A == AddMethodSteps(name, signature)
<1>1. PICK E \in Heaps : /\ Run({Methods}, A, S, E) /\ Settled(E, n)
                         /\ ~signature.bad => Has(E.items[Methods], name)
  BY AddMethodRuns
<1>2. S.stale = {}
  BY RestShaped
<1> HIDE DEF A
<1>3. Settled(E, m)
  <2>1. CASE m = n
    BY <1>1, <2>1
  <2>2. CASE m # n
    <3>1. m = n + 1 /\ n \in Nat /\ Has(E.items[Methods], SystemMethods[n + 1])
      BY <1>1, <2>2
    <3>2. E.own[Methods] = 0 => Members(E.items[Methods], n)
      BY <1>1 DEF Settled
    <3>3. E.own[Methods] = 0 => Members(E.items[Methods], n + 1)
      BY <3>1, <3>2, MembersMore
    <3>4. QED
      BY <1>1, <3>1, <3>3 DEF Settled
  <2>3. QED
    BY <2>1, <2>2
<1>4. Kept(kids, roots, {}, {Methods})
  BY KeptMethods
<1>5. Fine("up", TRUE, roots, S, m)
  BY <1>2 DEF Fine, RootNames
<1>6. Going(A \o Installs(m), refs, kids, roots, "up", TRUE)
  BY <1>1, <1>3, <1>4, <1>5, GoingStart
<1>7. QED
  BY <1>6 DEF A

LEMMA SetRootGoes ==
    ASSUME Rest(refs, kids, roots, 5), roots["methods"] = Methods,
           NEW which \in {"default", "preinvoke"}
    PROVE  Going(SetRootSteps(which), refs, kids, roots, "up", TRUE)
<1> DEFINE S == Start(refs, kids, roots, {which})
<1>1. PICK E \in Heaps : Run({}, SetRootSteps(which), S, E) /\ Settled(E, 5)
  BY SetRootRuns
<1>2. {which} \in SUBSET RootNames /\ {which} # RootNames
  BY DEF RootNames
<1>3. S.stale = {which}
  BY <1>2, StartShaped
<1>4. Kept(kids, roots, {which}, {})
  BY KeptNone
<1>5. Fine("up", TRUE, roots, S, 5)
  BY <1>2, <1>3 DEF Fine
<1>6. QED
  BY <1>1, <1>2, <1>4, <1>5, GoingAll

LEMMA FreeGoes ==
    ASSUME Rest(refs, kids, roots, 5), roots["methods"] = Methods
    PROVE  Going(FreeSteps, refs, kids, roots, "up", TRUE)
<1> DEFINE S == Start(refs, kids, roots, RootNames)
<1>1. PICK E \in Heaps : Run({}, FreeSteps, S, E) /\ Settled(E, 5)
  BY FreeRuns
<1>2. RootNames \in SUBSET RootNames /\ "methods" \in RootNames
  BY DEF RootNames
<1>3. S.stale = RootNames
  BY <1>2, StartShaped
<1>4. Kept(kids, roots, RootNames, {})
  BY KeptNone
<1>5. Fine("up", TRUE, roots, S, 5)
  BY <1>2, <1>3 DEF Fine
<1>6. QED
  BY <1>1, <1>2, <1>4, <1>5, GoingAll

LEMMA ProcessCallGoes ==
    ASSUME Rest(refs, kids, roots, 5), roots["methods"] = Methods,
           NEW t \in Names, NEW request \in Requests
    PROVE  Going(ProcessCallSteps(t, request), refs, kids, roots, "up", FALSE)
<1> DEFINE S == Start(refs, kids, roots, {})
<1>1. PICK E \in Heaps : /\ Run(DOMAIN refs, ProcessCallSteps(t, request), S, E)
                         /\ Settled(E, 5)
  BY ProcessCallRuns DEF Reading
<1>2. {} \in SUBSET RootNames /\ {} # RootNames
  BY DEF RootNames
<1>3. S.stale = {}
  BY RestShaped
<1>4. Kept(kids, roots, {}, DOMAIN refs)
  BY KeptAll
<1>5. Fine("up", FALSE, roots, S, 5)
  BY <1>2, <1>3 DEF Fine
<1>6. QED
  BY <1>1, <1>2, <1>4, <1>5, GoingAll

LEMMA NewGoes ==
    ASSUME Rest(refs, kids, roots, 5), \A which \in RootNames : roots[which] = NoValue
    PROVE  Going((New(Methods) \o << <<"root", Methods, "methods">> >>) \o Installs(0),
                 refs, kids, roots, "up", TRUE)
<1> DEFINE S == Start(refs, kids, roots, {"methods"})
           A == New(Methods) \o << <<"root", Methods, "methods">> >>
<1>1. DOMAIN refs = {}
  BY EmptyAtRest
<1>2. PICK E \in Heaps : Run({}, A, S, E) /\ Settled(E, 0)
  BY <1>1, NewRegistryRuns
<1>3. {"methods"} \in SUBSET RootNames /\ {"methods"} # RootNames
  BY DEF RootNames
<1>4. S.stale = {"methods"}
  BY <1>3, StartShaped
<1>5. Kept(kids, roots, {"methods"}, {})
  BY KeptNone
<1> HIDE DEF A
<1>6. Fine("up", TRUE, roots, S, 0)
  BY <1>3, <1>4 DEF Fine
<1>7. Going(A \o Installs(0), refs, kids, roots, "up", TRUE)
  <2>1. 0 \in 0..5
    OBVIOUS
  <2>2. QED
    BY <1>2, <1>3, <1>5, <1>6, <2>1, GoingStart
<1>8. QED
  BY <1>7 DEF A

LEMMA NothingGoes ==
    ASSUME NEW r \in [RootNames -> {NoValue}]
    PROVE  Going(<<>>, <<>>, <<>>, r, "none", FALSE)
<1> DEFINE e == <<>>
<1>1. DOMAIN e = {} /\ e \in [DOMAIN e -> Nat \ {0}] /\ e \in [DOMAIN e -> Seq(Values)]
  OBVIOUS
<1> HIDE DEF e
<1>2. Contents(e)
  BY <1>1, FS_EmptySet DEF Contents
<1>3. \A v : Places(e, v) = {}
  <2> SUFFICES ASSUME NEW v, NEW p \in Places(e, v) PROVE FALSE
    OBVIOUS
  <2>1. p[1] \in DOMAIN e
    BY PlacesAre
  <2>2. QED
    BY <1>1, <2>1
<1>4. \A which \in RootNames : r[which] = NoValue
  OBVIOUS
<1>5. \A v \in Values : RootPlaces(r, {}, v) = {}
  BY <1>4, MethodsValue DEF RootPlaces
<1>6. Sound(e, e, r)
  BY <1>1, <1>2, <1>4 DEF Sound
<1>7. Rest(e, e, r, 5)
  BY <1>1, <1>3, <1>5, <1>6 DEF Rest
<1> DEFINE S == Start(e, e, r, {})
<1>8. /\ S \in Heaps /\ S.stale = {}
      /\ \A u \in Values : S.own[u] = -1
  BY <1>1, <1>7, RestShaped
<1>9. Settled(S, 5)
  BY <1>8, MethodsValue DEF Settled
<1>10. Run({}, <<>>, S, S)
  BY <1>8, RunNil
<1>11. Kept(e, r, {}, {})
  BY KeptNone
<1>12. Fine("none", FALSE, r, S, 5)
  BY <1>4, <1>8 DEF Fine, RootNames
<1>13. Going(<<>>, e, e, r, "none", FALSE)
  BY <1>7, <1>9, <1>10, <1>11, <1>12, GoingAll
<1>14. QED
  BY <1>13 DEF e
-----------------------------------------------------------------------------
(* The steps, as they are taken.                                           *)

LEMMA StepParts ==
    ASSUME NEW step \in Steps
    PROVE  /\ step[1] \in {"new", "inc", "dec", "link", "member", "replace",
                           "root", "freed"}
           /\ step[1] \in {"new", "inc", "dec"} => step[2] \in Values
           /\ step[1] \in {"link", "member", "replace"} =>
                  step[2] \in Values /\ step[3] \in Values
           /\ step[1] = "root" => step[2] \in Values /\ step[3] \in RootNames
<1>1. CASE step \in {"new", "inc", "dec"} \X Values
  BY <1>1
<1>2. CASE step \in {"link", "member", "replace"} \X Values \X Values
  BY <1>2
<1>3. CASE step \in {"root"} \X Values \X RootNames
  BY <1>3
<1>4. CASE step = <<"freed", Methods>>
  BY <1>4
<1>5. QED
  BY <1>1, <1>2, <1>3, <1>4 DEF Steps

LEMMA GoingStep ==
    ASSUME NEW list, NEW rf, NEW k, NEW r, NEW st, NEW ch,
           Going(list, rf, k, r, st, ch), list # <<>>, list[1][1] # "install"
    PROVE  \E K, B, n, S, M, E :
               Onward(list, rf, k, r, st, ch, K, B, n, S, M, E)
<1>1. \A n \in 0..4 : list[1] # <<"install", SystemMethods[n + 1]>>
  OBVIOUS
<1>2. QED
  BY <1>1, GoingOn

LEMMA NewStep ==
    ASSUME NEW list, NEW rf, NEW k, NEW r, NEW st, NEW ch,
           Going(list, rf, k, r, st, ch), list # <<>>, list[1][1] = "new",
           NEW v, v = list[1][2]
    PROVE  Going(Tail(list), Put(rf, v, 1), Put(k, v, <<>>), r, st, ch)
<1>1. PICK K, B, n, S, M, E : Onward(list, rf, k, r, st, ch, K, B, n, S, M, E)
  BY GoingStep
<1>2. /\ list[1] \in Steps /\ Does(K, list[1], S, M) /\ S \in Heaps /\ M \in Heaps
      /\ Agrees(rf, k, r, S, K) /\ Fine(st, ch, r, S, n)
  BY <1>1 DEF Onward
<1>3. v \in Values /\ DoesNew(S, v, M)
  BY <1>2, StepParts DEF Does
<1>4. M.stale = S.stale
  BY <1>3, HeapParts DEF DoesNew
<1>5. Agrees(Put(rf, v, 1), Put(k, v, <<>>), r, M, K)
  BY <1>2, <1>3, StepNew
<1>6. QED
  BY <1>1, <1>2, <1>4, <1>5, FineStays, GoingAfter

(* "++" and "--" find the value they count.                                *)
LEMMA CountLive ==
    ASSUME NEW list, NEW rf, NEW k, NEW r, NEW st, NEW ch,
           Going(list, rf, k, r, st, ch), list # <<>>,
           list[1][1] \in {"inc", "dec"}
    PROVE  list[1][2] \in DOMAIN rf /\ rf[list[1][2]] \in Nat \ {0}
<1> DEFINE v == list[1][2]
<1>1. PICK K, B, n, S, M, E : Onward(list, rf, k, r, st, ch, K, B, n, S, M, E)
  BY GoingStep
<1>2. /\ list[1] \in Steps /\ Does(K, list[1], S, M) /\ S \in Heaps
      /\ Sound(rf, k, r) /\ Balanced(rf, k, r, S) /\ Kept(k, r, S.stale, K)
  BY <1>1 DEF Onward, Agrees
<1>3. v \in Values /\ (DoesInc(K, S, v, M) \/ DoesDec(S, v, M))
  BY <1>2, StepParts DEF Does
<1> HIDE DEF v
<1>4. S.own[v] >= 1 \/ Held(K, S, v)
  BY <1>3 DEF DoesInc, DoesDec
<1>5. v \in DOMAIN rf
  <2>1. CASE S.own[v] >= 1
    BY <1>2, <1>3, <2>1, OwnedLive
  <2>2. CASE Held(K, S, v)
    BY <1>2, <1>3, <2>2, KeptLive
  <2>3. QED
    BY <1>4, <2>1, <2>2
<1>6. rf[v] \in Nat \ {0}
  BY <1>2, <1>5 DEF Sound
<1>7. QED
  BY <1>5, <1>6 DEF v

LEMMA IncStep ==
    ASSUME NEW list, NEW rf, NEW k, NEW r, NEW st, NEW ch,
           Going(list, rf, k, r, st, ch), list # <<>>, list[1][1] = "inc",
           NEW v, v = list[1][2], v \in DOMAIN rf
    PROVE  Going(Tail(list), [rf EXCEPT ![v] = rf[v] + 1], k, r, st, ch)
<1>1. PICK K, B, n, S, M, E : Onward(list, rf, k, r, st, ch, K, B, n, S, M, E)
  BY GoingStep
<1>2. /\ list[1] \in Steps /\ Does(K, list[1], S, M) /\ S \in Heaps /\ M \in Heaps
      /\ Agrees(rf, k, r, S, K) /\ Fine(st, ch, r, S, n)
  BY <1>1 DEF Onward
<1>3. v \in Values /\ DoesInc(K, S, v, M)
  BY <1>2, StepParts DEF Does
<1>4. /\ M.stale = S.stale /\ M.items = S.items
      /\ M.own = [S.own EXCEPT ![v] = S.own[v] + 1] /\ S.own[v] >= 0
  <2>1. S.own[v] >= 1 \/ S.own[v] = 0
    BY <1>3 DEF DoesInc
  <2>2. S.own[v] \in Nat \union {-1}
    BY <1>2, <1>3, HeapFields
  <2>3. S.own[v] >= 0
    BY ONLY <2>1, <2>2
  <2>4. M = Heap([S.own EXCEPT ![v] = S.own[v] + 1], S.items, S.stale)
    BY <1>3 DEF DoesInc
  <2> DEFINE o == [S.own EXCEPT ![v] = S.own[v] + 1]
  <2>5. M = Heap(o, S.items, S.stale)
    BY <2>4
  <2> HIDE DEF o
  <2>6. M.own = o /\ M.items = S.items /\ M.stale = S.stale
    BY <2>5, HeapParts
  <2>7. QED
    BY <2>3, <2>6 DEF o
<1>5. S.own \in [Values -> Nat \union {-1}]
  BY <1>2, HeapFields
<1>6. rf[v] \in Nat
  BY <1>2 DEF Agrees, Sound
<1>7. S.own[v] \in Nat /\ M.own[v] = S.own[v] + 1
  BY <1>3, <1>4, <1>5
<1>8. /\ rf[v] + 1 \in Nat \ {0} /\ M.own[v] >= 0
      /\ (rf[v] + 1) - rf[v] = M.own[v] - S.own[v]
  BY ONLY <1>6, <1>7
<1>9. M.own = [S.own EXCEPT ![v] = M.own[v]]
  BY <1>4, <1>7
<1> DEFINE m == rf[v] + 1
<1>10. m \in Nat \ {0} /\ m - rf[v] = M.own[v] - S.own[v]
  BY <1>8
<1> HIDE DEF m
<1>11. Agrees([rf EXCEPT ![v] = m], k, r, M, K)
  BY <1>2, <1>3, <1>4, <1>8, <1>9, <1>10, StepCount
<1>12. Going(Tail(list), [rf EXCEPT ![v] = m], k, r, st, ch)
  BY <1>1, <1>2, <1>4, <1>11, FineStays, GoingAfter
<1>13. QED
  BY <1>12 DEF m

LEMMA DecStep ==
    ASSUME NEW list, NEW rf, NEW k, NEW r, NEW st, NEW ch,
           Going(list, rf, k, r, st, ch), list # <<>>, list[1][1] = "dec",
           NEW v, v = list[1][2], v \in DOMAIN rf, rf[v] > 1
    PROVE  Going(Tail(list), [rf EXCEPT ![v] = rf[v] - 1], k, r, st, ch)
<1>1. PICK K, B, n, S, M, E : Onward(list, rf, k, r, st, ch, K, B, n, S, M, E)
  BY GoingStep
<1>2. /\ list[1] \in Steps /\ Does(K, list[1], S, M) /\ S \in Heaps /\ M \in Heaps
      /\ Agrees(rf, k, r, S, K) /\ Fine(st, ch, r, S, n)
  BY <1>1 DEF Onward
<1>3. v \in Values /\ DoesDec(S, v, M)
  BY <1>2, StepParts DEF Does
<1>4. /\ M.stale = S.stale /\ M.items = S.items
      /\ M.own = [S.own EXCEPT ![v] = S.own[v] - 1] /\ S.own[v] >= 1
  BY <1>3, HeapParts DEF DoesDec
<1>5. S.own \in [Values -> Nat \union {-1}]
  BY <1>2, HeapFields
<1>6. rf[v] \in Nat
  BY <1>2 DEF Agrees, Sound
<1>7. S.own[v] \in Int /\ M.own[v] = S.own[v] - 1
  BY <1>3, <1>4, <1>5
<1>8. /\ rf[v] - 1 \in Nat \ {0} /\ M.own[v] >= 0
      /\ (rf[v] - 1) - rf[v] = M.own[v] - S.own[v]
  <2>1. S.own[v] >= 1 /\ rf[v] > 1
    BY <1>4
  <2>2. QED
    BY ONLY <1>6, <1>7, <2>1
<1>9. M.own = [S.own EXCEPT ![v] = M.own[v]]
  BY <1>4, <1>7
<1> DEFINE m == rf[v] - 1
<1>10. m \in Nat \ {0} /\ m - rf[v] = M.own[v] - S.own[v]
  BY <1>8
<1> HIDE DEF m
<1>11. Agrees([rf EXCEPT ![v] = m], k, r, M, K)
  BY <1>2, <1>3, <1>4, <1>8, <1>9, <1>10, StepCount
<1>12. Going(Tail(list), [rf EXCEPT ![v] = m], k, r, st, ch)
  BY <1>1, <1>2, <1>4, <1>11, FineStays, GoingAfter
<1>13. QED
  BY <1>12 DEF m

LEMMA DestroyStep ==
    ASSUME NEW list, NEW rf, NEW k, NEW r, NEW st, NEW ch,
           Going(list, rf, k, r, st, ch), list # <<>>, list[1][1] = "dec",
           NEW v, v = list[1][2], v \in DOMAIN rf, rf[v] = 1
    PROVE  Going(Released(k[v]) \o Tail(list),
                 [u \in DOMAIN rf \ {v} |-> rf[u]],
                 [u \in DOMAIN rf \ {v} |-> k[u]], r, st, ch)
<1> DEFINE rf2 == [u \in DOMAIN rf \ {v} |-> rf[u]]
           k2 == [u \in DOMAIN rf \ {v} |-> k[u]]
<1>1. PICK K, B, n, S, M, E : Onward(list, rf, k, r, st, ch, K, B, n, S, M, E)
  BY GoingStep
<1>2. /\ list[1] \in Steps /\ Does(K, list[1], S, M) /\ S \in Heaps /\ M \in Heaps
      /\ Agrees(rf, k, r, S, K) /\ Fine(st, ch, r, S, n)
      /\ Run(K, B, M, E) /\ B \in Seq(Steps) /\ Tail(list) = B \o Installs(n)
      /\ n \in 0..5 /\ Settled(E, n)
  BY <1>1 DEF Onward
<1>3. v \in Values /\ DoesDec(S, v, M)
  BY <1>2, StepParts DEF Does
<1>4. M.stale = S.stale
  BY <1>3, HeapParts DEF DoesDec
<1>5. PICK N \in Heaps : /\ Agrees(rf2, k2, r, N, K)
                         /\ Run(K, Released(k[v]), N, M)
                         /\ N.stale = M.stale
  <2>1. S \in Heaps /\ M \in Heaps /\ v \in Values
    BY <1>2, <1>3
  <2>2. Agrees(rf, k, r, S, K) /\ DoesDec(S, v, M)
    BY <1>2, <1>3
  <2>3. v \in DOMAIN rf /\ rf[v] = 1
    OBVIOUS
  <2>4. Destroyed(rf, k, r, K, M, v)
    BY ONLY <2>1, <2>2, <2>3, StepDestroy
  <2>5. QED
    BY ONLY <2>4 DEF rf2, k2, Destroyed
<1> HIDE DEF rf2, k2
<1>6. Run(K, Released(k[v]) \o B, N, E)
  BY <1>2, <1>5, RunCat
<1>7. Fine(st, ch, r, N, n)
  BY <1>2, <1>4, <1>5, FineStays
<1>8. Released(k[v]) \o Tail(list) = (Released(k[v]) \o B) \o Installs(n)
  <2> DEFINE a == Released(k[v])
             q == Installs(n)
             U == {"install"} \X SystemNames
             T == Steps \union U
  <2>1. a \in Seq(Steps)
    BY <1>5, RunInHeaps
  <2>2. q \in Seq(U)
    BY <1>2, InstallsAre
  <2> HIDE DEF a, q, U
  <2>3. a \in Seq(T) /\ B \in Seq(T) /\ q \in Seq(T)
    BY <1>2, <2>1, <2>2
  <2> HIDE DEF T
  <2>4. a \o (B \o q) = (a \o B) \o q
    BY <2>3
  <2>5. QED
    BY <1>2, <2>4 DEF a, q
<1>9. Underway(Released(k[v]) \o Tail(list), rf2, k2, r, st, ch, K,
               Released(k[v]) \o B, n, N, E)
  BY <1>2, <1>5, <1>6, <1>7, <1>8 DEF Underway
<1>10. QED
  BY <1>9 DEF Going, rf2, k2

LEMMA LinkStep ==
    ASSUME NEW list, NEW rf, NEW k, NEW r, NEW st, NEW ch,
           Going(list, rf, k, r, st, ch), list # <<>>, list[1][1] = "link",
           NEW v, v = list[1][2], NEW a, a = list[1][3]
    PROVE  Going(Tail(list), rf, [k EXCEPT ![a] = Append(k[a], v)], r, st, ch)
<1>1. PICK K, B, n, S, M, E : Onward(list, rf, k, r, st, ch, K, B, n, S, M, E)
  BY GoingStep
<1>2. /\ list[1] \in Steps /\ Does(K, list[1], S, M) /\ S \in Heaps /\ M \in Heaps
      /\ Agrees(rf, k, r, S, K) /\ Fine(st, ch, r, S, n)
  BY <1>1 DEF Onward
<1>3. v \in Values /\ a \in Values /\ DoesLink(S, v, a, M)
  BY <1>2, StepParts DEF Does
<1>4. /\ S.own[v] >= 1 /\ S.own[a] >= 1 /\ Fits(v, a)
      /\ M = Heap([S.own EXCEPT ![v] = S.own[v] - 1], Linked(S.items, a, v), S.stale)
  BY <1>3 DEF DoesLink, Linked
<1>5. a \in DOMAIN rf
  BY <1>2, <1>3, <1>4, OwnedLive DEF Agrees
<1>6. Agrees(rf, [k EXCEPT ![a] = Append(k[a], v)], r, M, K)
  BY <1>2, <1>3, <1>4, <1>5, StepLink
<1>7. M.stale = S.stale
  BY <1>4, HeapParts
<1>8. QED
  BY <1>1, <1>2, <1>6, <1>7, FineStays, GoingAfter

LEMMA MemberStep ==
    ASSUME NEW list, NEW rf, NEW k, NEW r, NEW st, NEW ch,
           Going(list, rf, k, r, st, ch), list # <<>>, list[1][1] = "member",
           NEW key, key = list[1][2], NEW info, info = list[1][3]
    PROVE  Going(Tail(list), rf,
                 [k EXCEPT ![Methods] = k[Methods] \o <<key, info>>], r, st, ch)
<1>1. PICK K, B, n, S, M, E : Onward(list, rf, k, r, st, ch, K, B, n, S, M, E)
  BY GoingStep
<1>2. /\ list[1] \in Steps /\ Does(K, list[1], S, M) /\ S \in Heaps /\ M \in Heaps
      /\ Agrees(rf, k, r, S, K) /\ Fine(st, ch, r, S, n)
  BY <1>1 DEF Onward
<1>3. key \in Values /\ info \in Values /\ DoesMember(K, S, key, info, M)
  BY <1>2, StepParts DEF Does
<1>4. M.stale = S.stale
  BY <1>3, HeapParts DEF DoesMember
<1>5. Agrees(rf, [k EXCEPT ![Methods] = k[Methods] \o <<key, info>>], r, M, K)
  BY <1>2, <1>3, StepMember
<1>6. QED
  BY <1>1, <1>2, <1>4, <1>5, FineStays, GoingAfter

LEMMA ReplaceStep ==
    ASSUME NEW list, NEW rf, NEW k, NEW r, NEW st, NEW ch,
           Going(list, rf, k, r, st, ch), list # <<>>, list[1][1] = "replace",
           NEW info, info = list[1][2], NEW old, old = list[1][3]
    PROVE  Going(Tail(list), rf,
                 [k EXCEPT ![Methods] = Swapped(k[Methods], old, info)], r, st, ch)
<1>1. PICK K, B, n, S, M, E : Onward(list, rf, k, r, st, ch, K, B, n, S, M, E)
  BY GoingStep
<1>2. /\ list[1] \in Steps /\ Does(K, list[1], S, M) /\ S \in Heaps /\ M \in Heaps
      /\ Agrees(rf, k, r, S, K) /\ Fine(st, ch, r, S, n)
  BY <1>1 DEF Onward
<1>3. info \in Values /\ old \in Values /\ DoesReplace(K, S, info, old, M)
  BY <1>2, StepParts DEF Does
<1>4. M.stale = S.stale
  BY <1>3, HeapParts DEF DoesReplace
<1>5. Agrees(rf, [k EXCEPT ![Methods] = Swapped(k[Methods], old, info)], r, M, K)
  BY <1>2, <1>3, StepReplace
<1>6. QED
  BY <1>1, <1>2, <1>4, <1>5, FineStays, GoingAfter

LEMMA RootStep ==
    ASSUME NEW list, NEW rf, NEW k, NEW r, NEW st, NEW ch,
           Going(list, rf, k, r, st, ch), list # <<>>, list[1][1] = "root",
           NEW v, v = list[1][2], NEW w, w = list[1][3]
    PROVE  Going(Tail(list), rf, k, [r EXCEPT ![w] = v], st, ch)
<1>1. PICK K, B, n, S, M, E : Onward(list, rf, k, r, st, ch, K, B, n, S, M, E)
  BY GoingStep
<1>2. /\ list[1] \in Steps /\ Does(K, list[1], S, M) /\ S \in Heaps /\ M \in Heaps
      /\ Agrees(rf, k, r, S, K) /\ Fine(st, ch, r, S, n)
  BY <1>1 DEF Onward
<1>3. v \in Values /\ w \in RootNames /\ DoesRoot(S, v, w, M)
  BY <1>2, StepParts DEF Does
<1>4. M.stale = S.stale \ {w} /\ w \in S.stale /\ FitsRoot(v, w)
  BY <1>3, HeapParts DEF DoesRoot
<1>5. Agrees(rf, k, [r EXCEPT ![w] = v], M, K)
  BY <1>2, <1>3, StepRoot
<1>6. r \in [RootNames -> Values \union {NoValue}]
  BY <1>2 DEF Agrees, Sound
<1>7. Fine(st, ch, [r EXCEPT ![w] = v], M, n)
  <2> DEFINE r2 == [r EXCEPT ![w] = v]
  <2>1. r2[w] = v /\ \A x \in RootNames : x # w => r2[x] = r[x]
    BY <1>3, <1>6
  <2> HIDE DEF r2
  <2>2. S.stale # {} /\ M.stale # RootNames
    BY <1>3, <1>4
  <2>3. ch /\ st = "up" /\ (n # 5 => ch /\ st = "up")
    BY <1>2, <2>2 DEF Fine
  <2>4. "methods" \notin M.stale => r2["methods"] = Methods
    <3>1. CASE w = "methods"
      BY <1>4, <2>1, <3>1 DEF FitsRoot
    <3>2. CASE w # "methods"
      <4>1. "methods" \in RootNames
        BY DEF RootNames
      <4>2. "methods" \notin M.stale => "methods" \notin S.stale
        BY <1>4, <3>2
      <4>3. r2["methods"] = r["methods"]
        BY <2>1, <3>2, <4>1
      <4>4. QED
        BY <1>2, <2>3, <4>2, <4>3 DEF Fine
    <3>3. QED
      BY <3>1, <3>2
  <2>5. Fine(st, ch, r2, M, n)
    BY <2>2, <2>3, <2>4 DEF Fine
  <2>6. QED
    BY <2>5 DEF r2
<1>8. QED
  BY <1>1, <1>5, <1>7, GoingAfter

LEMMA FreedStep ==
    ASSUME NEW list, NEW rf, NEW k, NEW r, NEW st, NEW ch,
           Going(list, rf, k, r, st, ch), list # <<>>, list[1][1] = "freed"
    PROVE  Going(Tail(list), rf, k, [which \in DOMAIN r |-> NoValue], "freed", ch)
<1>1. PICK K, B, n, S, M, E : Onward(list, rf, k, r, st, ch, K, B, n, S, M, E)
  BY GoingStep
<1>2. /\ list[1] \in Steps /\ Does(K, list[1], S, M) /\ S \in Heaps /\ M \in Heaps
      /\ Agrees(rf, k, r, S, K) /\ Fine(st, ch, r, S, n)
  BY <1>1 DEF Onward
<1>3. DoesFreed(S, M)
  BY <1>2 DEF Does
<1>4. M.stale = {} /\ S.stale = RootNames
  BY <1>3, HeapParts DEF DoesFreed
<1>5. Agrees(rf, k, [which \in DOMAIN r |-> NoValue], M, K)
  BY <1>2, <1>3, StepFreed
<1>6. DOMAIN r = RootNames
  BY <1>2 DEF Agrees, Sound
<1> DEFINE r2 == [which \in DOMAIN r |-> NoValue]
<1>7. \A which \in RootNames : r2[which] = NoValue
  BY <1>6
<1> HIDE DEF r2
<1>8. n = 5 /\ RootNames # {}
  BY <1>2, <1>4 DEF Fine, RootNames
<1>9. Fine("freed", ch, r2, M, n)
  BY <1>4, <1>7, <1>8 DEF Fine
<1>10. Agrees(rf, k, r2, M, K)
  BY <1>5 DEF r2
<1>11. Going(Tail(list), rf, k, r2, "freed", ch)
  BY <1>1, <1>9, <1>10, GoingAfter
<1>12. QED
  BY <1>11 DEF r2

LEMMA InstallStep ==
    ASSUME NEW list, Going(list, refs, kids, roots, stage, changing),
           list # <<>>, list[1][1] = "install"
    PROVE  Going(AddMethodSteps(list[1][2], [count |-> 1, bad |-> FALSE])
                 \o Tail(list), refs, kids, roots, stage, changing)
<1>1. ASSUME NEW K, NEW B, NEW n, NEW S, NEW M, NEW E,
             Onward(list, refs, kids, roots, stage, changing, K, B, n, S, M, E)
      PROVE  FALSE
  <2>1. list[1] \in Steps
    BY <1>1 DEF Onward
  <2>2. QED
    BY <2>1, StepParts
<1>2. PICK n \in 0..4 :
          /\ list[1] = <<"install", SystemMethods[n + 1]>>
          /\ Tail(list) = Installs(n + 1)
          /\ Rest(refs, kids, roots, n) /\ Methods \in DOMAIN refs
          /\ roots["methods"] = Methods /\ stage = "up" /\ changing
  BY <1>1, GoingOn, SMTT(30)
<1> DEFINE name == SystemMethods[n + 1]
           signature == [count |-> 1, bad |-> FALSE]
           m == n + 1
<1>3. /\ n \in 0..5 /\ m \in 0..5 /\ m \in {n, n + 1} /\ n + 1 \in 1..5
  OBVIOUS
<1>4. name \in Names
  BY <1>3 DEF Names
<1>5. signature \in [count : Nat, bad : BOOLEAN] /\ ~signature.bad
  OBVIOUS
<1>6. list[1][2] = name
  BY <1>2
<1>7. name = SystemMethods[n + 1]
  OBVIOUS
<1> HIDE DEF name, signature, m
<1>8. Going(AddMethodSteps(name, signature) \o Installs(m), refs, kids, roots,
            "up", TRUE)
  BY <1>2, <1>3, <1>4, <1>5, <1>7, AddMethodGoes
<1>9. QED
  BY <1>2, <1>6, <1>8 DEF signature, m
-----------------------------------------------------------------------------
(* The invariant of the specification, for the only thread.                *)
IInv(t) ==
    /\ stage \in {"none", "up", "freed"}
    /\ introspection \in BOOLEAN
    /\ changing \in BOOLEAN
    /\ todo = [u \in Threads |-> todo[u]]
    /\ loaded \in [Threads -> Nat]
    /\ loaded[t] # 0 =>
           /\ At(t, "inc") \/ At(t, "dec")
           /\ loaded[t] = refs[Value(t)]
    /\ Going(todo[t], refs, kids, roots, stage, changing)

LEMMA InitInv ==
    ASSUME NEW t, Threads = {t}, Init
    PROVE  IInv(t)
<1>1. /\ stage = "none" /\ introspection = TRUE /\ changing = FALSE
      /\ refs = <<>> /\ kids = <<>>
      /\ todo = [u \in Threads |-> <<>>] /\ loaded = [u \in Threads |-> 0]
  BY DEF Init
<1>2. roots \in [RootNames -> {NoValue}]
  BY DEF Init, RootNames
<1>3. todo[t] = <<>> /\ todo = [u \in Threads |-> todo[u]]
      /\ loaded[t] = 0 /\ loaded \in [Threads -> Nat]
  BY <1>1
<1>4. Going(<<>>, <<>>, <<>>, roots, "none", FALSE)
  BY <1>2, NothingGoes
<1>5. QED
  BY <1>1, <1>3, <1>4 DEF IInv

LEMMA StepInv ==
    ASSUME NEW t, Threads = {t}, IInv(t), NEW list,
           todo' = [todo EXCEPT ![t] = list],
           loaded' \in [Threads -> Nat], loaded'[t] = 0,
           stage' \in {"none", "up", "freed"}, introspection' \in BOOLEAN,
           changing' \in BOOLEAN,
           Going(list, refs', kids', roots', stage', changing')
    PROVE  IInv(t)'
<1>1. todo = [u \in Threads |-> todo[u]] /\ t \in Threads
  BY DEF IInv
<1>2. todo'[t] = list /\ todo' = [u \in Threads |-> todo'[u]]
  BY <1>1
<1>3. QED
  BY <1>2 DEF IInv

(* What an operation finds when it begins.                                 *)
LEMMA IdleRest ==
    ASSUME NEW t, Threads = {t}, IInv(t), todo[t] = <<>>
    PROVE  /\ Rest(refs, kids, roots, 5)
           /\ stage = "up" => roots["methods"] = Methods /\ Methods \in DOMAIN refs
           /\ stage # "up" => \A which \in RootNames : roots[which] = NoValue
           /\ Going(<<>>, refs, kids, roots, stage, TRUE)
           /\ loaded \in [Threads -> Nat] /\ loaded[t] = 0
           /\ DOMAIN roots = RootNames
<1>1. Going(<<>>, refs, kids, roots, stage, changing)
  BY DEF IInv
<1>2. /\ Rest(refs, kids, roots, 5)
      /\ stage = "up" => roots["methods"] = Methods /\ Methods \in DOMAIN refs
      /\ stage # "up" => \A which \in RootNames : roots[which] = NoValue
      /\ Going(<<>>, refs, kids, roots, stage, TRUE)
  BY <1>1, GoingIdle
<1>3. loaded \in [Threads -> Nat] /\ loaded[t] = 0
  BY DEF IInv, At
<1>4. DOMAIN roots = RootNames
  BY <1>2 DEF Rest, Sound
<1>5. QED
  BY <1>2, <1>3, <1>4

LEMMA ThreadNames ==
    ASSUME NEW t, Threads = {t}
    PROVE  t \in Names /\ t \in Threads /\ (AllIdle => todo[t] = <<>>)
BY DEF Names, AllIdle

LEMMA RegistryNewInv ==
    ASSUME NEW t, Threads = {t}, IInv(t), RegistryNew(t)
    PROVE  IInv(t)'
<1> DEFINE A == New(Methods) \o << <<"root", Methods, "methods">> >>
           list == A \o [i \in DOMAIN SystemMethods |-> <<"install", SystemMethods[i]>>]
<1>1. /\ stage # "up" /\ AllIdle /\ stage' = "up" /\ introspection' = TRUE
      /\ roots' = [which \in DOMAIN roots |-> NoValue] /\ changing' = TRUE
      /\ todo' = [todo EXCEPT ![t] = list]
      /\ refs' = refs /\ kids' = kids /\ loaded' = loaded
  BY DEF RegistryNew, Begin
<1>2. todo[t] = <<>>
  BY <1>1, ThreadNames
<1>3. /\ Rest(refs, kids, roots, 5)
      /\ \A which \in RootNames : roots[which] = NoValue
      /\ loaded \in [Threads -> Nat] /\ loaded[t] = 0
      /\ DOMAIN roots = RootNames
  BY <1>1, <1>2, IdleRest
<1>4. roots' = roots
  <2>1. roots \in [RootNames -> Values \union {NoValue}]
    BY <1>3 DEF Rest, Sound
  <2>2. QED
    BY <1>1, <1>3, <2>1
<1>5. list = A \o Installs(0)
  BY InstallsAre
<1>6. Going(A \o Installs(0), refs, kids, roots, "up", TRUE)
  BY <1>3, NewGoes
<1> HIDE DEF A, list
<1>7. Going(list, refs', kids', roots', stage', changing')
  BY <1>1, <1>4, <1>5, <1>6
<1>8. QED
  BY <1>1, <1>3, <1>7, StepInv

(* An operation of the program, and a request.                             *)
LEMMA ChangeInv ==
    ASSUME NEW t, Threads = {t}, IInv(t), NEW steps, Change(t, steps),
           introspection' \in BOOLEAN,
           Going(steps, refs, kids, roots, "up", TRUE)
    PROVE  IInv(t)'
<1>1. /\ stage = "up" /\ AllIdle /\ changing' = TRUE
      /\ todo' = [todo EXCEPT ![t] = steps]
      /\ refs' = refs /\ kids' = kids /\ loaded' = loaded
      /\ stage' = stage /\ roots' = roots
  BY DEF Change, Begin
<1>2. loaded \in [Threads -> Nat] /\ loaded[t] = 0
  BY <1>1, ThreadNames, IdleRest
<1>3. Going(steps, refs', kids', roots', stage', changing')
  BY <1>1
<1>4. QED
  BY <1>1, <1>2, <1>3, StepInv

LEMMA UpRest ==
    ASSUME NEW t, Threads = {t}, IInv(t), stage = "up", todo[t] = <<>>
    PROVE  /\ Rest(refs, kids, roots, 5) /\ roots["methods"] = Methods
           /\ Methods \in DOMAIN refs
           /\ Going(<<>>, refs, kids, roots, "up", TRUE)
BY IdleRest

LEMMA OperationInv ==
    ASSUME NEW t, Threads = {t}, IInv(t),
           \/ AddMethod(t) \/ SetDefaultMethod(t) \/ SetPreinvokeMethod(t)
           \/ DisableIntrospection(t) \/ RegistryFree(t)
    PROVE  IInv(t)'
<1>1. \A steps : Change(t, steps) =>
          /\ Rest(refs, kids, roots, 5) /\ roots["methods"] = Methods
          /\ Methods \in DOMAIN refs
          /\ Going(<<>>, refs, kids, roots, "up", TRUE)
  BY ThreadNames, UpRest DEF Change
<1>2. introspection \in BOOLEAN
  BY DEF IInv
<1>3. CASE AddMethod(t)
  <2>1. PICK name \in UserMethods, signature \in Signatures :
            Change(t, AddMethodSteps(name, signature))
    BY <1>3 DEF AddMethod
  <2>2. name \in Names /\ signature \in [count : Nat, bad : BOOLEAN]
    BY SignaturesKnown DEF Names
  <2>3. introspection' = introspection
    BY <1>3 DEF AddMethod
  <2> DEFINE A == AddMethodSteps(name, signature)
  <2>4. 5 \in 0..5 /\ 5 \in {5, 5 + 1}
    OBVIOUS
  <2>5. /\ Rest(refs, kids, roots, 5) /\ roots["methods"] = Methods
        /\ Methods \in DOMAIN refs
    BY <1>1, <2>1
  <2>6. Going(A \o Installs(5), refs, kids, roots, "up", TRUE)
    BY <2>2, <2>4, <2>5, AddMethodGoes
  <2>7. A \in Seq(Steps)
    <3>1. PICK E \in Heaps : Run({Methods}, A, Start(refs, kids, roots, {}), E)
      BY <2>2, <2>5, AddMethodRuns
    <3> HIDE DEF A
    <3>2. QED
      BY <3>1, RunInHeaps
  <2> HIDE DEF A
  <2>8. A \o Installs(5) = A
    <3>1. A \o <<>> = A
      BY <2>7
    <3>2. QED
      BY <3>1, InstallsAre
  <2>9. Change(t, A) /\ Going(A, refs, kids, roots, "up", TRUE)
    BY <2>1, <2>6, <2>8 DEF A
  <2>10. QED
    BY <1>2, <2>3, <2>9, ChangeInv
<1>4. CASE SetDefaultMethod(t)
  <2>1. Change(t, SetRootSteps("default")) /\ introspection' = introspection
    BY <1>4 DEF SetDefaultMethod
  <2>2. Going(SetRootSteps("default"), refs, kids, roots, "up", TRUE)
    BY <1>1, <2>1, SetRootGoes
  <2>3. QED
    BY <1>2, <2>1, <2>2, ChangeInv
<1>5. CASE SetPreinvokeMethod(t)
  <2>1. Change(t, SetRootSteps("preinvoke")) /\ introspection' = introspection
    BY <1>5 DEF SetPreinvokeMethod
  <2>2. Going(SetRootSteps("preinvoke"), refs, kids, roots, "up", TRUE)
    BY <1>1, <2>1, SetRootGoes
  <2>3. QED
    BY <1>2, <2>1, <2>2, ChangeInv
<1>6. CASE DisableIntrospection(t)
  <2>1. Change(t, <<>>) /\ introspection' = FALSE
    BY <1>6 DEF DisableIntrospection
  <2>2. Going(<<>>, refs, kids, roots, "up", TRUE)
    BY <1>1, <2>1
  <2>3. QED
    BY <2>1, <2>2, ChangeInv
<1>7. CASE RegistryFree(t)
  <2>1. Change(t, FreeSteps) /\ introspection' = introspection
    BY <1>7 DEF RegistryFree
  <2>2. Going(FreeSteps, refs, kids, roots, "up", TRUE)
    BY <1>1, <2>1, FreeGoes
  <2>3. QED
    BY <1>2, <2>1, <2>2, ChangeInv
<1>8. QED
  BY <1>3, <1>4, <1>5, <1>6, <1>7

LEMMA ProcessCallInv ==
    ASSUME NEW t, Threads = {t}, IInv(t), ProcessCall(t)
    PROVE  IInv(t)'
<1>1. PICK request \in Requests :
          todo' = [todo EXCEPT ![t] = ProcessCallSteps(t, request)]
  BY DEF ProcessCall, Begin
<1>2. /\ stage = "up" /\ todo[t] = <<>> /\ changing' = FALSE
      /\ refs' = refs /\ kids' = kids /\ loaded' = loaded
      /\ stage' = stage /\ roots' = roots /\ introspection' = introspection
  BY DEF ProcessCall, Begin
<1> DEFINE A == ProcessCallSteps(t, request)
<1>3. Going(A, refs, kids, roots, "up", FALSE)
  BY <1>2, ThreadNames, UpRest, ProcessCallGoes
<1>4. loaded \in [Threads -> Nat] /\ loaded[t] = 0
  BY <1>2, IdleRest
<1>5. introspection \in BOOLEAN
  BY DEF IInv
<1>6. todo' = [todo EXCEPT ![t] = A]
  BY <1>1
<1> HIDE DEF A
<1>7. Going(A, refs', kids', roots', stage', changing')
  BY <1>2, <1>3
<1>8. QED
  BY <1>2, <1>4, <1>5, <1>6, <1>7, StepInv

LEMMA HeapFacts ==
    ASSUME NEW t, Threads = {t}, IInv(t)
    PROVE  /\ t \in Threads /\ loaded \in [Threads -> Nat]
           /\ todo = [u \in Threads |-> todo[u]]
           /\ stage \in {"none", "up", "freed"} /\ introspection \in BOOLEAN
           /\ changing \in BOOLEAN
           /\ Going(todo[t], refs, kids, roots, stage, changing)
           /\ ~At(t, "inc") /\ ~At(t, "dec") => loaded[t] = 0
           /\ [todo EXCEPT ![t] = Tail(@)] = [todo EXCEPT ![t] = Tail(todo[t])]
           /\ \A n \in Nat : [loaded EXCEPT ![t] = n] \in [Threads -> Nat]
                             /\ [loaded EXCEPT ![t] = n][t] = n
           /\ At(t, "inc") \/ At(t, "dec") =>
                  Value(t) \in DOMAIN refs /\ refs[Value(t)] \in Nat \ {0}
<1>1. /\ t \in Threads /\ loaded \in [Threads -> Nat]
      /\ todo = [u \in Threads |-> todo[u]]
      /\ stage \in {"none", "up", "freed"} /\ introspection \in BOOLEAN
      /\ changing \in BOOLEAN
      /\ Going(todo[t], refs, kids, roots, stage, changing)
      /\ ~At(t, "inc") /\ ~At(t, "dec") => loaded[t] = 0
  BY DEF IInv
<1>2. [todo EXCEPT ![t] = Tail(@)] = [todo EXCEPT ![t] = Tail(todo[t])]
  BY <1>1
<1>3. \A n \in Nat : [loaded EXCEPT ![t] = n] \in [Threads -> Nat]
                     /\ [loaded EXCEPT ![t] = n][t] = n
  BY <1>1
<1>4. At(t, "inc") \/ At(t, "dec") =>
          Value(t) \in DOMAIN refs /\ refs[Value(t)] \in Nat \ {0}
  <2> SUFFICES ASSUME At(t, "inc") \/ At(t, "dec")
               PROVE  Value(t) \in DOMAIN refs /\ refs[Value(t)] \in Nat \ {0}
    OBVIOUS
  <2>1. todo[t] # <<>> /\ todo[t][1][1] \in {"inc", "dec"}
    BY DEF At
  <2>2. QED
    BY <1>1, <2>1, CountLive DEF Value
<1>5. QED
  BY <1>1, <1>2, <1>3, <1>4

LEMMA AllocateInv ==
    ASSUME NEW t, Threads = {t}, IInv(t), Allocate(t),
           UNCHANGED <<introspection, changing>>
    PROVE  IInv(t)'
<1> DEFINE v == todo[t][1][2]
           rf2 == [u \in DOMAIN refs \union {v} |-> IF u = v THEN 1 ELSE refs[u]]
           k2 == [u \in DOMAIN kids \union {v} |-> IF u = v THEN <<>> ELSE kids[u]]
<1>1. /\ todo[t] # <<>> /\ todo[t][1][1] = "new"
      /\ refs' = rf2 /\ kids' = k2
      /\ stage' = stage /\ roots' = roots /\ loaded' = loaded
  BY DEF Allocate, At, Value
<1>2. todo' = [todo EXCEPT ![t] = Tail(todo[t])]
  BY HeapFacts DEF Allocate, StepDone
<1>3. loaded'[t] = 0 /\ loaded' \in [Threads -> Nat]
  BY <1>1, HeapFacts DEF At
<1>8. v = todo[t][1][2]
  OBVIOUS
<1> HIDE DEF v
<1>4. Going(Tail(todo[t]), rf2, k2, roots, stage, changing)
  <2>1. /\ Going(todo[t], refs, kids, roots, stage, changing)
        /\ todo[t] # <<>> /\ todo[t][1][1] = "new"
    BY <1>1, HeapFacts
  <2>2. rf2 = Put(refs, v, 1) /\ k2 = Put(kids, v, <<>>)
    BY DEF Put
  <2> HIDE DEF rf2, k2
  <2>3. Going(Tail(todo[t]), Put(refs, v, 1), Put(kids, v, <<>>), roots,
              stage, changing)
    BY ONLY <1>8, <2>1, NewStep
  <2>4. QED
    BY <2>2, <2>3
<1> HIDE DEF rf2, k2
<1>5. Going(Tail(todo[t]), refs', kids', roots', stage', changing')
  BY <1>1, <1>4
<1>6. stage' \in {"none", "up", "freed"} /\ introspection' \in BOOLEAN
      /\ changing' \in BOOLEAN
  BY <1>1, HeapFacts
<1>7. QED
  BY <1>2, <1>3, <1>5, <1>6, StepInv

LEMMA LoadCountInv ==
    ASSUME NEW t, Threads = {t}, IInv(t), LoadCount(t),
           UNCHANGED <<introspection, changing>>
    PROVE  IInv(t)'
<1>1. /\ At(t, "inc") \/ At(t, "dec")
      /\ loaded' = [loaded EXCEPT ![t] = refs[Value(t)]]
      /\ stage' = stage /\ roots' = roots /\ refs' = refs /\ kids' = kids
      /\ todo' = todo
  BY DEF LoadCount
<1>2. refs[Value(t)] \in Nat
  BY <1>1, HeapFacts
<1>3. loaded' \in [Threads -> Nat] /\ loaded'[t] = refs[Value(t)]
  BY <1>1, <1>2, HeapFacts
<1>4. /\ At(t, "inc")' \/ At(t, "dec")'
      /\ loaded'[t] = refs'[Value(t)']
  BY <1>1, <1>3 DEF At, Value
<1>5. QED
  BY <1>1, <1>3, <1>4 DEF IInv

LEMMA IncrementInv ==
    ASSUME NEW t, Threads = {t}, IInv(t), Increment(t),
           UNCHANGED <<introspection, changing>>
    PROVE  IInv(t)'
<1> DEFINE v == todo[t][1][2]
<1>1. /\ todo[t] # <<>> /\ todo[t][1][1] = "inc" /\ loaded[t] > 0
      /\ v \in DOMAIN refs
      /\ refs' = [refs EXCEPT ![v] = loaded[t] + 1]
      /\ loaded' = [loaded EXCEPT ![t] = 0]
      /\ stage' = stage /\ roots' = roots /\ kids' = kids
  BY DEF Increment, At, Value, Live
<1>2. todo' = [todo EXCEPT ![t] = Tail(todo[t])]
  BY HeapFacts DEF Increment, StepDone
<1>3. loaded'[t] = 0 /\ loaded' \in [Threads -> Nat]
  BY <1>1, HeapFacts
<1>4. loaded[t] = refs[v]
  <2>1. loaded[t] # 0
    BY <1>1, HeapFacts
  <2>2. QED
    BY <2>1 DEF IInv, Value
<1> HIDE DEF v
<1>5. Going(Tail(todo[t]), [refs EXCEPT ![v] = refs[v] + 1], kids, roots,
            stage, changing)
  <2>1. v = todo[t][1][2]
    BY DEF v
  <2>2. QED
    BY <1>1, <2>1, HeapFacts, IncStep, ZenonT(30)
<1>6. Going(Tail(todo[t]), refs', kids', roots', stage', changing')
  BY <1>1, <1>4, <1>5
<1>7. stage' \in {"none", "up", "freed"} /\ introspection' \in BOOLEAN
      /\ changing' \in BOOLEAN
  BY <1>1, HeapFacts
<1>8. QED
  BY <1>2, <1>3, <1>6, <1>7, StepInv

LEMMA DecrementInv ==
    ASSUME NEW t, Threads = {t}, IInv(t), Decrement(t),
           UNCHANGED <<introspection, changing>>
    PROVE  IInv(t)'
<1> DEFINE v == todo[t][1][2]
<1>1. /\ todo[t] # <<>> /\ todo[t][1][1] = "dec" /\ loaded[t] > 1
      /\ v \in DOMAIN refs
      /\ refs' = [refs EXCEPT ![v] = loaded[t] - 1]
      /\ loaded' = [loaded EXCEPT ![t] = 0]
      /\ stage' = stage /\ roots' = roots /\ kids' = kids
  BY DEF Decrement, At, Value, Live
<1>2. todo' = [todo EXCEPT ![t] = Tail(todo[t])]
  BY HeapFacts DEF Decrement, StepDone
<1>3. loaded'[t] = 0 /\ loaded' \in [Threads -> Nat]
  BY <1>1, HeapFacts
<1>4. loaded[t] = refs[v] /\ refs[v] > 1
  <2>1. loaded[t] # 0
    BY <1>1, HeapFacts
  <2>2. loaded[t] = refs[v]
    BY <2>1 DEF IInv, Value
  <2>3. QED
    BY <1>1, <2>2
<1> HIDE DEF v
<1>5. Going(Tail(todo[t]), [refs EXCEPT ![v] = refs[v] - 1], kids, roots,
            stage, changing)
  <2>1. v = todo[t][1][2]
    BY DEF v
  <2>2. QED
    BY <1>1, <1>4, <2>1, HeapFacts, DecStep
<1>6. Going(Tail(todo[t]), refs', kids', roots', stage', changing')
  BY <1>1, <1>4, <1>5
<1>7. stage' \in {"none", "up", "freed"} /\ introspection' \in BOOLEAN
      /\ changing' \in BOOLEAN
  BY <1>1, HeapFacts
<1>8. QED
  BY <1>2, <1>3, <1>6, <1>7, StepInv

LEMMA DestroyValueInv ==
    ASSUME NEW t, Threads = {t}, IInv(t), DestroyValue(t),
           UNCHANGED <<introspection, changing>>
    PROVE  IInv(t)'
<1> DEFINE v == todo[t][1][2]
           rf2 == [u \in DOMAIN refs \ {v} |-> refs[u]]
           k2 == [u \in DOMAIN refs \ {v} |-> kids[u]]
           released == [i \in DOMAIN kids[v] |-> <<"dec", kids[v][i]>>]
<1>1. /\ todo[t] # <<>> /\ todo[t][1][1] = "dec" /\ loaded[t] = 1
      /\ v \in DOMAIN refs
      /\ refs' = rf2 /\ kids' = k2
      /\ loaded' = [loaded EXCEPT ![t] = 0]
      /\ stage' = stage /\ roots' = roots
  BY DEF DestroyValue, At, Value, Live
<1>2. todo' = [todo EXCEPT ![t] = released \o Tail(todo[t])]
  <2>1. todo' = [todo EXCEPT ![t] = released \o Tail(@)]
    BY DEF DestroyValue, Value
  <2> HIDE DEF released
  <2>2. QED
    BY SMTT(30), <2>1, HeapFacts
<1>3. loaded'[t] = 0 /\ loaded' \in [Threads -> Nat]
  BY <1>1, HeapFacts
<1>4. refs[v] = 1
  BY <1>1 DEF IInv, Value
<1>5. released = Released(kids[v])
  BY DEF Released
<1>11. v = todo[t][1][2]
  OBVIOUS
<1> HIDE DEF v
<1>6. Going(Released(kids[v]) \o Tail(todo[t]), rf2, k2, roots, stage, changing)
  <2>1. /\ Going(todo[t], refs, kids, roots, stage, changing)
        /\ todo[t] # <<>> /\ todo[t][1][1] = "dec" /\ v \in DOMAIN refs
    BY <1>1, HeapFacts
  <2>2. QED
    BY ONLY <1>4, <1>11, <2>1, DestroyStep
<1> HIDE DEF rf2, k2, released
<1> DEFINE list == released \o Tail(todo[t])
<1>7. Going(list, refs', kids', roots', stage', changing')
  BY <1>1, <1>5, <1>6
<1>8. todo' = [todo EXCEPT ![t] = list]
  BY <1>2
<1>9. stage' \in {"none", "up", "freed"} /\ introspection' \in BOOLEAN
      /\ changing' \in BOOLEAN
  BY <1>1, HeapFacts
<1> HIDE DEF list
<1>10. QED
  BY <1>3, <1>7, <1>8, <1>9, StepInv

LEMMA StorePointerInv ==
    ASSUME NEW t, Threads = {t}, IInv(t), StorePointer(t),
           UNCHANGED <<introspection, changing>>
    PROVE  IInv(t)'
<1> DEFINE v == todo[t][1][2]
           a == todo[t][1][3]
           kl == [kids EXCEPT ![a] = Append(kids[a], v)]
           km == [kids EXCEPT ![Methods] = kids[Methods] \o <<v, a>>]
           kr == [kids EXCEPT ![Methods] = Swapped(kids[Methods], a, v)]
           rr == [roots EXCEPT ![a] = v]
<1>1. refs' = refs /\ stage' = stage /\ loaded' = loaded
  BY DEF StorePointer
<1>2. todo' = [todo EXCEPT ![t] = Tail(todo[t])]
  BY SMTT(30), HeapFacts DEF StorePointer, StepDone
<1>3. /\ todo[t] # <<>>
      /\ \/ todo[t][1][1] = "link" /\ kids' = kl /\ roots' = roots
         \/ todo[t][1][1] = "member" /\ kids' = km /\ roots' = roots
         \/ todo[t][1][1] = "replace" /\ kids' = kr /\ roots' = roots
         \/ todo[t][1][1] = "root" /\ roots' = rr /\ kids' = kids
  BY DEF StorePointer, At, Value, WithKids, Swapped
<1>4. Going(todo[t], refs, kids, roots, stage, changing)
  BY HeapFacts
<1>5. todo[t][1][1] = "link" =>
          Going(Tail(todo[t]), refs, kl, roots, stage, changing)
  BY <1>3, <1>4, LinkStep
<1>6. todo[t][1][1] = "member" =>
          Going(Tail(todo[t]), refs, km, roots, stage, changing)
  BY <1>3, <1>4, MemberStep
<1>7. todo[t][1][1] = "replace" =>
          Going(Tail(todo[t]), refs, kr, roots, stage, changing)
  BY <1>3, <1>4, ReplaceStep
<1>8. todo[t][1][1] = "root" =>
          Going(Tail(todo[t]), refs, kids, rr, stage, changing)
  BY <1>3, <1>4, RootStep
<1> HIDE DEF kl, km, kr, rr
<1>9. Going(Tail(todo[t]), refs', kids', roots', stage', changing')
  BY <1>1, <1>3, <1>5, <1>6, <1>7, <1>8
<1>10. loaded'[t] = 0 /\ loaded' \in [Threads -> Nat]
  BY <1>1, <1>3, HeapFacts DEF At
<1>11. stage' \in {"none", "up", "freed"} /\ introspection' \in BOOLEAN
       /\ changing' \in BOOLEAN
  BY <1>1, HeapFacts
<1>12. QED
  BY <1>2, <1>9, <1>10, <1>11, StepInv

LEMMA InstallInv ==
    ASSUME NEW t, Threads = {t}, IInv(t), InstallSystemMethod(t),
           UNCHANGED <<introspection, changing>>
    PROVE  IInv(t)'
<1> DEFINE A == AddMethodSteps(todo[t][1][2], [count |-> 1, bad |-> FALSE])
           list == A \o Tail(todo[t])
<1>1. /\ todo[t] # <<>> /\ todo[t][1][1] = "install"
      /\ refs' = refs /\ kids' = kids /\ loaded' = loaded
      /\ stage' = stage /\ roots' = roots
      /\ todo' = [todo EXCEPT ![t] = A \o Tail(@)]
  BY DEF InstallSystemMethod, At
<1>2. Going(list, refs, kids, roots, stage, changing)
  BY <1>1, HeapFacts, InstallStep
<1> HIDE DEF A
<1>3. todo' = [todo EXCEPT ![t] = list]
  BY <1>1, HeapFacts
<1> HIDE DEF list
<1>4. Going(list, refs', kids', roots', stage', changing')
  BY <1>1, <1>2
<1>5. loaded'[t] = 0 /\ loaded' \in [Threads -> Nat]
  BY <1>1, HeapFacts DEF At
<1>6. stage' \in {"none", "up", "freed"} /\ introspection' \in BOOLEAN
      /\ changing' \in BOOLEAN
  BY <1>1, HeapFacts
<1>7. QED
  BY <1>3, <1>4, <1>5, <1>6, StepInv

LEMMA FreeRegistryInv ==
    ASSUME NEW t, Threads = {t}, IInv(t), FreeRegistry(t),
           UNCHANGED <<introspection, changing>>
    PROVE  IInv(t)'
<1> DEFINE r2 == [which \in DOMAIN roots |-> NoValue]
<1>1. /\ todo[t] # <<>> /\ todo[t][1][1] = "freed"
      /\ refs' = refs /\ kids' = kids /\ loaded' = loaded
      /\ stage' = "freed" /\ roots' = r2
  BY DEF FreeRegistry, At
<1>2. todo' = [todo EXCEPT ![t] = Tail(todo[t])]
  BY HeapFacts DEF FreeRegistry, StepDone
<1>3. Going(Tail(todo[t]), refs, kids, r2, "freed", changing)
  BY <1>1, HeapFacts, FreedStep
<1> HIDE DEF r2
<1>4. Going(Tail(todo[t]), refs', kids', roots', stage', changing')
  BY <1>1, <1>3
<1>5. loaded'[t] = 0 /\ loaded' \in [Threads -> Nat]
  BY <1>1, HeapFacts DEF At
<1>6. stage' \in {"none", "up", "freed"} /\ introspection' \in BOOLEAN
      /\ changing' \in BOOLEAN
  BY <1>1, HeapFacts
<1>7. QED
  BY <1>2, <1>4, <1>5, <1>6, StepInv

LEMMA NextInv ==
    ASSUME NEW t, Threads = {t}, IInv(t), [Next]_vars
    PROVE  IInv(t)'
<1>1. CASE UNCHANGED vars
  BY <1>1 DEF vars, IInv, At, Value
<1>2. CASE Next
  <2>1. \/ RegistryNew(t) \/ AddMethod(t) \/ SetDefaultMethod(t)
        \/ SetPreinvokeMethod(t) \/ DisableIntrospection(t) \/ RegistryFree(t)
        \/ ProcessCall(t) \/ HeapStep(t)
    BY <1>2 DEF Next
  <2>2. CASE RegistryNew(t)
    BY <2>2, RegistryNewInv
  <2>3. CASE \/ AddMethod(t) \/ SetDefaultMethod(t) \/ SetPreinvokeMethod(t)
             \/ DisableIntrospection(t) \/ RegistryFree(t)
    BY <2>3, OperationInv
  <2>4. CASE ProcessCall(t)
    BY <2>4, ProcessCallInv
  <2>5. CASE HeapStep(t)
    <3>1. UNCHANGED <<introspection, changing>>
      BY <2>5 DEF HeapStep
    <3>2. \/ Allocate(t) \/ LoadCount(t) \/ Increment(t) \/ Decrement(t)
          \/ DestroyValue(t) \/ StorePointer(t) \/ InstallSystemMethod(t)
          \/ FreeRegistry(t)
      BY <2>5 DEF HeapStep
    <3>3. QED
      BY <3>1, <3>2, AllocateInv, LoadCountInv, IncrementInv, DecrementInv,
         DestroyValueInv, StorePointerInv, InstallInv, FreeRegistryInv
  <2>6. QED
    BY <2>1, <2>2, <2>3, <2>4, <2>5
<1>3. QED
  BY <1>1, <1>2

LEMMA InvHolds ==
    ASSUME NEW t, Threads = {t}, IInv(t)
    PROVE  TypeOK /\ NothingDangling /\ RefsExact /\ FreedWhole
<1>1. PICK K, A, n, S, E :
          Underway(todo[t], refs, kids, roots, stage, changing, K, A, n, S, E)
  BY DEF IInv, Going
<1>2. /\ Sound(refs, kids, roots) /\ Balanced(refs, kids, roots, S)
      /\ Fine(stage, changing, roots, S, n)
  BY <1>1 DEF Underway, Agrees
<1>3. TypeOK
  <2>1. DOMAIN kids = DOMAIN refs /\ \A v \in DOMAIN refs : refs[v] \in Nat \ {0}
    BY <1>2 DEF Sound
  <2>2. /\ stage \in {"none", "up", "freed"} /\ introspection \in BOOLEAN
        /\ changing \in BOOLEAN /\ loaded \in [Threads -> Nat]
    BY DEF IInv
  <2>3. QED
    BY <2>1, <2>2 DEF TypeOK
<1>4. DOMAIN roots = RootNames
      /\ roots \in [RootNames -> Values \union {NoValue}]
  BY <1>2 DEF Sound
<1>5. NothingDangling
  <2>1. ASSUME NEW a \in DOMAIN kids, NEW i \in DOMAIN kids[a]
        PROVE  Live(kids[a][i])
    <3> DEFINE v == kids[a][i]
    <3>1. kids[a] \in Seq(Values)
      BY <1>2 DEF Sound, Contents
    <3>2. v \in Values
      BY <3>1
    <3>3. Places(kids, v) # {}
      BY PlacesAre
    <3> HIDE DEF v
    <3>4. v \in DOMAIN refs
      BY <1>2, <3>2, <3>3 DEF Balanced, BalancedAt
    <3>5. QED
      BY <3>4 DEF v, Live
  <2>2. ASSUME NEW u \in Threads, At(u, "inc") \/ At(u, "dec")
        PROVE  Live(Value(u))
    BY <2>2, HeapFacts DEF Live
  <2>3. ASSUME ~changing, NEW which \in DOMAIN roots, roots[which] # NoValue
        PROVE  Live(roots[which])
    <3> DEFINE v == roots[which]
    <3>1. S.stale = {}
      BY <1>2, <2>3 DEF Fine
    <3>2. v \in Values /\ which \in RootNames
      BY <1>4, <2>3
    <3>3. which \in RootPlaces(roots, S.stale, v)
      BY <3>1, <3>2 DEF RootPlaces
    <3> HIDE DEF v
    <3>4. v \in DOMAIN refs
      BY <1>2, <3>2, <3>3 DEF Balanced, BalancedAt
    <3>5. QED
      BY <3>4 DEF v, Live
  <2>4. QED
    BY <2>1, <2>2, <2>3 DEF NothingDangling
<1>6. RefsExact
  <2> SUFFICES ASSUME stage = "up", AllIdle, NEW v \in DOMAIN refs
               PROVE  refs[v] = PointersTo(v)
    BY DEF RefsExact
  <2>1. Rest(refs, kids, roots, 5)
    BY ThreadNames, IdleRest
  <2>2. refs[v] = Pointers(kids, roots, {}, v)
    BY <2>1 DEF Rest
  <2>3. RootPlaces(roots, {}, v) = {which \in DOMAIN roots : roots[which] = v}
    BY <1>4 DEF RootPlaces
  <2>4. QED
    BY <2>2, <2>3 DEF Pointers, PointersTo
<1>7. FreedWhole
  <2> SUFFICES ASSUME stage = "freed", AllIdle PROVE DOMAIN refs = {}
    BY DEF FreedWhole
  <2>1. /\ Rest(refs, kids, roots, 5)
        /\ \A which \in RootNames : roots[which] = NoValue
    BY ThreadNames, IdleRest
  <2>2. QED
    BY <2>1, EmptyAtRest
<1>8. QED
  BY <1>3, <1>5, <1>6, <1>7

LEMMA AlwaysInv ==
    ASSUME NEW t, Threads = {t}
    PROVE  Spec => []IInv(t)
<1>1. Init => IInv(t)
  BY InitInv
<1>2. IInv(t) /\ [Next]_vars => IInv(t)'
  BY NextInv
<1>3. QED
  BY <1>1, <1>2, PTL DEF Spec

(* Every value that is allocated has a positive count, and only the values *)
(* of the heap hold others, whatever is registered and requested           *)
(* (src/xmlrpc_data.c: xmlrpc_INCREF, xmlrpc_DECREF).                      *)
THEOREM TypeCorrect ==
    ASSUME NEW t, Threads = {t}
    PROVE  Spec => []TypeOK
<1>1. IInv(t) => TypeOK
  BY InvHolds
<1>2. QED
  BY <1>1, AlwaysInv, PTL

(* No pointer of the registry, of an array or struct in it, or of the step *)
(* about to be taken leads to a destroyed value.                           *)
THEOREM NeverDangling ==
    ASSUME NEW t, Threads = {t}
    PROVE  Spec => []NothingDangling
<1>1. IInv(t) => NothingDangling
  BY InvHolds
<1>2. QED
  BY <1>1, AlwaysInv, PTL

(* Between operations every count is the number of pointers to the value:  *)
(* registering, replacing, refusing a bad signature, dispatching and       *)
(* multicalls of any length leak no reference and drop none.               *)
THEOREM CountsExact ==
    ASSUME NEW t, Threads = {t}
    PROVE  Spec => []RefsExact
<1>1. IInv(t) => RefsExact
  BY InvHolds
<1>2. QED
  BY <1>1, AlwaysInv, PTL

(* xmlrpc_registry_free leaves nothing allocated, whatever was registered. *)
THEOREM FreeLeavesNothing ==
    ASSUME NEW t, Threads = {t}
    PROVE  Spec => []FreedWhole
<1>1. IInv(t) => FreedWhole
  BY InvHolds
<1>2. QED
  BY <1>1, AlwaysInv, PTL
=============================================================================
