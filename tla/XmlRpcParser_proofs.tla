-------------------------- MODULE XmlRpcParser_proofs --------------------------
(***************************************************************************)
(* Proofs about XmlRpcParser, for every document and every limit: TypeOK   *)
(* by TreeInv, what expat's callbacks build; NothingLost by ValuesInv, who *)
(* owns each value while the tree is converted; and MeansTheDocument by    *)
(* MeaningInv, what the frames and the values built so far stand for, and  *)
(* RefusalInv, that a fault on the way is never forgotten.                 *)
(***************************************************************************)
EXTENDS XmlRpcParser, CommonLemmas

(* Where memory that runs out is not cleaned up after.                     *)
Sloppy == {"array", "child", "contents", "text"}

-----------------------------------------------------------------------------
(* The tree of elements.                                                   *)

XmlElement ==
    [name : STRING, parent : Nat, text : Seq(STRING), children : Seq(Nat)]

(* Elements are numbered as they start, a child after its parent, and all  *)
(* but the first are somebody's child.                                     *)
IsTree(heap) ==
    /\ \E n \in Nat : DOMAIN heap = 1..n
    /\ heap \in [DOMAIN heap -> XmlElement]
    /\ \A e \in DOMAIN heap : \A i \in DOMAIN heap[e].children :
           LET child == heap[e].children[i] IN
           child \in DOMAIN heap /\ e < child /\ heap[child].parent = e
    /\ 1 \in DOMAIN heap => heap[1].parent = None
    /\ \A e \in DOMAIN heap \ {1} :
           LET parent == heap[e].parent IN
           parent \in DOMAIN heap /\ e \in ToSet(heap[parent].children)

(* Element e is a copy of of[e], but for what is still to be read.         *)
Copies(heap, of, e, unread) ==
    LET children == heap[e].children
        original == of[e].children
    IN  /\ heap[e].name = of[e].name
        /\ heap[e].text \o unread.text = of[e].text
        /\ Len(original) = Len(children) + Len(unread.children)
        /\ \A i \in DOMAIN children : of[children[i]] = original[i]
        /\ \A i \in DOMAIN unread.children :
               original[Len(children) + i] = unread.children[i]

(* The elements on the path p are open.                                    *)
Building(p, of) ==
    /\ p \in Seq(DOMAIN nodes) /\ Len(p) + 1 = Len(reading)
    /\ \A i \in DOMAIN p :
           nodes[p[i]].parent = IF i = 1 THEN None ELSE p[i - 1]
    /\ \A i, j \in DOMAIN p : i < j => p[i] < p[j]
    /\ currentP = IF p = <<>> THEN None ELSE p[Len(p)]
    /\ rootP = IF DOMAIN nodes = {} THEN None ELSE 1
    /\ reading[1].children = IF DOMAIN nodes = {} THEN <<document.root>> ELSE <<>>
    /\ of \in [DOMAIN nodes -> Elements]
    /\ 1 \in DOMAIN nodes => of[1] = document.root
    /\ \A i \in DOMAIN p : Copies(nodes, of, p[i], reading[i + 1])
    /\ \A e \in DOMAIN nodes \ ToSet(p) : Copies(nodes, of, e, Unread(<<>>, <<>>))

Built(of) ==
    /\ of \in [DOMAIN nodes -> Elements]
    /\ of[1] = document.root
    /\ \A e \in DOMAIN nodes : Copies(nodes, of, e, Unread(<<>>, <<>>))

ReadingOK ==
    /\ reading \in Seq([text : Seq(STRING), children : Seq(Elements)])
    /\ reading # <<>>
    /\ reading[1].text = <<>>

TreeInv ==
    /\ document \in Documents
    /\ pc \in {"start", "expat", "tree", "convert", "ending", "done"}
    /\ IsTree(nodes)
    /\ barfed \in BOOLEAN
    /\ pc = "start" => /\ DOMAIN nodes = {} /\ rootP = None /\ currentP = None
                       /\ ~barfed
    /\ pc = "expat" => ReadingOK
    /\ pc = "expat" /\ ~barfed => \E p, of : Building(p, of)
    /\ pc \in {"tree", "convert", "ending"} =>
           /\ ~barfed /\ rootP = 1 /\ 1 \in DOMAIN nodes
           /\ \E of : Built(of)
    /\ pc = "done" /\ ~barfed => DOMAIN nodes = {}
    /\ barfed => ranOut
    /\ Scarce \cap Sloppy = {} /\ barfed => DOMAIN nodes = {}

-----------------------------------------------------------------------------
(* xml_element_free of the root frees every element.                       *)

Below(heap, S) == UNION {ToSet(heap[a].children) : a \in S}

(* f[i] is what the definition of Subtree finds i levels down.             *)
LevelsTo(heap, e, n, f) ==
    f = [i \in 0..n |-> IF i = 0 THEN {e} ELSE {e} \union Below(heap, f[i - 1])]

LEMMA LevelsExist ==
    ASSUME NEW heap, NEW e, NEW n \in Nat
    PROVE  \E f : LevelsTo(heap, e, n, f)
<1> DEFINE T == {m \in Nat : \E f : LevelsTo(heap, e, m, f)}
<1>1. 0 \in T
  <2> DEFINE f == [i \in 0..0 |-> {e}]
  <2>1. f = [i \in 0..0 |-> IF i = 0 THEN {e} ELSE {e} \union Below(heap, f[i - 1])]
    <3> SUFFICES ASSUME NEW i \in 0..0
                 PROVE  f[i] = IF i = 0 THEN {e} ELSE {e} \union Below(heap, f[i - 1])
      BY Zenon
    <3>1. i = 0
      OBVIOUS
    <3>2. QED
      BY <3>1
  <2> HIDE DEF f
  <2>2. LevelsTo(heap, e, 0, f)
    BY <2>1 DEF LevelsTo
  <2>3. QED
    BY <2>2
<1>2. ASSUME NEW m \in Nat, m \in T PROVE m + 1 \in T
  <2>1. PICK f : LevelsTo(heap, e, m, f)
    BY <1>2
  <2>2. \A i \in 0..m : f[i] = IF i = 0 THEN {e} ELSE {e} \union Below(heap, f[i - 1])
    BY <2>1, Zenon DEF LevelsTo
  <2> DEFINE g == [i \in 0..(m + 1) |->
                      IF i <= m THEN f[i] ELSE {e} \union Below(heap, f[m])]
  <2>3. ASSUME NEW i \in 0..(m + 1)
        PROVE  g[i] = IF i = 0 THEN {e} ELSE {e} \union Below(heap, g[i - 1])
    <3>1. CASE i = 0
      <4>1. 0 \in 0..m /\ 0 <= m
        OBVIOUS
      <4>2. g[0] = f[0]
        BY <4>1
      <4>3. f[0] = {e}
        BY <2>2, <4>1
      <4>4. QED
        BY <3>1, <4>2, <4>3
    <3>2. CASE i # 0 /\ i <= m
      <4>1. i - 1 \in 0..m /\ i \in 0..m /\ i - 1 <= m /\ i - 1 \in 0..(m + 1)
        BY <3>2
      <4>2. g[i] = f[i] /\ g[i - 1] = f[i - 1]
        BY <3>2, <4>1
      <4>3. QED
        BY <2>2, <3>2, <4>1, <4>2
    <3>3. CASE i = m + 1
      <4>1. i - 1 = m /\ m \in 0..(m + 1) /\ ~(i <= m) /\ i # 0
        BY <3>3
      <4>2. g[i] = {e} \union Below(heap, f[m]) /\ g[m] = f[m]
        BY <4>1
      <4>3. QED
        BY <4>1, <4>2
    <3>4. QED
      BY <3>1, <3>2, <3>3
  <2>4. g = [i \in 0..(m + 1) |-> g[i]]
    OBVIOUS
  <2> HIDE DEF g
  <2>5. LevelsTo(heap, e, m + 1, g)
    BY <2>3, <2>4, Zenon DEF LevelsTo
  <2>6. QED
    BY <2>5
<1> HIDE DEF T
<1>3. Nat \subseteq T
  BY <1>1, <1>2, NatSetInduction, Zenon
<1>4. QED
  BY <1>3 DEF T

LEMMA LevelsUnique ==
    ASSUME NEW heap, NEW e, NEW m \in Nat, NEW n \in Nat, m <= n, NEW f, NEW g,
           LevelsTo(heap, e, m, f), LevelsTo(heap, e, n, g)
    PROVE  \A i \in 0..m : f[i] = g[i]
<1> DEFINE T == {i \in Nat : i \in 0..m => f[i] = g[i]}
<1>1. /\ \A i \in 0..m :
             f[i] = IF i = 0 THEN {e} ELSE {e} \union Below(heap, f[i - 1])
      /\ \A i \in 0..n :
             g[i] = IF i = 0 THEN {e} ELSE {e} \union Below(heap, g[i - 1])
  BY Zenon DEF LevelsTo
<1>2. 0 \in T
  <2>1. 0 \in 0..m /\ 0 \in 0..n
    OBVIOUS
  <2>2. f[0] = {e} /\ g[0] = {e}
    BY <1>1, <2>1
  <2>3. QED
    BY <2>2
<1>3. ASSUME NEW i \in Nat, i \in T PROVE i + 1 \in T
  <2> SUFFICES ASSUME i + 1 \in 0..m PROVE f[i + 1] = g[i + 1]
    OBVIOUS
  <2>1. i \in 0..m /\ i + 1 \in 0..n /\ (i + 1) - 1 = i /\ i + 1 # 0
    OBVIOUS
  <2>2. f[i] = g[i]
    BY <1>3, <2>1
  <2>3. /\ f[i + 1] = {e} \union Below(heap, f[i])
        /\ g[i + 1] = {e} \union Below(heap, g[i])
    BY <1>1, <2>1
  <2>4. QED
    BY <2>2, <2>3
<1> HIDE DEF T
<1>4. Nat \subseteq T
  BY <1>2, <1>3, NatSetInduction, Zenon
<1>5. QED
  BY <1>4 DEF T

LEMMA SubtreeLevels ==
    ASSUME NEW heap, NEW e, Cardinality(DOMAIN heap) \in Nat
    PROVE  \E f : /\ f[0] = {e}
                  /\ \A i \in Nat : f[i + 1] = {e} \union Below(heap, f[i])
                  /\ Subtree(heap, e) = f[Cardinality(DOMAIN heap)]
<1> DEFINE Levels == CHOOSE f : f = [n \in Nat |->
                IF n = 0 THEN {e}
                ELSE {e} \union UNION {ToSet(heap[a].children) : a \in f[n - 1]}]
           g == [n \in Nat |-> (CHOOSE f : LevelsTo(heap, e, n, f))[n]]
<1>1. \A n \in Nat : LevelsTo(heap, e, n, CHOOSE f : LevelsTo(heap, e, n, f))
  BY LevelsExist
<1>2. ASSUME NEW n \in Nat
      PROVE  /\ g[0] = {e}
             /\ g[n + 1] = {e} \union Below(heap, g[n])
  <2> DEFINE a == CHOOSE f : LevelsTo(heap, e, n, f)
             b == CHOOSE f : LevelsTo(heap, e, n + 1, f)
             z == CHOOSE f : LevelsTo(heap, e, 0, f)
  <2>1. /\ LevelsTo(heap, e, n, a) /\ LevelsTo(heap, e, n + 1, b)
        /\ LevelsTo(heap, e, 0, z)
    BY <1>1
  <2>2. g[n] = a[n] /\ g[n + 1] = b[n + 1] /\ g[0] = z[0]
    OBVIOUS
  <2> HIDE DEF a, b, z, g
  <2>3. /\ \A i \in 0..(n + 1) :
               b[i] = IF i = 0 THEN {e} ELSE {e} \union Below(heap, b[i - 1])
        /\ \A i \in 0..0 :
               z[i] = IF i = 0 THEN {e} ELSE {e} \union Below(heap, z[i - 1])
    BY <2>1, Zenon DEF LevelsTo
  <2>4. a[n] = b[n]
    BY <2>1, LevelsUnique
  <2>5. /\ n + 1 \in 0..(n + 1) /\ (n + 1) - 1 = n /\ n + 1 # 0
        /\ 0 \in 0..0
    OBVIOUS
  <2>6. b[n + 1] = {e} \union Below(heap, b[n]) /\ z[0] = {e}
    BY <2>3, <2>5
  <2>7. QED
    BY <2>2, <2>4, <2>6
<1>3. g = [n \in Nat |-> g[n]]
  OBVIOUS
<1> HIDE DEF g
<1>4. ASSUME NEW n \in Nat
      PROVE  g[n] = IF n = 0 THEN {e} ELSE {e} \union Below(heap, g[n - 1])
  <2>1. CASE n = 0
    BY <1>2, <2>1
  <2>2. CASE n # 0
    <3>1. n - 1 \in Nat /\ (n - 1) + 1 = n
      BY <2>2
    <3>2. QED
      BY <1>2, <2>2, <3>1
  <2>3. QED
    BY <2>1, <2>2
<1>5. g = [n \in Nat |->
               IF n = 0 THEN {e}
               ELSE {e} \union UNION {ToSet(heap[a].children) : a \in g[n - 1]}]
  BY <1>3, <1>4, Zenon DEF Below
<1>6. Levels = [n \in Nat |->
               IF n = 0 THEN {e}
               ELSE {e} \union UNION {ToSet(heap[a].children) : a \in Levels[n - 1]}]
  BY <1>5, Zenon
<1>7. Subtree(heap, e) = Levels[Cardinality(DOMAIN heap)]
  BY Zenon DEF Subtree
<1> HIDE DEF Levels
<1>8. \A n \in Nat :
          Levels[n] = IF n = 0 THEN {e} ELSE {e} \union Below(heap, Levels[n - 1])
  BY <1>6, Zenon DEF Below
<1>9. Levels[0] = {e} /\ \A i \in Nat : Levels[i + 1] = {e} \union Below(heap, Levels[i])
  <2>1. \A i \in Nat : i + 1 \in Nat /\ i + 1 # 0 /\ (i + 1) - 1 = i
    OBVIOUS
  <2>2. ASSUME NEW i \in Nat PROVE Levels[i + 1] = {e} \union Below(heap, Levels[i])
    BY <1>8, <2>1
  <2>3. QED
    BY <1>8, <2>2
<1>10. QED
  BY <1>7, <1>9

LEMMA SubtreeIsAll ==
    ASSUME NEW heap, IsTree(heap), 1 \in DOMAIN heap
    PROVE  Subtree(heap, 1) = DOMAIN heap
<1>1. PICK n \in Nat : DOMAIN heap = 1..n
  BY DEF IsTree
<1>2. n # 0 /\ Cardinality(DOMAIN heap) = n
  <2>1. n # 0
    BY <1>1
  <2>2. Cardinality(1..n) = IF 1 > n THEN 0 ELSE n - 1 + 1
    BY FS_Interval
  <2>3. QED
    BY <1>1, <2>1, <2>2
<1>3. PICK f : /\ f[0] = {1}
               /\ \A i \in Nat : f[i + 1] = {1} \union Below(heap, f[i])
               /\ Subtree(heap, 1) = f[n]
  <2>1. Cardinality(DOMAIN heap) \in Nat
    BY <1>2
  <2>2. QED
    BY <1>2, <2>1, SubtreeLevels, ZenonT(30)
<1>4. /\ \A e \in DOMAIN heap : ToSet(heap[e].children) \subseteq DOMAIN heap
      /\ \A e \in DOMAIN heap \ {1} :
             /\ heap[e].parent \in DOMAIN heap
             /\ heap[e].parent < e
             /\ e \in ToSet(heap[heap[e].parent].children)
  <2>1. ASSUME NEW e \in DOMAIN heap
        PROVE  \A c \in ToSet(heap[e].children) :
                   c \in DOMAIN heap /\ e < c /\ heap[c].parent = e
    BY DEF IsTree, ToSet
  <2>2. QED
    BY <2>1 DEF IsTree
<1> DEFINE T == {i \in Nat : /\ f[i] \subseteq DOMAIN heap
                             /\ \A a \in DOMAIN heap : a <= i + 1 => a \in f[i]}
<1>5. 0 \in T
  <2>1. \A a \in DOMAIN heap : a <= 1 => a = 1
    BY <1>1
  <2>2. QED
    BY <1>3, <2>1
<1>6. ASSUME NEW i \in Nat, i \in T PROVE i + 1 \in T
  <2>1. f[i + 1] \subseteq DOMAIN heap
    BY <1>3, <1>4, <1>6 DEF Below
  <2>2. ASSUME NEW a \in DOMAIN heap, a <= (i + 1) + 1 PROVE a \in f[i + 1]
    <3>1. CASE a = 1
      BY <1>3, <3>1
    <3>2. CASE a # 1
      <4>1. heap[a].parent \in DOMAIN heap /\ heap[a].parent < a
        BY <1>4, <3>2
      <4>2. heap[a].parent <= i + 1
        BY <1>1, <2>2, <4>1
      <4>3. heap[a].parent \in f[i]
        BY <1>6, <4>1, <4>2
      <4>4. a \in Below(heap, f[i])
        BY <1>4, <3>2, <4>3 DEF Below
      <4>5. QED
        BY <1>3, <4>4
    <3>3. QED
      BY <3>1, <3>2
  <2>3. QED
    BY <2>1, <2>2
<1> HIDE DEF T
<1>7. Nat \subseteq T
  BY <1>5, <1>6, NatSetInduction, Zenon
<1>8. \A a \in DOMAIN heap : a <= n + 1
  BY <1>1
<1>9. QED
  BY <1>3, <1>7, <1>8 DEF T
-----------------------------------------------------------------------------
(* How the tree is built.                                                  *)

(* There is always an address left.                                        *)
LEMMA UnusedIs ==
    ASSUME NEW heap, IsFiniteSet(DOMAIN heap)
    PROVE  /\ Unused(heap) \in Nat \ {0}
           /\ Unused(heap) \in 1..(Cardinality(DOMAIN heap) + 1)
           /\ Unused(heap) \notin DOMAIN heap
<1> DEFINE c == Cardinality(DOMAIN heap)
<1>1. c \in Nat
  BY FS_CardinalityType
<1>2. ~(1..(c + 1) \subseteq DOMAIN heap)
  <2> SUFFICES ASSUME 1..(c + 1) \subseteq DOMAIN heap PROVE FALSE
    OBVIOUS
  <2>1. Cardinality(1..(c + 1)) <= c
    BY FS_Subset
  <2> HIDE DEF c
  <2>2. Cardinality(1..(c + 1)) = IF 1 > c + 1 THEN 0 ELSE (c + 1) - 1 + 1
    BY <1>1, FS_Interval
  <2>3. QED
    BY <1>1, <2>1, <2>2
<1>3. \E a \in 1..(c + 1) : a \notin DOMAIN heap
  BY <1>2
<1>4. Unused(heap) \in 1..(c + 1) /\ Unused(heap) \notin DOMAIN heap
  BY <1>3, Zenon DEF Unused
<1> HIDE DEF c
<1>5. Unused(heap) \in Nat \ {0}
  BY <1>1, <1>4
<1>6. QED
  BY <1>4, <1>5 DEF c

LEMMA UnusedElement ==
    ASSUME NEW heap, NEW n \in Nat, DOMAIN heap = 1..n
    PROVE  Unused(heap) = n + 1
<1>1. IsFiniteSet(1..n) /\ Cardinality(1..n) = n
  <2>1. IsFiniteSet(1..n) /\ Cardinality(1..n) = IF 1 > n THEN 0 ELSE n - 1 + 1
    BY FS_Interval
  <2>2. QED
    BY <2>1
<1>2. Unused(heap) \in 1..(n + 1) /\ Unused(heap) \notin 1..n
  BY <1>1, UnusedIs
<1>3. QED
  BY <1>2

LEMMA EmptyTree ==
    ASSUME NEW heap, DOMAIN heap = {}, heap \in [{} -> XmlElement]
    PROVE  IsTree(heap)
<1>1. 1..0 = {} /\ 0 \in Nat
  OBVIOUS
<1>2. QED
  BY <1>1 DEF IsTree

(* Freeing from the root on leaves nothing.                                *)
LEMMA FreeTreeIs ==
    ASSUME IsTree(nodes), rootP = IF DOMAIN nodes = {} THEN None ELSE 1
    PROVE  DOMAIN FreeTree = {} /\ IsTree(FreeTree)
<1>0. nodes \in [DOMAIN nodes -> XmlElement] /\ None # 1
  BY DEF IsTree, None
<1>1. CASE DOMAIN nodes = {}
  <2>1. FreeTree = nodes
    BY <1>1 DEF FreeTree
  <2>2. QED
    BY <1>1, <2>1
<1>2. CASE DOMAIN nodes # {}
  <2>1. PICK n \in Nat : DOMAIN nodes = 1..n
    BY DEF IsTree
  <2>2. 1 \in DOMAIN nodes
    BY <1>2, <2>1
  <2>3. Subtree(nodes, 1) = DOMAIN nodes
    BY <2>2, SubtreeIsAll
  <2>4. FreeTree = Without(nodes, DOMAIN nodes)
    BY <1>0, <1>2, <2>3 DEF FreeTree
  <2>5. /\ DOMAIN Without(nodes, DOMAIN nodes) = {}
        /\ Without(nodes, DOMAIN nodes) \in [{} -> XmlElement]
    BY DEF Without
  <2>6. QED
    BY <2>4, <2>5, EmptyTree
<1>3. QED
  BY <1>1, <1>2

NewElement(name, parent) ==
    [name |-> name, parent |-> parent, text |-> <<>>, children |-> <<>>]

LEMMA TreeRoot ==
    ASSUME NEW heap, DOMAIN heap = {}, NEW name \in STRING
    PROVE  IsTree(With(heap, 1, NewElement(name, None)))
<1> DEFINE g == With(heap, 1, NewElement(name, None))
<1>1. NewElement(name, None) \in XmlElement
  BY DEF NewElement, XmlElement, None
<1>2. /\ DOMAIN g = {1} /\ g[1] = NewElement(name, None)
      /\ g \in [{1} -> XmlElement]
  BY <1>1 DEF With
<1>3. g[1].parent = None /\ g[1].children = <<>>
  BY <1>2 DEF NewElement
<1> HIDE DEF g
<1>4. 1..1 = {1} /\ 1 \in Nat
  OBVIOUS
<1>5. QED
  BY <1>2, <1>3, <1>4, SMTT(30) DEF IsTree, g

(* An element more, the last child of up.                                  *)
Grown(heap, n, up, name, heap2) ==
    /\ DOMAIN heap2 = 1..(n + 1)
    /\ heap2 \in [1..(n + 1) -> XmlElement]
    /\ heap2[n + 1] = NewElement(name, up)
    /\ heap2[up] = [heap[up] EXCEPT !.children = Append(@, n + 1)]
    /\ \A e \in 1..n : e # up => heap2[e] = heap[e]

LEMMA GrownIs ==
    ASSUME NEW heap, IsTree(heap), NEW n \in Nat, DOMAIN heap = 1..n,
           NEW up \in 1..n, NEW name \in STRING
    PROVE  Grown(heap, n, up, name,
                 [With(heap, n + 1, NewElement(name, up)) EXCEPT
                      ![up].children = Append(@, n + 1)])
<1> DEFINE g == With(heap, n + 1, NewElement(name, up))
           h == [g EXCEPT ![up].children = Append(@, n + 1)]
<1>1. NewElement(name, up) \in XmlElement
  BY DEF NewElement, XmlElement
<1>2. heap \in [1..n -> XmlElement]
  BY DEF IsTree
<1>3. 1..(n + 1) = 1..n \union {n + 1} /\ n + 1 \notin 1..n
  OBVIOUS
<1>4. /\ DOMAIN g = 1..(n + 1) /\ g[n + 1] = NewElement(name, up)
      /\ \A e \in 1..n : g[e] = heap[e]
      /\ g \in [1..(n + 1) -> XmlElement]
  BY <1>1, <1>2, <1>3 DEF With
<1> HIDE DEF g
<1>5. /\ DOMAIN h = 1..(n + 1)
      /\ h[up] = [g[up] EXCEPT !.children = Append(@, n + 1)]
      /\ \A e \in 1..(n + 1) : e # up => h[e] = g[e]
      /\ h = [e \in 1..(n + 1) |-> h[e]]
  BY <1>3, <1>4
<1> HIDE DEF h
<1>6. [heap[up] EXCEPT !.children = Append(@, n + 1)] \in XmlElement
  <2>1. Append(heap[up].children, n + 1) \in Seq(Nat)
    BY <1>2 DEF XmlElement
  <2>2. heap[up] \in XmlElement
    BY <1>2
  <2>3. QED
    BY <2>1, <2>2 DEF XmlElement
<1>7. h \in [1..(n + 1) -> XmlElement]
  BY <1>4, <1>5, <1>6
<1>8. Grown(heap, n, up, name, h)
  BY <1>3, <1>4, <1>5, <1>7 DEF Grown
<1>9. QED
  BY <1>8 DEF h, g

GrownAs(heap, n, up, heap2) ==
    /\ IsTree(heap2)
    /\ heap2[up].children = Append(heap[up].children, n + 1)
    /\ heap2[up].name = heap[up].name /\ heap2[up].text = heap[up].text
    /\ heap2[up].parent = heap[up].parent

LEMMA GrownTree ==
    ASSUME NEW heap, IsTree(heap), NEW n \in Nat, DOMAIN heap = 1..n,
           NEW up \in 1..n, NEW name \in STRING, NEW heap2,
           Grown(heap, n, up, name, heap2)
    PROVE  GrownAs(heap, n, up, heap2)
<1>1. /\ heap \in [1..n -> XmlElement]
      /\ \A e \in 1..n : heap[e].children \in Seq(Nat)
  BY DEF IsTree, XmlElement
<1>2. /\ DOMAIN heap2 = 1..(n + 1)
      /\ heap2 \in [1..(n + 1) -> XmlElement]
      /\ heap2[n + 1] = NewElement(name, up)
      /\ heap2[up] = [heap[up] EXCEPT !.children = Append(@, n + 1)]
      /\ \A e \in 1..n : e # up => heap2[e] = heap[e]
  BY DEF Grown
<1>3. /\ heap2[up].children = Append(heap[up].children, n + 1)
      /\ heap2[up].name = heap[up].name /\ heap2[up].text = heap[up].text
      /\ heap2[up].parent = heap[up].parent
  BY <1>1, <1>2 DEF XmlElement
<1>4. heap2[n + 1].parent = up /\ heap2[n + 1].children = <<>>
  BY <1>2 DEF NewElement
<1>5. \A e \in 1..n : heap2[e].parent = heap[e].parent
  BY <1>2, <1>3
<1>6. \A e \in 1..n : \A i \in DOMAIN heap[e].children :
          LET child == heap[e].children[i] IN
          child \in 1..n /\ e < child /\ heap[child].parent = e
  BY DEF IsTree
<1>7. ASSUME NEW e \in 1..(n + 1), NEW i \in DOMAIN heap2[e].children
      PROVE  LET child == heap2[e].children[i] IN
             child \in 1..(n + 1) /\ e < child /\ heap2[child].parent = e
  <2>1. e # n + 1
    BY <1>4
  <2>2. e \in 1..n
    BY <2>1
  <2>3. CASE e # up
    <3>1. heap2[e].children = heap[e].children
      BY <1>2, <2>2, <2>3
    <3>2. heap[e].children[i] \in 1..n /\ heap[e].children[i] \in 1..(n + 1)
      BY <1>6, <2>2, <3>1
    <3>3. QED
      BY <1>5, <1>6, <2>2, <3>1, <3>2
  <2>4. CASE e = up
    <3> DEFINE k == Len(heap[up].children)
    <3>1. k \in Nat /\ DOMAIN heap[up].children = 1..k
      BY <1>1
    <3>2. /\ DOMAIN heap2[e].children = 1..(k + 1)
          /\ heap2[e].children[k + 1] = n + 1
          /\ \A j \in 1..k : heap2[e].children[j] = heap[up].children[j]
      <4> DEFINE s == heap[up].children
                 t == heap2[up].children
      <4>1. s \in Seq(Nat) /\ t = Append(s, n + 1) /\ n + 1 \in Nat /\ k = Len(s)
        BY <1>1, <1>3
      <4> HIDE DEF s, t, k
      <4>2. /\ t \in Seq(Nat) /\ Len(t) = k + 1 /\ t[k + 1] = n + 1
            /\ \A j \in 1..k : t[j] = s[j]
        BY <4>1, AppendProperties
      <4>3. DOMAIN t = 1..(k + 1)
        BY <4>2
      <4>4. QED
        BY <2>4, <4>2, <4>3 DEF s, t
    <3> HIDE DEF k
    <3>3. CASE i = k + 1
      BY <1>4, <2>4, <3>2, <3>3
    <3>4. CASE i # k + 1
      <4>1. i \in 1..k
        BY <3>1, <3>2, <3>4
      <4>2. heap2[e].children[i] = heap[up].children[i]
        BY <3>2, <4>1
      <4>3. /\ heap[up].children[i] \in 1..n
            /\ up < heap[up].children[i]
            /\ heap[heap[up].children[i]].parent = up
        BY <1>6, <3>1, <4>1
      <4>4. QED
        BY <1>5, <2>4, <4>2, <4>3
    <3>5. QED
      BY <3>3, <3>4
  <2>5. QED
    BY <2>3, <2>4
<1>8. ASSUME NEW e \in 1..n
      PROVE  ToSet(heap[e].children) \subseteq ToSet(heap2[e].children)
  <2>1. CASE e = up
    <3>1. \A i \in DOMAIN heap[up].children :
              /\ i \in DOMAIN heap2[up].children
              /\ heap2[up].children[i] = heap[up].children[i]
      BY <1>1, <1>3
    <3>2. QED
      BY <2>1, <3>1 DEF ToSet
  <2>2. CASE e # up
    BY <1>2, <2>2
  <2>3. QED
    BY <2>1, <2>2
<1>9. n + 1 \in ToSet(heap2[up].children)
  <2> DEFINE k == Len(heap[up].children)
  <2>1. k + 1 \in DOMAIN heap2[up].children /\ heap2[up].children[k + 1] = n + 1
    BY <1>1, <1>3
  <2>2. QED
    BY <2>1 DEF ToSet
<1>10. ASSUME NEW e \in 1..(n + 1) \ {1}
       PROVE  LET parent == heap2[e].parent IN
              parent \in 1..(n + 1) /\ e \in ToSet(heap2[parent].children)
  <2>1. CASE e = n + 1
    BY <1>4, <1>9, <2>1
  <2>2. CASE e # n + 1
    <3>1. e \in 1..n \ {1}
      BY <2>2
    <3>2. heap[e].parent \in 1..n /\ e \in ToSet(heap[heap[e].parent].children)
      BY <3>1 DEF IsTree
    <3>3. e \in 1..n /\ heap2[e].parent = heap[e].parent
      BY <1>5, <3>1
    <3>4. heap[e].parent \in 1..(n + 1)
      BY <3>2
    <3>5. e \in ToSet(heap2[heap[e].parent].children)
      BY <1>8, <3>2
    <3>6. QED
      BY <3>3, <3>4, <3>5
  <2>3. QED
    BY <2>1, <2>2
<1>11. heap2[1].parent = None
  <2>1. 1 \in 1..n
    OBVIOUS
  <2>2. QED
    BY <1>5, <2>1 DEF IsTree
<1>12. n + 1 \in Nat
  OBVIOUS
<1>13. IsTree(heap2)
  <2>1. \E m \in Nat : DOMAIN heap2 = 1..m
    BY <1>2, <1>12
  <2>2. \A e \in DOMAIN heap2 : \A i \in DOMAIN heap2[e].children :
           LET child == heap2[e].children[i] IN
           child \in DOMAIN heap2 /\ e < child /\ heap2[child].parent = e
    BY <1>2, <1>7
  <2>3. \A e \in DOMAIN heap2 \ {1} :
           LET parent == heap2[e].parent IN
           parent \in DOMAIN heap2 /\ e \in ToSet(heap2[parent].children)
    BY <1>2, <1>10
  <2>4. QED
    BY <1>2, <1>11, <2>1, <2>2, <2>3 DEF IsTree
<1>14. QED
  BY <1>3, <1>13 DEF GrownAs
-----------------------------------------------------------------------------
(* What is read, and what it becomes.                                      *)

Unreads == [text : Seq(STRING), children : Seq(Elements)]

LEMMA ElementsAre ==
    ASSUME NEW x \in Elements
    PROVE  /\ x.name \in STRING /\ x.text \in Seq(STRING)
           /\ x.children \in Seq(Elements)
  BY ElementsAssumption

LEMMA InnermostIs ==
    ASSUME ReadingOK
    PROVE  /\ Len(reading) \in Nat \ {0} /\ DOMAIN reading = 1..Len(reading)
           /\ Innermost = reading[Len(reading)]
           /\ \A i \in 1..Len(reading) : reading[i] \in Unreads
           /\ Innermost.text \in Seq(STRING) /\ Innermost.children \in Seq(Elements)
<1>1. reading \in Seq(Unreads) /\ reading # <<>>
  BY DEF ReadingOK, Unreads
<1>2. /\ Len(reading) \in Nat \ {0} /\ DOMAIN reading = 1..Len(reading)
      /\ \A i \in 1..Len(reading) : reading[i] \in Unreads
  BY <1>1
<1>3. Innermost = reading[Len(reading)]
  BY DEF Innermost, Last
<1>4. Innermost \in Unreads
  BY <1>2, <1>3
<1>5. QED
  BY <1>2, <1>3, <1>4 DEF Unreads

LEMMA Descends ==
    ASSUME ReadingOK, Innermost.children # <<>>,
           reading' =
               Append([reading EXCEPT ![Len(reading)].children = Tail(@)],
                      Unread(Head(Innermost.children).text,
                             Head(Innermost.children).children))
    PROVE  LET m == Len(reading)
               starting == Head(Innermost.children)
           IN  /\ ReadingOK' /\ Len(reading') = m + 1
               /\ starting \in Elements /\ starting = reading[m].children[1]
               /\ reading'[m + 1] = Unread(starting.text, starting.children)
               /\ reading'[m].text = reading[m].text
               /\ reading'[m].children = Tail(reading[m].children)
               /\ \A i \in 1..(m - 1) : reading'[i] = reading[i]
<1> DEFINE m == Len(reading)
           starting == Head(Innermost.children)
           r == [reading EXCEPT ![m].children = Tail(@)]
           u == Unread(starting.text, starting.children)
<1>1. /\ m \in Nat \ {0} /\ DOMAIN reading = 1..m /\ Innermost = reading[m]
      /\ \A i \in 1..m : reading[i] \in Unreads
      /\ Innermost.children \in Seq(Elements)
      /\ reading \in Seq(Unreads)
  BY InnermostIs DEF ReadingOK, Unreads
<1>2. starting \in Elements /\ starting = reading[m].children[1]
  BY <1>1
<1>3. Tail(reading[m].children) \in Seq(Elements)
  BY <1>1
<1>4. u \in Unreads
  BY <1>2, ElementsAre DEF Unread, Unreads
<1>5. [reading[m] EXCEPT !.children = Tail(@)] \in Unreads
  <2>1. reading[m] \in Unreads
    BY <1>1
  <2>2. QED
    BY <1>3, <2>1 DEF Unreads
<1>6. /\ r \in Seq(Unreads) /\ Len(r) = m
      /\ r[m] = [reading[m] EXCEPT !.children = Tail(@)]
      /\ \A i \in 1..(m - 1) : r[i] = reading[i]
  <2> DEFINE x == [reading[m] EXCEPT !.children = Tail(@)]
  <2>1. r = [reading EXCEPT ![m] = x]
    OBVIOUS
  <2>2. x \in Unreads
    BY <1>5
  <2> HIDE DEF x, r, m
  <2>3. m \in 1..m
    BY <1>1
  <2>4. /\ [reading EXCEPT ![m] = x] \in Seq(Unreads)
        /\ Len([reading EXCEPT ![m] = x]) = Len(reading)
        /\ \A j \in 1..Len(reading) :
               [reading EXCEPT ![m] = x][j] = IF j = m THEN x ELSE reading[j]
    BY <1>1, <2>2, <2>3, ExceptSeq DEF m
  <2>5. \A j \in 1..(m - 1) : j \in 1..m /\ j # m
    BY <1>1
  <2>6. Len(reading) = m
    BY DEF m
  <2>7. r \in Seq(Unreads) /\ Len(r) = m /\ r[m] = x
    BY <2>1, <2>3, <2>4, <2>6
  <2>8. \A j \in 1..(m - 1) : r[j] = reading[j]
    BY <2>1, <2>4, <2>5, <2>6
  <2>9. QED
    BY <2>7, <2>8 DEF x
<1>7. r[m].text = reading[m].text /\ r[m].children = Tail(reading[m].children)
  BY <1>1, <1>6 DEF Unreads
<1>8. reading' = Append(r, u)
  OBVIOUS
<1> HIDE DEF r, u, starting, m
<1>9. /\ reading' \in Seq(Unreads) /\ Len(reading') = m + 1
      /\ reading'[m + 1] = u
      /\ \A i \in 1..m : reading'[i] = r[i]
  <2> DEFINE a == Append(r, u)
  <2>1. /\ a \in Seq(Unreads) /\ Len(a) = Len(r) + 1 /\ a[Len(r) + 1] = u
        /\ \A i \in 1..Len(r) : a[i] = r[i]
    BY ONLY <1>4, <1>6, AppendProperties
  <2>2. reading' = a /\ Len(r) = m
    BY <1>6, <1>8
  <2> HIDE DEF a
  <2>3. QED
    BY ONLY <2>1, <2>2
<1>10. /\ reading'[m].text = reading[m].text
       /\ reading'[m].children = Tail(reading[m].children)
       /\ \A i \in 1..(m - 1) : reading'[i] = reading[i]
  <2>1. m \in 1..m /\ \A i \in 1..(m - 1) : i \in 1..m
    BY <1>1
  <2>2. QED
    BY <1>6, <1>7, <1>9, <2>1
<1>11. reading'[1].text = <<>>
  <2>1. CASE m = 1
    BY <1>10, <2>1 DEF ReadingOK
  <2>2. CASE m # 1
    <3>1. 1 \in 1..(m - 1)
      BY <1>1, <2>2
    <3>2. QED
      BY <1>10, <3>1 DEF ReadingOK
  <2>3. QED
    BY <2>1, <2>2
<1>12. ReadingOK'
  <2>1. reading' # <<>>
    BY <1>1, <1>9
  <2>2. QED
    BY <1>9, <1>11, <2>1 DEF ReadingOK, Unreads
<1>13. QED
  BY <1>2, <1>9, <1>10, <1>12 DEF m, starting, u

(* An element that has not changed is still a copy.                        *)
LEMMA CopiesStill ==
    ASSUME NEW heap, NEW heap2, NEW of, NEW of2, NEW e, NEW unread,
           Copies(heap, of, e, unread),
           heap2[e].name = heap[e].name, heap2[e].text = heap[e].text,
           heap2[e].children = heap[e].children, of2[e] = of[e],
           \A i \in DOMAIN heap[e].children :
               of2[heap[e].children[i]] = of[heap[e].children[i]]
    PROVE  Copies(heap2, of2, e, unread)
  BY ZenonT(30) DEF Copies
(* The copy of one that starts.                                            *)
LEMMA CopiesNew ==
    ASSUME NEW heap, NEW of, NEW e, NEW x \in Elements, NEW parent,
           heap[e] = NewElement(x.name, parent), of[e] = x
    PROVE  Copies(heap, of, e, Unread(x.text, x.children))
<1>1. x.text \in Seq(STRING) /\ x.children \in Seq(Elements)
  BY ElementsAre
<1>2. /\ heap[e].name = x.name /\ heap[e].text = <<>> /\ heap[e].children = <<>>
  BY DEF NewElement
<1>3. <<>> \o x.text = x.text
  BY <1>1, ConcatEmptySeq
<1>4. /\ Unread(x.text, x.children).text = x.text
      /\ Unread(x.text, x.children).children = x.children
  BY DEF Unread
<1>5. Len(<<>>) = 0 /\ DOMAIN <<>> = {} /\ Len(x.children) \in Nat
      /\ \A i \in DOMAIN x.children : 0 + i = i
  BY <1>1
<1>6. QED
  BY <1>2, <1>3, <1>4, <1>5 DEF Copies

(* The one above it has a child more, and one less to be read.             *)
AnotherChild(heap, heap2, of, of2, e, new, unread, unread2) ==
    /\ unread \in Unreads /\ unread.children # <<>>
    /\ unread2.text = unread.text /\ unread2.children = Tail(unread.children)
    /\ Copies(heap, of, e, unread)
    /\ heap[e].children \in Seq(Nat) /\ new \in Nat
    /\ heap2[e].name = heap[e].name /\ heap2[e].text = heap[e].text
    /\ heap2[e].children = Append(heap[e].children, new)
    /\ of2[e] = of[e]
    /\ \A i \in DOMAIN heap[e].children :
           of2[heap[e].children[i]] = of[heap[e].children[i]]
    /\ of2[new] = unread.children[1]

LEMMA CopiesMore ==
    ASSUME NEW heap, NEW heap2, NEW of, NEW of2, NEW e, NEW new,
           NEW unread, NEW unread2,
           AnotherChild(heap, heap2, of, of2, e, new, unread, unread2)
    PROVE  Copies(heap2, of2, e, unread2)
<1> USE DEF AnotherChild
<1> DEFINE c == heap[e].children
           d == heap2[e].children
           r == unread.children
           o == of[e].children
           t == Tail(r)
           k == Len(c)
           n == Len(r)
<1>1. c \in Seq(Nat) /\ r \in Seq(Elements) /\ r # <<>> /\ d = Append(c, new)
      /\ t = Tail(r)
  BY DEF Unreads
<1>2. /\ Len(o) = k + n
      /\ \A i \in DOMAIN c : of[c[i]] = o[i]
      /\ \A i \in DOMAIN r : o[k + i] = r[i]
  BY DEF Copies
<1>3. /\ \A i \in DOMAIN c : of2[c[i]] = of[c[i]]
      /\ of2[new] = r[1] /\ unread2.children = t
  OBVIOUS
<1>4. /\ heap2[e].name = of2[e].name
      /\ heap2[e].text \o unread2.text = of2[e].text
      /\ of2[e].children = o
  BY DEF Copies
<1> HIDE DEF c, d, r, o, t
<1>5. k \in Nat /\ DOMAIN c = 1..k /\ n \in Nat \ {0} /\ DOMAIN r = 1..n
  BY <1>1
<1>6. DOMAIN d = 1..(k + 1) /\ d[k + 1] = new /\ Len(d) = k + 1
      /\ \A i \in 1..k : d[i] = c[i]
  BY <1>1, AppendProperties
<1>7. Len(t) = n - 1 /\ DOMAIN t = 1..(n - 1)
      /\ \A i \in 1..(n - 1) : t[i] = r[i + 1]
  BY <1>1, HeadTailProperties
<1> HIDE DEF k, n
<1>8. Len(o) = Len(d) + Len(t)
  BY ONLY <1>2, <1>5, <1>6, <1>7
<1>9. ASSUME NEW i \in DOMAIN d PROVE of2[d[i]] = o[i]
  <2>1. CASE i = k + 1
    <3>1. 1 \in 1..n
      BY <1>5
    <3>2. 1 \in DOMAIN r
      BY <1>5, <3>1
    <3>3. o[k + 1] = r[1]
      BY ONLY <1>2, <3>2
    <3>4. QED
      BY <1>3, <1>6, <2>1, <3>3
  <2>2. CASE i # k + 1
    <3>1. i \in 1..k
      BY <1>5, <1>6, <2>2
    <3>2. QED
      BY ONLY <1>2, <1>3, <1>5, <1>6, <3>1
  <2>3. QED
    BY <2>1, <2>2
<1>10. ASSUME NEW i \in DOMAIN t PROVE o[Len(d) + i] = t[i]
  <2>1. i \in 1..(n - 1)
    BY <1>7
  <2>2. i + 1 \in 1..n /\ (k + 1) + i = k + (i + 1)
    BY ONLY <1>5, <2>1
  <2>3. o[k + (i + 1)] = r[i + 1]
    BY ONLY <1>2, <1>5, <2>2
  <2>4. t[i] = r[i + 1] /\ Len(d) = k + 1
    BY ONLY <1>6, <1>7, <2>1
  <2>5. o[Len(d) + i] = o[k + (i + 1)]
    BY ONLY <2>2, <2>4
  <2>6. QED
    BY ONLY <2>3, <2>4, <2>5
<1>11. QED
  BY <1>3, <1>4, <1>8, <1>9, <1>10 DEF Copies, d

LEMMA TakeHead ==
    ASSUME NEW V, NEW s \in Seq(V), NEW t \in Seq(V), t # <<>>
    PROVE  /\ Append(s, Head(t)) \o Tail(t) = s \o t
           /\ Append(s, Head(t)) \in Seq(V)
<1> DEFINE h == <<Head(t)>>
<1>1. Head(t) \in V /\ Tail(t) \in Seq(V) /\ h \in Seq(V)
  OBVIOUS
<1>2. h \o Tail(t) = t
  OBVIOUS
<1>3. Append(s, Head(t)) = s \o h
  BY <1>1, AppendIsConcat
<1> HIDE DEF h
<1>4. (s \o h) \o Tail(t) = s \o (h \o Tail(t))
  BY <1>1, ConcatAssociative
<1>5. QED
  BY <1>1, <1>2, <1>3, <1>4, SMTT(20)
-----------------------------------------------------------------------------
(* Expat's handlers keep the tree.                                         *)

LEMMA StillReading ==
    ASSUME TreeInv, pc = "expat", pc' = pc, document' = document,
           IsTree(nodes)', barfed' \in BOOLEAN, ReadingOK',
           ~barfed' => \E p, of : Building(p, of)',
           barfed' => ranOut',
           Scarce \cap Sloppy = {} /\ barfed' => DOMAIN nodes' = {}
    PROVE  TreeInv'
  BY DEF TreeInv

LEMMA PathStart ==
    ASSUME IsTree(nodes), ReadingOK, NEW p, NEW of, Building(p, of)
    PROVE  /\ Len(p) \in Nat /\ DOMAIN p = 1..Len(p) /\ Len(reading) = Len(p) + 1
           /\ DOMAIN nodes = {} => p = <<>> /\ Len(p) = 0 /\ currentP = None /\ rootP = None
           /\ DOMAIN nodes # {} => rootP = 1 /\ rootP # None
           /\ Innermost.children # <<>> =>
                  (DOMAIN nodes = {} <=> Len(p) = 0)
<1>1. /\ p \in Seq(DOMAIN nodes) /\ Len(p) + 1 = Len(reading)
      /\ rootP = IF DOMAIN nodes = {} THEN None ELSE 1
      /\ currentP = IF p = <<>> THEN None ELSE p[Len(p)]
      /\ reading[1].children = IF DOMAIN nodes = {} THEN <<document.root>> ELSE <<>>
  BY DEF Building
<1>2. Len(p) \in Nat /\ DOMAIN p = 1..Len(p) /\ Len(reading) = Len(p) + 1
  BY <1>1
<1>3. DOMAIN nodes = {} => p = <<>> /\ Len(p) = 0
  BY <1>1
<1>4. Len(p) = 0 => Innermost = reading[1]
  BY <1>2, InnermostIs
<1>5. None # 1
  BY DEF None
<1>6. QED
  BY <1>1, <1>2, <1>3, <1>4, <1>5

(* The innermost open element.                                             *)
LEMMA PathTop ==
    ASSUME IsTree(nodes), ReadingOK, NEW p, NEW of, Building(p, of), Len(p) # 0
    PROVE  LET k == Len(p)
           IN  /\ k \in Nat \ {0} /\ currentP = p[k] /\ currentP \in DOMAIN nodes
               /\ rootP = 1 /\ Innermost = reading[k + 1]
               /\ Copies(nodes, of, currentP, Innermost)
               /\ \A i \in 1..(k - 1) :
                      p[i] \in DOMAIN nodes /\ p[i] < currentP /\ p[i] # currentP
<1> DEFINE k == Len(p)
<1>1. /\ p \in Seq(DOMAIN nodes) /\ k + 1 = Len(reading) /\ p # <<>>
      /\ currentP = IF p = <<>> THEN None ELSE p[k]
      /\ \A i, j \in DOMAIN p : i < j => p[i] < p[j]
      /\ \A i \in DOMAIN p : Copies(nodes, of, p[i], reading[i + 1])
  BY DEF Building
<1>2. k \in Nat \ {0} /\ DOMAIN p = 1..k /\ \A i \in 1..k : p[i] \in DOMAIN nodes
  BY <1>1
<1> HIDE DEF k
<1>3. k \in 1..k /\ currentP = p[k] /\ currentP \in DOMAIN nodes
  BY <1>1, <1>2
<1>4. rootP = 1
  BY <1>3, PathStart
<1>5. Innermost = reading[k + 1]
  BY <1>1, InnermostIs
<1>6. Copies(nodes, of, currentP, Innermost)
  BY <1>1, <1>2, <1>3, <1>5
<1>7. PICK n \in Nat : DOMAIN nodes = 1..n
  BY DEF IsTree
<1>8. ASSUME NEW i \in 1..(k - 1)
      PROVE  p[i] \in DOMAIN nodes /\ p[i] < currentP /\ p[i] # currentP
  <2>1. i \in 1..k /\ i < k
    BY <1>2
  <2>2. p[i] \in 1..n /\ p[k] \in 1..n /\ p[i] < p[k]
    BY <1>1, <1>2, <1>3, <1>7, <2>1
  <2>3. QED
    BY <1>3, <1>7, <2>2
<1>9. QED
  BY <1>2, <1>3, <1>4, <1>5, <1>6, <1>8 DEF k

LEMMA FailureKeepsTree ==
    ASSUME TreeInv, pc = "expat", ~barfed, NEW site, HandlerFails(site),
           pc' = pc, document' = document, ReadingOK'
    PROVE  TreeInv'
<1>1. PICK p, of : Building(p, of)
  BY DEF TreeInv
<1>2. IsTree(nodes) /\ rootP = IF DOMAIN nodes = {} THEN None ELSE 1
  BY <1>1 DEF TreeInv, Building
<1>3. IsTree(nodes') /\ DOMAIN nodes' = {} /\ barfed' = TRUE /\ ranOut' = TRUE
  BY <1>2, FreeTreeIs DEF HandlerFails, RunsOut
<1>4. QED
  BY <1>3, StillReading

LEMMA IgnoredKeepsTree ==
    ASSUME TreeInv, pc = "expat", Ignored, pc' = pc, document' = document, ReadingOK'
    PROVE  TreeInv'
<1>1. /\ barfed /\ nodes' = nodes /\ barfed' = barfed /\ ranOut' = ranOut
  BY DEF Ignored
<1>2. QED
  BY <1>1, StillReading DEF TreeInv

LEMMA StartRoot ==
    ASSUME TreeInv, pc = "expat", StartElement, ~barfed, rootP = None,
           rootP' = Unused(nodes), currentP' = Unused(nodes),
           nodes' = With(nodes, Unused(nodes),
                        [name |-> Head(Innermost.children).name, parent |-> currentP,
                         text |-> <<>>, children |-> <<>>]),
           barfed' = barfed, ranOut' = ranOut
    PROVE  TreeInv'
<1> DEFINE starting == Head(Innermost.children)
<1>1. /\ IsTree(nodes) /\ ReadingOK /\ document \in Documents
      /\ pc' = pc /\ document' = document /\ Innermost.children # <<>>
      /\ reading' =
               Append([reading EXCEPT ![Len(reading)].children = Tail(@)],
                      Unread(starting.text, starting.children))
  BY DEF TreeInv, StartElement, Expat
<1>2. PICK p, of : Building(p, of)
  BY DEF TreeInv
<1>3. DOMAIN nodes = {}
  BY <1>1, <1>2, PathStart
<1>4. p = <<>> /\ Len(p) = 0 /\ Len(reading) = 1 /\ currentP = None
  <2>1. IsTree(nodes) /\ ReadingOK
    BY <1>1
  <2>2. p = <<>> /\ Len(p) = 0 /\ currentP = None /\ Len(reading) = Len(p) + 1
    BY ONLY <1>2, <1>3, <2>1, PathStart
  <2>3. QED
    BY <2>2
<1>5. /\ ReadingOK' /\ Len(reading') = 1 + 1
      /\ starting \in Elements /\ starting = reading[1].children[1]
      /\ reading'[1 + 1] = Unread(starting.text, starting.children)
      /\ reading'[1].children = Tail(reading[1].children)
  BY <1>1, <1>4, Descends
<1>6. reading[1].children = <<document.root>>
  BY <1>2, <1>3 DEF Building
<1>7. starting = document.root /\ reading'[1].children = <<>>
  BY <1>5, <1>6
<1>8. Unused(nodes) = 1
  <2>1. DOMAIN nodes = 1..0 /\ 0 + 1 = 1
    BY <1>3
  <2>2. QED
    BY <2>1, UnusedElement
<1>9. /\ nodes' = With(nodes, 1, NewElement(starting.name, None))
      /\ rootP' = 1 /\ currentP' = 1
  BY <1>4, <1>8 DEF NewElement
<1> HIDE DEF starting
<1>10. IsTree(nodes')
  BY <1>3, <1>5, <1>9, TreeRoot, ElementsAre
<1>11. DOMAIN nodes' = {1} /\ nodes'[1] = NewElement(starting.name, None)
  BY <1>3, <1>9 DEF With
<1>a. PICK q : q = <<1>>
  OBVIOUS
<1>b. PICK of2 : of2 = [x \in {1} |-> starting]
  OBVIOUS
<1>12. q \in Seq({1}) /\ Len(q) = 1 /\ DOMAIN q = {1} /\ q[1] = 1 /\ ToSet(q) = {1}
       /\ q # <<>>
  BY <1>a DEF ToSet
<1>13. of2 \in [{1} -> Elements] /\ of2[1] = starting
  BY <1>5, <1>b
<1>14. Copies(nodes', of2, 1, reading'[1 + 1])
  BY <1>5, <1>11, <1>13, CopiesNew
<1>15. nodes'[1].parent = None
  BY <1>11 DEF NewElement
<1>16. Building(q, of2)'
  <2>1. \A i, j \in {1} : ~(i < j)
    OBVIOUS
  <2>2. {1} # {} /\ {1} \ {1} = {}
    OBVIOUS
  <2>3. /\ q \in Seq(DOMAIN nodes') /\ Len(q) + 1 = Len(reading')
        /\ \A i \in DOMAIN q :
               nodes'[q[i]].parent = IF i = 1 THEN None ELSE q[i - 1]
        /\ \A i, j \in DOMAIN q : i < j => q[i] < q[j]
    BY <1>5, <1>11, <1>12, <1>15, <2>1
  <2>4. /\ currentP' = IF q = <<>> THEN None ELSE q[Len(q)]
        /\ rootP' = IF DOMAIN nodes' = {} THEN None ELSE 1
        /\ reading'[1].children =
               IF DOMAIN nodes' = {} THEN <<document'.root>> ELSE <<>>
    BY <1>7, <1>9, <1>11, <1>12
  <2>5. /\ of2 \in [DOMAIN nodes' -> Elements]
        /\ 1 \in DOMAIN nodes' => of2[1] = document'.root
    BY <1>1, <1>7, <1>11, <1>13
  <2>6. \A i \in DOMAIN q : Copies(nodes', of2, q[i], reading'[i + 1])
    BY <1>12, <1>14
  <2>7. DOMAIN nodes' \ ToSet(q) = {}
    BY <1>11, <1>12
  <2>8. QED
    BY ONLY <2>3, <2>4, <2>5, <2>6, <2>7 DEF Building
<1>17. barfed' \in BOOLEAN /\ ~barfed'
  BY SMTT(30) DEF TreeInv
<1>18. QED
  BY <1>1, <1>5, <1>10, <1>16, <1>17, StillReading
LEMMA StartChild ==
    ASSUME TreeInv, pc = "expat", StartElement, ~barfed, rootP # None,
           rootP' = rootP, currentP' = Unused(nodes),
           nodes' = [With(nodes, Unused(nodes),
                          [name |-> Head(Innermost.children).name, parent |-> currentP,
                           text |-> <<>>, children |-> <<>>])
                     EXCEPT ![currentP].children = Append(@, Unused(nodes))],
           barfed' = barfed, ranOut' = ranOut
    PROVE  TreeInv'
<1>1. /\ IsTree(nodes) /\ ReadingOK /\ document \in Documents
      /\ pc' = pc /\ document' = document /\ Innermost.children # <<>>
      /\ reading' =
               Append([reading EXCEPT ![Len(reading)].children = Tail(@)],
                      Unread(Head(Innermost.children).text,
                             Head(Innermost.children).children))
  BY DEF TreeInv, StartElement, Expat
<1>2. PICK p, of : Building(p, of)
  BY DEF TreeInv
<1>3. PICK n \in Nat : DOMAIN nodes = 1..n
  BY <1>1 DEF IsTree
<1>4. PICK starting : starting = Head(Innermost.children)
  OBVIOUS
<1>5. PICK k : k = Len(p)
  OBVIOUS
<1>6. DOMAIN nodes # {} /\ k # 0
  BY ONLY <1>1, <1>2, <1>5, rootP # None, PathStart
<1>7. /\ k \in Nat \ {0} /\ currentP = p[k] /\ currentP \in 1..n
      /\ rootP = 1 /\ Innermost = reading[k + 1]
      /\ Copies(nodes, of, currentP, Innermost)
      /\ \A i \in 1..(k - 1) : p[i] \in 1..n /\ p[i] # currentP
  BY ONLY <1>1, <1>2, <1>3, <1>5, <1>6, PathTop
<1>8. /\ Len(reading) = k + 1 /\ Len(p) = k /\ DOMAIN p = 1..k /\ p \in Seq(1..n)
  <2>1. Len(reading) = Len(p) + 1 /\ DOMAIN p = 1..Len(p)
    BY ONLY <1>1, <1>2, PathStart
  <2>2. p \in Seq(DOMAIN nodes)
    BY <1>2 DEF Building
  <2>3. QED
    BY <1>3, <1>5, <2>1, <2>2
<1>9. /\ ReadingOK' /\ Len(reading') = (k + 1) + 1
      /\ starting \in Elements /\ starting = reading[k + 1].children[1]
      /\ reading'[(k + 1) + 1] = Unread(starting.text, starting.children)
      /\ reading'[k + 1].text = reading[k + 1].text
      /\ reading'[k + 1].children = Tail(reading[k + 1].children)
      /\ \A i \in 1..((k + 1) - 1) : reading'[i] = reading[i]
  BY ONLY <1>1, <1>4, <1>8, Descends
<1>10. Unused(nodes) = n + 1
  BY <1>3, UnusedElement
<1>11. nodes' = [With(nodes, n + 1, NewElement(starting.name, currentP)) EXCEPT
                     ![currentP].children = Append(@, n + 1)]
  BY <1>4, <1>10 DEF NewElement
<1>12. starting.name \in STRING
  BY <1>9, ElementsAre
<1>13. Grown(nodes, n, currentP, starting.name, nodes')
  BY ONLY <1>1, <1>3, <1>7, <1>11, <1>12, GrownIs
<1>14. /\ IsTree(nodes')
       /\ nodes'[currentP].children = Append(nodes[currentP].children, n + 1)
       /\ nodes'[currentP].name = nodes[currentP].name
       /\ nodes'[currentP].text = nodes[currentP].text
       /\ nodes'[currentP].parent = nodes[currentP].parent
  <2>1. IsTree(nodes)
    BY SMTT(30), <1>1
  <2>2. currentP \in 1..n
    BY <1>7
  <2>3. n \in Nat /\ DOMAIN nodes = 1..n
    BY <1>3
  <2>4. GrownAs(nodes, n, currentP, nodes')
    BY ONLY <1>12, <1>13, <2>1, <2>2, <2>3, GrownTree
  <2>5. QED
    BY ONLY <2>4 DEF GrownAs
<1>15. /\ DOMAIN nodes' = 1..(n + 1)
       /\ nodes'[n + 1] = NewElement(starting.name, currentP)
       /\ \A e \in 1..n : e # currentP => nodes'[e] = nodes[e]
  BY <1>13 DEF Grown
<1>16. /\ n + 1 \notin 1..n /\ 1..(n + 1) = 1..n \union {n + 1} /\ n + 1 \in Nat
       /\ 1 \in 1..n
  BY <1>3, <1>6
<1>17. of \in [1..n -> Elements] /\ of[1] = document.root
  BY <1>2, <1>3, <1>16 DEF Building
<1>18. PICK of2 : of2 = [e \in 1..(n + 1) |-> IF e = n + 1 THEN starting ELSE of[e]]
  OBVIOUS
<1>19. /\ of2 \in [1..(n + 1) -> Elements] /\ of2[n + 1] = starting
       /\ \A e \in 1..n : of2[e] = of[e]
  BY <1>9, <1>16, <1>17, <1>18
<1>20. PICK q : q = Append(p, n + 1)
  OBVIOUS
<1>21. /\ q \in Seq(1..(n + 1)) /\ Len(q) = k + 1 /\ DOMAIN q = 1..(k + 1)
       /\ q[k + 1] = n + 1 /\ \A i \in 1..k : q[i] = p[i] /\ p[i] \in 1..n
  <2>1. p \in Seq(1..(n + 1)) /\ n + 1 \in 1..(n + 1)
    BY <1>8, <1>16, SeqMonotonic
  <2>2. /\ q \in Seq(1..(n + 1)) /\ Len(q) = k + 1
        /\ q[k + 1] = n + 1 /\ \A i \in 1..k : q[i] = p[i]
    BY ONLY <1>8, <1>20, <2>1, AppendProperties
  <2>3. \A i \in 1..k : p[i] \in 1..n
    BY ONLY <1>8, ElementOfSeq
  <2>4. DOMAIN q = 1..(k + 1)
    BY <2>2
  <2>5. QED
    BY <2>2, <2>3, <2>4
<1>22. \A e \in 1..n : \A i \in DOMAIN nodes[e].children :
           nodes[e].children[i] \in 1..n
  BY <1>1, <1>3 DEF IsTree
<1>23. \A e \in 1..n : \A i \in DOMAIN nodes[e].children :
           of2[nodes[e].children[i]] = of[nodes[e].children[i]]
  BY <1>19, <1>22
<1>24. Copies(nodes', of2, n + 1, reading'[(k + 1) + 1])
  BY ONLY <1>9, <1>15, <1>19, CopiesNew
<1>25. Copies(nodes', of2, currentP, reading'[k + 1])
  <2>1. reading[k + 1] \in Unreads /\ reading[k + 1].children # <<>>
    <3>1. ReadingOK /\ Innermost.children # <<>>
      BY <1>1
    <3>2. k + 1 \in 1..Len(reading) /\ Innermost = reading[k + 1]
      BY ONLY <1>7, <1>8
    <3>3. \A i \in 1..Len(reading) : reading[i] \in Unreads
      BY ONLY SMTT(30), <3>1, InnermostIs
    <3>4. QED
      BY ONLY <3>1, <3>2, <3>3
  <2>2. Copies(nodes, of, currentP, reading[k + 1])
    BY ONLY <1>7
  <2>3. nodes[currentP].children \in Seq(Nat) /\ of2[currentP] = of[currentP]
        /\ of2[n + 1] = reading[k + 1].children[1]
    BY ZenonT(40), <1>1, <1>3, <1>7, <1>9, <1>19 DEF IsTree, XmlElement
  <2>4. \A i \in DOMAIN nodes[currentP].children :
            of2[nodes[currentP].children[i]] = of[nodes[currentP].children[i]]
    BY <1>7, <1>23
  <2>5. /\ reading'[k + 1].text = reading[k + 1].text
        /\ reading'[k + 1].children = Tail(reading[k + 1].children)
    BY ONLY <1>9
  <2>6. /\ nodes'[currentP].children = Append(nodes[currentP].children, n + 1)
        /\ nodes'[currentP].name = nodes[currentP].name
        /\ nodes'[currentP].text = nodes[currentP].text
    BY <1>14
  <2>7. n + 1 \in Nat
    OBVIOUS
  <2>8. AnotherChild(nodes, nodes', of, of2, currentP, n + 1,
                     reading[k + 1], reading'[k + 1])
    BY ONLY <2>1, <2>2, <2>3, <2>4, <2>5, <2>6, <2>7 DEF AnotherChild
  <2>9. QED
    BY ONLY <2>8, CopiesMore
<1>26. ASSUME NEW e \in 1..n, e # currentP, NEW unread, Copies(nodes, of, e, unread)
       PROVE  Copies(nodes', of2, e, unread)
  <2>1. nodes'[e] = nodes[e] /\ of2[e] = of[e]
    BY <1>15, <1>19, <1>26
  <2>2. \A i \in DOMAIN nodes[e].children :
            of2[nodes[e].children[i]] = of[nodes[e].children[i]]
    BY <1>23
  <2>3. QED
    BY ONLY <1>26, <2>1, <2>2, CopiesStill
<1>27. \A i \in DOMAIN q : Copies(nodes', of2, q[i], reading'[i + 1])
  <2> SUFFICES ASSUME NEW i \in 1..(k + 1)
               PROVE  Copies(nodes', of2, q[i], reading'[i + 1])
    BY <1>21
  <2>1. CASE i = k + 1
    BY <1>21, <1>24, <2>1
  <2>2. CASE i = k
    <3>1. k \in 1..k
      BY ONLY <1>7
    <3>2. q[k] = currentP
      BY ONLY <1>7, <1>21, <3>1
    <3>3. QED
      BY ONLY <1>25, <2>2, <3>2
  <2>3. CASE i # k /\ i # k + 1
    <3>1. /\ i \in 1..(k - 1) /\ i \in 1..k /\ i + 1 \in 1..((k + 1) - 1)
      BY ONLY <1>7, <2>3, i \in 1..(k + 1)
    <3>2. q[i] = p[i] /\ reading'[i + 1] = reading[i + 1]
          /\ p[i] \in 1..n /\ p[i] # currentP
      BY ONLY <1>7, <1>9, <1>21, <3>1
    <3>3. Copies(nodes, of, p[i], reading[i + 1])
      BY <1>2, <1>8, <3>1 DEF Building
    <3>4. QED
      BY <1>26, <3>2, <3>3
  <2>4. QED
    BY <2>1, <2>2, <2>3
<1>28. \A e \in DOMAIN nodes' \ ToSet(q) : Copies(nodes', of2, e, Unread(<<>>, <<>>))
  <2> SUFFICES ASSUME NEW e \in DOMAIN nodes', e \notin ToSet(q)
               PROVE  Copies(nodes', of2, e, Unread(<<>>, <<>>))
    OBVIOUS
  <2>1. \A i \in 1..(k + 1) : e # q[i]
    BY <1>21 DEF ToSet
  <2>2. k \in 1..(k + 1) /\ k + 1 \in 1..(k + 1) /\ \A i \in 1..k : i \in 1..(k + 1)
    <3>1. k \in Nat \ {0}
      BY ONLY <1>7
    <3>2. QED
      BY ONLY <3>1
  <2>3. e # n + 1 /\ e # currentP /\ \A i \in 1..k : e # p[i]
    <3>1. k \in 1..k
      BY ONLY <1>7
    <3>2. QED
      BY ONLY <1>7, <1>21, <2>1, <2>2, <3>1
  <2>4. e \in 1..n /\ e \notin ToSet(p)
    BY <1>8, <1>15, <1>16, <2>3 DEF ToSet
  <2>5. Copies(nodes, of, e, Unread(<<>>, <<>>))
    BY <1>2, <1>3, <2>4 DEF Building
  <2>6. QED
    BY <1>26, <2>3, <2>4, <2>5
<1>29. \A i, j \in DOMAIN q : i < j => q[i] < q[j]
  <2> SUFFICES ASSUME NEW i \in 1..(k + 1), NEW j \in 1..(k + 1), i < j
               PROVE  q[i] < q[j]
    BY <1>21
  <2>1. i \in 1..k /\ q[i] = p[i] /\ p[i] \in 1..n
    BY ONLY <1>7, <1>21, i < j, i \in 1..(k + 1), j \in 1..(k + 1)
  <2>2. CASE j = k + 1
    <3>1. p[i] < n + 1
      BY <1>16, <2>1
    <3>2. QED
      BY <1>21, <2>1, <2>2, <3>1
  <2>3. CASE j # k + 1
    <3>1. j \in 1..k
      BY ONLY <1>7, <2>3, j \in 1..(k + 1)
    <3>2. \A x, y \in DOMAIN p : x < y => p[x] < p[y]
      BY <1>2 DEF Building
    <3>3. QED
      BY <1>8, <1>21, <2>1, <3>1, <3>2
  <2>4. QED
    BY <2>2, <2>3
<1>30. \A i \in DOMAIN q : nodes'[q[i]].parent = IF i = 1 THEN None ELSE q[i - 1]
  <2> SUFFICES ASSUME NEW i \in DOMAIN q
               PROVE  nodes'[q[i]].parent = IF i = 1 THEN None ELSE q[i - 1]
    OBVIOUS
  <2>0. i \in 1..(k + 1)
    BY ONLY <1>21, i \in DOMAIN q
  <2>1. CASE i = k + 1
    <3>1. nodes'[n + 1].parent = currentP
      BY <1>15 DEF NewElement
    <3>2. i # 1 /\ i - 1 = k /\ k \in 1..k
      BY ONLY <1>7, <2>1
    <3>3. QED
      BY <1>7, <1>21, <2>1, <3>1, <3>2
  <2>2. CASE i # k + 1
    <3>1. i \in 1..k /\ (i # 1 => i - 1 \in 1..k)
      BY ONLY <1>7, <2>0, <2>2
    <3>2. nodes[p[i]].parent = IF i = 1 THEN None ELSE p[i - 1]
      BY SMTT(30), <1>2, <1>8, <3>1 DEF Building
    <3>3. nodes'[p[i]].parent = nodes[p[i]].parent
      BY <1>14, <1>15, <1>21, <3>1
    <3>4. QED
      BY SMTT(30), <1>21, <3>1, <3>2, <3>3
  <2>3. QED
    BY <2>1, <2>2
<1>31. Building(q, of2)'
  <2>1. /\ q \in Seq(DOMAIN nodes') /\ Len(q) + 1 = Len(reading')
    BY <1>9, <1>15, <1>21
  <2>2. DOMAIN nodes' # {} /\ q # <<>>
    <3>1. 1 \in DOMAIN nodes' /\ k + 1 \in 1..(k + 1)
      BY ONLY <1>7, <1>15, <1>16
    <3>2. k + 1 \in DOMAIN q
      BY ONLY <1>21, <3>1
    <3>3. QED
      BY ONLY <3>1, <3>2
  <2>3. currentP' = IF q = <<>> THEN None ELSE q[Len(q)]
    BY SMTT(30), <1>10, <1>21, <2>2
  <2>4. rootP' = IF DOMAIN nodes' = {} THEN None ELSE 1
    BY <1>7, <2>2
  <2>5. reading'[1].children = IF DOMAIN nodes' = {} THEN <<document'.root>> ELSE <<>>
    <3>1. reading[1].children = <<>>
      BY <1>2, <1>6 DEF Building
    <3>2. 1 \in 1..((k + 1) - 1)
      BY ONLY <1>7
    <3>3. reading'[1] = reading[1]
      BY <1>9, <3>2
    <3>4. QED
      BY <2>2, <3>1, <3>3
  <2>6. /\ of2 \in [DOMAIN nodes' -> Elements]
        /\ 1 \in DOMAIN nodes' => of2[1] = document'.root
    BY <1>1, <1>15, <1>16, <1>17, <1>19
  <2>7. QED
    BY ONLY SMTT(30), <1>27, <1>28, <1>29, <1>30, <2>1, <2>3, <2>4, <2>5, <2>6 DEF Building
<1>32. barfed' \in BOOLEAN /\ ~barfed'
  BY SMTT(30) DEF TreeInv
<1>33. QED
  BY <1>1, <1>9, <1>14, <1>31, <1>32, StillReading

LEMMA StartElementKeepsTree ==
    ASSUME TreeInv, StartElement
    PROVE  TreeInv'
<1>1. /\ pc = "expat" /\ pc' = pc /\ document' = document /\ ReadingOK
      /\ Innermost.children # <<>>
  BY SMTT(30) DEF TreeInv, StartElement, Expat
<1>2. ReadingOK'
  BY <1>1, Descends DEF StartElement
<1>3. CASE Ignored
  BY <1>1, <1>2, <1>3, IgnoredKeepsTree
<1>4. CASE ~barfed /\ (HandlerFails("element") \/ HandlerFails("child"))
  BY <1>1, <1>2, <1>4, FailureKeepsTree
<1>5. CASE /\ ~barfed /\ rootP = None
           /\ rootP' = Unused(nodes) /\ currentP' = Unused(nodes)
           /\ nodes' = With(nodes, Unused(nodes),
                            [name |-> Head(Innermost.children).name,
                             parent |-> currentP,
                             text |-> <<>>, children |-> <<>>])
           /\ UNCHANGED <<barfed, ranOut>>
  BY <1>1, <1>5, StartRoot
<1>6. CASE /\ ~barfed /\ rootP # None
           /\ rootP' = rootP /\ currentP' = Unused(nodes)
           /\ nodes' = [With(nodes, Unused(nodes),
                             [name |-> Head(Innermost.children).name,
                              parent |-> currentP,
                              text |-> <<>>, children |-> <<>>])
                        EXCEPT ![currentP].children = Append(@, Unused(nodes))]
           /\ UNCHANGED <<barfed, ranOut>>
  BY <1>1, <1>6, StartChild
<1>7. QED
  BY ZenonT(30), <1>3, <1>4, <1>5, <1>6 DEF StartElement

LEMMA Ascends ==
    ASSUME ReadingOK, Len(reading) > 1, reading' = Front(reading)
    PROVE  /\ ReadingOK' /\ Len(reading') = Len(reading) - 1
           /\ \A i \in 1..(Len(reading) - 1) : reading'[i] = reading[i]
<1>1. reading \in Seq(Unreads) /\ reading # <<>> /\ reading[1].text = <<>>
  BY DEF ReadingOK, Unreads
<1>2. /\ reading' \in Seq(Unreads) /\ Len(reading) \in Nat \ {0}
      /\ Len(reading') = Len(reading) - 1
      /\ \A i \in 1..(Len(reading) - 1) : reading'[i] = reading[i]
  BY ONLY <1>1, reading' = Front(reading), FrontIs
<1>3. reading' # <<>> /\ 1 \in 1..(Len(reading) - 1)
  BY <1>2
<1>4. reading'[1].text = <<>>
  BY <1>1, <1>2, <1>3
<1>5. QED
  BY <1>2, <1>3, <1>4 DEF ReadingOK, Unreads

LEMMA EndPath ==
    ASSUME TreeInv, pc = "expat", ~barfed, Len(reading) > 1,
           Innermost = Unread(<<>>, <<>>), reading' = Front(reading),
           currentP' = nodes[currentP].parent, nodes' = nodes, rootP' = rootP,
           document' = document
    PROVE  \E p, of : Building(p, of)'
<1>1. IsTree(nodes) /\ ReadingOK
  BY DEF TreeInv
<1>2. PICK p, of : Building(p, of)
  BY DEF TreeInv
<1>3. PICK k : k = Len(p)
  OBVIOUS
<1>4. Len(reading) = k + 1 /\ Len(p) = k /\ DOMAIN p = 1..k /\ k \in Nat
  BY ONLY <1>1, <1>2, <1>3, PathStart
<1>5. k # 0
  BY <1>4
<1>6. /\ k \in Nat \ {0} /\ currentP = p[k] /\ currentP \in DOMAIN nodes
      /\ rootP = 1 /\ Innermost = reading[k + 1]
      /\ Copies(nodes, of, currentP, Innermost)
  BY ONLY <1>1, <1>2, <1>3, <1>5, PathTop
<1>7. /\ p \in Seq(DOMAIN nodes)
      /\ \A i \in DOMAIN p :
             nodes[p[i]].parent = IF i = 1 THEN None ELSE p[i - 1]
      /\ \A i, j \in DOMAIN p : i < j => p[i] < p[j]
      /\ reading[1].children = IF DOMAIN nodes = {} THEN <<document.root>> ELSE <<>>
      /\ rootP = IF DOMAIN nodes = {} THEN None ELSE 1
      /\ of \in [DOMAIN nodes -> Elements]
      /\ 1 \in DOMAIN nodes => of[1] = document.root
      /\ \A i \in DOMAIN p : Copies(nodes, of, p[i], reading[i + 1])
      /\ \A e \in DOMAIN nodes \ ToSet(p) : Copies(nodes, of, e, Unread(<<>>, <<>>))
  BY <1>2 DEF Building
<1>8. p # <<>> /\ \A i \in 1..(k - 1) : i \in 1..k
  BY <1>4, <1>5
<1>9. PICK q : q = Front(p)
  OBVIOUS
<1>10. /\ q \in Seq(DOMAIN nodes) /\ Len(q) = k - 1 /\ \A i \in 1..(k - 1) : q[i] = p[i]
  BY ONLY <1>4, <1>7, <1>8, <1>9, FrontIs
<1>11. DOMAIN q = 1..(k - 1)
  BY <1>10
<1>12. /\ Len(reading') = k
       /\ \A i \in 1..k : reading'[i] = reading[i]
  <2>1. (k + 1) - 1 = k
    BY <1>4
  <2>2. Len(reading) > 1 /\ reading' = Front(reading)
    OBVIOUS
  <2>3. QED
    BY ONLY <1>1, <1>4, <2>1, <2>2, Ascends
<1>13. \A i \in DOMAIN q :
           nodes[q[i]].parent = IF i = 1 THEN None ELSE q[i - 1]
  <2> SUFFICES ASSUME NEW i \in 1..(k - 1)
               PROVE  nodes[q[i]].parent = IF i = 1 THEN None ELSE q[i - 1]
    BY <1>11
  <2>1. i # 1 => i - 1 \in 1..(k - 1)
    BY <1>6
  <2>2. QED
    BY <1>4, <1>7, <1>8, <1>10, <2>1
<1>14. \A i, j \in DOMAIN q : i < j => q[i] < q[j]
  BY <1>4, <1>7, <1>8, <1>10, <1>11
<1>15. currentP' = IF q = <<>> THEN None ELSE q[Len(q)]
  <2>1. currentP' = IF k = 1 THEN None ELSE p[k - 1]
    <3>1. k \in DOMAIN p
      BY <1>4, <1>6
    <3>2. QED
      BY <1>6, <1>7, <3>1
  <2>2. CASE k = 1
    <3>1. q = <<>>
      BY <1>10, <2>2
    <3>2. QED
      BY <2>1, <2>2, <3>1
  <2>3. CASE k # 1
    <3>1. q # <<>> /\ k - 1 \in 1..(k - 1)
      BY <1>6, <1>10, <2>3
    <3>2. QED
      BY <1>10, <2>1, <2>3, <3>1
  <2>4. QED
    BY <2>2, <2>3
<1>16. \A i \in DOMAIN q : Copies(nodes, of, q[i], reading'[i + 1])
  <2> SUFFICES ASSUME NEW i \in 1..(k - 1)
               PROVE  Copies(nodes, of, q[i], reading'[i + 1])
    BY <1>11
  <2>1. i \in 1..k /\ i + 1 \in 1..k /\ q[i] = p[i]
    BY <1>6, <1>10
  <2>2. Copies(nodes, of, p[i], reading[i + 1])
    BY <1>4, <1>7, <2>1
  <2>3. QED
    BY <1>12, <2>1, <2>2
<1>17. \A e \in DOMAIN nodes \ ToSet(q) : Copies(nodes, of, e, Unread(<<>>, <<>>))
  <2> SUFFICES ASSUME NEW e \in DOMAIN nodes, e \notin ToSet(q)
               PROVE  Copies(nodes, of, e, Unread(<<>>, <<>>))
    OBVIOUS
  <2>1. CASE e = currentP
    BY <1>6, <2>1
  <2>2. CASE e # currentP
    <3>1. \A i \in 1..(k - 1) : e # p[i]
      BY <1>10, <1>11 DEF ToSet
    <3>2. \A i \in 1..k : i = k \/ i \in 1..(k - 1)
      BY <1>6
    <3>3. e \notin ToSet(p)
      BY <1>4, <1>6, <2>2, <3>1, <3>2 DEF ToSet
    <3>4. QED
      BY <1>7, <3>3
  <2>3. QED
    BY <2>1, <2>2
<1>18. reading'[1] = reading[1]
  <2>1. 1 \in 1..k
    BY <1>6
  <2>2. QED
    BY <1>12, <2>1
<1>19. Len(q) + 1 = Len(reading')
  BY <1>6, <1>10, <1>12
<1>20. nodes' = nodes /\ rootP' = rootP /\ document' = document
  OBVIOUS
<1>21. Building(q, of)'
  BY ONLY <1>7, <1>10, <1>13, <1>14, <1>15, <1>16, <1>17, <1>18, <1>19, <1>20
     DEF Building
<1>22. QED
  BY <1>21

LEMMA EndElementKeepsTree ==
    ASSUME TreeInv, EndElement
    PROVE  TreeInv'
<1>1. /\ pc = "expat" /\ pc' = pc /\ document' = document /\ ReadingOK
      /\ Len(reading) > 1 /\ reading' = Front(reading)
      /\ Innermost = Unread(<<>>, <<>>)
  BY DEF TreeInv, EndElement, Expat
<1>2. ReadingOK'
  BY ONLY <1>1, Ascends
<1>3. CASE Ignored
  BY <1>1, <1>2, <1>3, IgnoredKeepsTree
<1>4. CASE ~barfed /\ HandlerFails("close")
  BY <1>1, <1>2, <1>4, FailureKeepsTree
<1>5. CASE /\ ~barfed /\ currentP' = nodes[currentP].parent
           /\ UNCHANGED <<nodes, rootP, barfed, ranOut>>
  <2>1. \E p, of : Building(p, of)'
    BY <1>1, <1>5, EndPath
  <2>2. IsTree(nodes)' /\ barfed' \in BOOLEAN /\ ~barfed'
    BY <1>5 DEF TreeInv
  <2>3. QED
    BY <1>1, <1>2, <2>1, <2>2, StillReading
<1>6. QED
  BY <1>3, <1>4, <1>5 DEF EndElement

LEMMA Reads ==
    ASSUME ReadingOK, Innermost.text # <<>>,
           reading' = [reading EXCEPT ![Len(reading)].text = Tail(@)]
    PROVE  LET m == Len(reading)
           IN  /\ ReadingOK' /\ Len(reading') = m /\ m > 1
               /\ reading'[m].text = Tail(reading[m].text)
               /\ reading'[m].children = reading[m].children
               /\ \A i \in 1..(m - 1) : reading'[i] = reading[i]
<1> DEFINE m == Len(reading)
           x == [reading[m] EXCEPT !.text = Tail(@)]
<1>1. /\ m \in Nat \ {0} /\ DOMAIN reading = 1..m /\ Innermost = reading[m]
      /\ \A i \in 1..m : reading[i] \in Unreads
      /\ Innermost.text \in Seq(STRING)
      /\ reading \in Seq(Unreads) /\ reading[1].text = <<>>
  BY InnermostIs DEF ReadingOK, Unreads
<1>2. m \in 1..m /\ m > 1
  <2>1. m # 1
    BY <1>1
  <2> HIDE DEF m
  <2>2. QED
    BY <1>1, <2>1
<1>3. Tail(reading[m].text) \in Seq(STRING) /\ reading[m] \in Unreads
  <2>1. PICK t : t = reading[m].text
    OBVIOUS
  <2>2. t \in Seq(STRING) /\ t # <<>>
    BY <1>1, <2>1
  <2>3. Tail(t) \in Seq(STRING)
    BY ONLY <2>2
  <2>4. reading[m] \in Unreads
    BY <1>1, <1>2
  <2>5. QED
    BY ONLY <2>1, <2>3, <2>4
<1>4. /\ x \in Unreads
      /\ x.text = Tail(reading[m].text) /\ x.children = reading[m].children
  BY <1>3 DEF Unreads
<1>5. reading' = [reading EXCEPT ![m] = x]
  OBVIOUS
<1> HIDE DEF x
<1>6. /\ [reading EXCEPT ![m] = x] \in Seq(Unreads)
      /\ Len([reading EXCEPT ![m] = x]) = Len(reading)
      /\ \A j \in 1..Len(reading) :
             [reading EXCEPT ![m] = x][j] = IF j = m THEN x ELSE reading[j]
  BY <1>1, <1>2, <1>4, ExceptSeq
<1>7. Len(reading) = m
  BY DEF m
<1> HIDE DEF m
<1>8. \A i \in 1..(m - 1) : i \in 1..m /\ i # m
  BY <1>1
<1>9. /\ reading' \in Seq(Unreads) /\ Len(reading') = m /\ reading'[m] = x
      /\ \A i \in 1..(m - 1) : reading'[i] = reading[i]
  BY ONLY <1>2, <1>5, <1>6, <1>7, <1>8
<1>10. reading'[1].text = <<>>
  <2>1. 1 \in 1..(m - 1)
    BY <1>1, <1>2
  <2>2. QED
    BY <1>1, <1>9, <2>1
<1>11. ReadingOK'
  <2>1. reading' # <<>>
    BY <1>1, <1>9
  <2>2. QED
    BY <1>9, <1>10, <2>1 DEF ReadingOK, Unreads
<1>12. QED
  BY <1>2, <1>4, <1>9, <1>11 DEF m

(* An element with another text.                                           *)
Texted(heap, e, text, heap2) ==
    /\ DOMAIN heap2 = DOMAIN heap
    /\ heap2[e].name = heap[e].name /\ heap2[e].parent = heap[e].parent
    /\ heap2[e].children = heap[e].children /\ heap2[e].text = text
    /\ \A a \in DOMAIN heap : a # e => heap2[a] = heap[a]

LEMMA TextedIs ==
    ASSUME NEW heap, IsTree(heap), NEW e \in DOMAIN heap, NEW text \in Seq(STRING)
    PROVE  LET heap2 == [heap EXCEPT ![e].text = text]
           IN  Texted(heap, e, text, heap2) /\ heap2 \in [DOMAIN heap -> XmlElement]
<1>1. heap \in [DOMAIN heap -> XmlElement]
  BY DEF IsTree
<1>2. QED
  BY <1>1 DEF Texted, XmlElement

LEMMA TextedTree ==
    ASSUME NEW heap, IsTree(heap), NEW e \in DOMAIN heap, NEW text, NEW heap2,
           Texted(heap, e, text, heap2), heap2 \in [DOMAIN heap -> XmlElement]
    PROVE  IsTree(heap2)
<1>1. \A a \in DOMAIN heap : /\ heap2[a].parent = heap[a].parent
                             /\ heap2[a].children = heap[a].children
  BY DEF Texted
<1>2. DOMAIN heap2 = DOMAIN heap
  BY DEF Texted
<1>3. /\ \E n \in Nat : DOMAIN heap = 1..n
      /\ \A a \in DOMAIN heap : \A i \in DOMAIN heap[a].children :
             LET child == heap[a].children[i] IN
             child \in DOMAIN heap /\ a < child /\ heap[child].parent = a
      /\ 1 \in DOMAIN heap => heap[1].parent = None
      /\ \A a \in DOMAIN heap \ {1} :
             LET parent == heap[a].parent IN
             parent \in DOMAIN heap /\ a \in ToSet(heap[parent].children)
  BY DEF IsTree
<1>4. \A a \in DOMAIN heap2 : \A i \in DOMAIN heap2[a].children :
          LET child == heap2[a].children[i] IN
          child \in DOMAIN heap2 /\ a < child /\ heap2[child].parent = a
  BY <1>1, <1>2, <1>3
<1>5. \A a \in DOMAIN heap2 \ {1} :
          LET parent == heap2[a].parent IN
          parent \in DOMAIN heap2 /\ a \in ToSet(heap2[parent].children)
  BY <1>1, <1>2, <1>3
<1>6. 1 \in DOMAIN heap2 => heap2[1].parent = None
  BY <1>1, <1>2, <1>3
<1>7. (\E n \in Nat : DOMAIN heap2 = 1..n) /\ heap2 \in [DOMAIN heap2 -> XmlElement]
  BY <1>2, <1>3
<1>8. QED
  BY ONLY <1>4, <1>5, <1>6, <1>7 DEF IsTree

(* A piece of text more in the element, and one less to be read.           *)
LEMMA CopiesText ==
    ASSUME NEW heap, NEW heap2, NEW of, NEW e, NEW unread \in Unreads, NEW unread2,
           Copies(heap, of, e, unread), unread.text # <<>>,
           unread2.text = Tail(unread.text), unread2.children = unread.children,
           heap[e].text \in Seq(STRING),
           Texted(heap, e, Append(heap[e].text, Head(unread.text)), heap2)
    PROVE  Copies(heap2, of, e, unread2)
<1>1. /\ heap2[e].name = heap[e].name
      /\ heap2[e].children = heap[e].children
      /\ heap2[e].text = Append(heap[e].text, Head(unread.text))
  BY DEF Texted
<1>2. /\ heap[e].name = of[e].name
      /\ heap[e].text \o unread.text = of[e].text
      /\ Len(of[e].children) = Len(heap[e].children) + Len(unread.children)
      /\ \A i \in DOMAIN heap[e].children : of[heap[e].children[i]] = of[e].children[i]
      /\ \A i \in DOMAIN unread.children :
             of[e].children[Len(heap[e].children) + i] = unread.children[i]
  BY DEF Copies
<1>3. unread.text \in Seq(STRING)
  BY DEF Unreads
<1>4. Append(heap[e].text, Head(unread.text)) \o Tail(unread.text)
          = heap[e].text \o unread.text
  BY ONLY <1>3, unread.text # <<>>, heap[e].text \in Seq(STRING), TakeHead
<1>5. heap2[e].text \o unread2.text = of[e].text
  BY <1>1, <1>2, <1>4
<1>6. unread2.children = unread.children
  OBVIOUS
<1>7. QED
  BY ONLY <1>1, <1>2, <1>5, <1>6 DEF Copies

LEMMA TextPath ==
    ASSUME TreeInv, pc = "expat", ~barfed, Innermost.text # <<>>,
           reading' = [reading EXCEPT ![Len(reading)].text = Tail(@)],
           nodes' = [nodes EXCEPT ![currentP].text =
                         Append(@, Head(Innermost.text))],
           currentP' = currentP, rootP' = rootP, document' = document
    PROVE  IsTree(nodes') /\ \E p, of : Building(p, of)'
<1>1. IsTree(nodes) /\ ReadingOK
  BY DEF TreeInv
<1>2. PICK p, of : Building(p, of)
  BY DEF TreeInv
<1>3. PICK k : k = Len(p)
  OBVIOUS
<1>4. PICK m : m = Len(reading)
  OBVIOUS
<1>5. /\ ReadingOK' /\ Len(reading') = m /\ m > 1
      /\ reading'[m].text = Tail(reading[m].text)
      /\ reading'[m].children = reading[m].children
      /\ \A i \in 1..(m - 1) : reading'[i] = reading[i]
  BY <1>1, <1>4, Reads
<1>6. Len(reading) = k + 1 /\ Len(p) = k /\ DOMAIN p = 1..k /\ k \in Nat
  BY ONLY <1>1, <1>2, <1>3, PathStart
<1>7. m = k + 1 /\ k # 0
  BY <1>4, <1>5, <1>6
<1>8. /\ k \in Nat \ {0} /\ currentP = p[k] /\ currentP \in DOMAIN nodes
      /\ rootP = 1 /\ Innermost = reading[k + 1]
      /\ Copies(nodes, of, currentP, Innermost)
      /\ \A i \in 1..(k - 1) : p[i] \in DOMAIN nodes /\ p[i] # currentP
  BY ONLY <1>1, <1>2, <1>3, <1>7, PathTop
<1>9. /\ p \in Seq(DOMAIN nodes) /\ Len(p) + 1 = Len(reading)
      /\ \A i \in DOMAIN p :
             nodes[p[i]].parent = IF i = 1 THEN None ELSE p[i - 1]
      /\ \A i, j \in DOMAIN p : i < j => p[i] < p[j]
      /\ currentP = IF p = <<>> THEN None ELSE p[Len(p)]
      /\ reading[1].children = IF DOMAIN nodes = {} THEN <<document.root>> ELSE <<>>
      /\ rootP = IF DOMAIN nodes = {} THEN None ELSE 1
      /\ of \in [DOMAIN nodes -> Elements]
      /\ 1 \in DOMAIN nodes => of[1] = document.root
      /\ \A i \in DOMAIN p : Copies(nodes, of, p[i], reading[i + 1])
      /\ \A e \in DOMAIN nodes \ ToSet(p) : Copies(nodes, of, e, Unread(<<>>, <<>>))
  BY <1>2 DEF Building
<1>10. Innermost \in Unreads /\ Innermost.text \in Seq(STRING) /\ Innermost.text # <<>>
  <2>1. m \in 1..m
    BY <1>6, <1>7
  <2>2. QED
    BY <1>1, <1>4, <1>7, <1>8, <2>1, InnermostIs
<1>11. nodes[currentP].text \in Seq(STRING)
  BY <1>1, <1>8 DEF IsTree, XmlElement
<1>12. PICK text : text = Append(nodes[currentP].text, Head(Innermost.text))
  OBVIOUS
<1>13. text \in Seq(STRING)
  BY <1>10, <1>11, <1>12
<1>14. nodes' = [nodes EXCEPT ![currentP].text = text]
  BY <1>12
<1>15. Texted(nodes, currentP, text, nodes') /\ nodes' \in [DOMAIN nodes -> XmlElement]
  BY ONLY <1>1, <1>8, <1>13, <1>14, TextedIs
<1>16. IsTree(nodes')
  BY ONLY <1>1, <1>8, <1>15, TextedTree
<1>17. Copies(nodes', of, currentP, reading'[k + 1])
  <2>1. /\ reading'[k + 1].text = Tail(Innermost.text)
        /\ reading'[k + 1].children = Innermost.children
    BY <1>5, <1>7, <1>8
  <2>2. Copies(nodes, of, currentP, Innermost)
    BY <1>8
  <2>3. Texted(nodes, currentP, Append(nodes[currentP].text, Head(Innermost.text)), nodes')
    BY <1>12, <1>15
  <2>4. QED
    BY ONLY <1>10, <1>11, <2>1, <2>2, <2>3, CopiesText
<1>18. /\ DOMAIN nodes' = DOMAIN nodes
       /\ \A e \in DOMAIN nodes : e # currentP => nodes'[e] = nodes[e]
       /\ \A e \in DOMAIN nodes : nodes'[e].parent = nodes[e].parent
  BY <1>15 DEF Texted
<1>19. ASSUME NEW e \in DOMAIN nodes, e # currentP, NEW unread, Copies(nodes, of, e, unread)
       PROVE  Copies(nodes', of, e, unread)
  <2>1. nodes'[e] = nodes[e]
    BY <1>18, <1>19
  <2>2. QED
    BY <1>19, <2>1, CopiesStill
<1>20. \A i \in DOMAIN p : Copies(nodes', of, p[i], reading'[i + 1])
  <2> SUFFICES ASSUME NEW i \in 1..k
               PROVE  Copies(nodes', of, p[i], reading'[i + 1])
    BY <1>6
  <2>1. CASE i = k
    BY <1>8, <1>17, <2>1
  <2>2. CASE i # k
    <3>1. i \in 1..(k - 1) /\ i + 1 \in 1..(m - 1)
      BY <1>7, <1>8, <2>2
    <3>2. reading'[i + 1] = reading[i + 1] /\ p[i] \in DOMAIN nodes /\ p[i] # currentP
      BY <1>5, <1>8, <3>1
    <3>3. Copies(nodes, of, p[i], reading[i + 1])
      BY <1>6, <1>9
    <3>4. QED
      BY <1>19, <3>2, <3>3
  <2>3. QED
    BY <2>1, <2>2
<1>21. \A e \in DOMAIN nodes' \ ToSet(p) : Copies(nodes', of, e, Unread(<<>>, <<>>))
  <2> SUFFICES ASSUME NEW e \in DOMAIN nodes', e \notin ToSet(p)
               PROVE  Copies(nodes', of, e, Unread(<<>>, <<>>))
    OBVIOUS
  <2>1. currentP \in ToSet(p)
    <3>1. k \in DOMAIN p
      BY <1>6, <1>8
    <3>2. QED
      BY <1>8, <3>1 DEF ToSet
  <2>2. e \in DOMAIN nodes /\ e # currentP
    BY <1>18, <2>1
  <2>3. QED
    BY <1>9, <1>19, <2>2
<1>22. \A i \in DOMAIN p :
           nodes'[p[i]].parent = IF i = 1 THEN None ELSE p[i - 1]
  <2>1. \A i \in DOMAIN p : p[i] \in DOMAIN nodes
    BY <1>9
  <2>2. QED
    BY <1>9, <1>18, <2>1
<1>23. reading'[1] = reading[1]
  <2>1. 1 \in 1..(m - 1)
    BY <1>7, <1>8
  <2>2. QED
    BY <1>5, <2>1
<1>24. Len(p) + 1 = Len(reading')
  BY <1>5, <1>6, <1>7
<1>25. currentP' = currentP /\ rootP' = rootP /\ document' = document
  OBVIOUS
<1>26. Building(p, of)'
  BY ONLY <1>9, <1>18, <1>20, <1>21, <1>22, <1>23, <1>24, <1>25 DEF Building
<1>27. QED
  BY <1>16, <1>26

LEMMA CharacterDataKeepsTree ==
    ASSUME TreeInv, CharacterData
    PROVE  TreeInv'
<1>1. /\ pc = "expat" /\ pc' = pc /\ document' = document /\ ReadingOK
      /\ Innermost.text # <<>>
      /\ reading' = [reading EXCEPT ![Len(reading)].text = Tail(@)]
  BY DEF TreeInv, CharacterData, Expat
<1>2. ReadingOK'
  BY ONLY <1>1, Reads
<1>3. CASE Ignored
  BY <1>1, <1>2, <1>3, IgnoredKeepsTree
<1>4. CASE /\ ~barfed /\ RunsOut("text") /\ barfed' = TRUE
           /\ UNCHANGED <<nodes, rootP, currentP>>
  <2>1. Scarce \cap Sloppy # {} /\ ranOut' = TRUE
    BY <1>4 DEF RunsOut, Sloppy
  <2>2. IsTree(nodes)' /\ barfed' = TRUE
    BY <1>4 DEF TreeInv
  <2>3. QED
    BY <1>1, <1>2, <2>1, <2>2, StillReading
<1>5. CASE /\ ~barfed
           /\ nodes' = [nodes EXCEPT ![currentP].text =
                            Append(@, Head(Innermost.text))]
           /\ UNCHANGED <<rootP, currentP, barfed, ranOut>>
  <2>1. IsTree(nodes') /\ \E p, of : Building(p, of)'
    BY <1>1, <1>5, TextPath
  <2>2. barfed' \in BOOLEAN /\ ~barfed'
    BY <1>5 DEF TreeInv
  <2>3. QED
    BY <1>1, <1>2, <2>1, <2>2, StillReading
<1>6. QED
  BY <1>3, <1>4, <1>5 DEF CharacterData
-----------------------------------------------------------------------------
(* So do the other actions.                                                *)

LEMMA CreateParserKeepsTree ==
    ASSUME TreeInv, CreateParser
    PROVE  TreeInv'
<1>1. /\ pc = "start" /\ document \in Documents /\ IsTree(nodes) /\ ~barfed
      /\ barfed \in BOOLEAN
      /\ DOMAIN nodes = {} /\ rootP = None /\ currentP = None
      /\ document' = document /\ nodes' = nodes /\ rootP' = rootP
      /\ currentP' = currentP /\ barfed' = barfed
  BY DEF TreeInv, CreateParser
<1>2. CASE RunsOut("parser") /\ GiveUp /\ UNCHANGED reading
  <2>1. pc' = "done"
    BY <1>2 DEF GiveUp
  <2>2. IsTree(nodes)'
    BY <1>1
  <2>3. QED
    BY ONLY <1>1, <2>1, <2>2 DEF TreeInv
<1>3. CASE /\ pc' = "expat"
           /\ reading' = <<Unread(<<>>, <<document.root>>)>>
           /\ UNCHANGED <<fault, ranOut>>
  <2>1. document.root \in Elements
    BY <1>1, DocumentsAssumption
  <2>2. PICK u : u = Unread(<<>>, <<document.root>>)
    OBVIOUS
  <2>3. u \in Unreads /\ u.text = <<>> /\ u.children = <<document.root>>
    <3>1. <<>> \in Seq(STRING) /\ <<document.root>> \in Seq(Elements)
      BY <2>1
    <3>2. QED
      BY <2>2, <3>1 DEF Unread, Unreads
  <2>4. reading' = <<u>>
    BY <1>3, <2>2
  <2>5. reading' \in Seq(Unreads) /\ reading' # <<>> /\ Len(reading') = 1
        /\ reading'[1] = u
    BY ONLY <2>3, <2>4
  <2>6. ReadingOK'
    BY ONLY <2>3, <2>5 DEF ReadingOK, Unreads
  <2>7. PICK p : p = <<>>
    OBVIOUS
  <2>8. PICK of : of = [e \in {} |-> document.root]
    OBVIOUS
  <2>9. p \in Seq({}) /\ Len(p) = 0 /\ DOMAIN p = {} /\ p = <<>>
    BY <2>7
  <2>10. of \in [{} -> Elements]
    BY <2>8
  <2>11. Building(p, of)'
    <3>1. p \in Seq(DOMAIN nodes') /\ Len(p) + 1 = Len(reading')
      BY <1>1, <2>5, <2>9
    <3>2. /\ currentP' = IF p = <<>> THEN None ELSE p[Len(p)]
          /\ rootP' = IF DOMAIN nodes' = {} THEN None ELSE 1
          /\ reading'[1].children =
                 IF DOMAIN nodes' = {} THEN <<document'.root>> ELSE <<>>
      BY ONLY <1>1, <2>3, <2>5, <2>9
    <3>3. of \in [DOMAIN nodes' -> Elements] /\ 1 \notin DOMAIN nodes'
          /\ DOMAIN nodes' = {}
      BY <1>1, <2>10
    <3>4. QED
      BY ONLY <2>9, <3>1, <3>2, <3>3 DEF Building
  <2>12. IsTree(nodes)'
    BY <1>1
  <2>13. \E q, o : Building(q, o)'
    BY <2>11
  <2>14. pc' = "expat"
    BY <1>3
  <2>15. QED
    BY ONLY <1>1, <2>6, <2>12, <2>13, <2>14 DEF TreeInv
<1>4. QED
  BY <1>2, <1>3 DEF CreateParser

LEMMA TooLargeKeepsTree ==
    ASSUME TreeInv, TooLarge
    PROVE  TreeInv'
<1>1. /\ document \in Documents /\ IsTree(nodes) /\ ~barfed /\ barfed \in BOOLEAN
      /\ DOMAIN nodes = {} /\ rootP = None /\ currentP = None
      /\ UNCHANGED <<document, nodes, rootP, currentP, barfed>> /\ pc' = "done"
  BY DEF TreeInv, TooLarge, GiveUp, treeVars
<1>2. IsTree(nodes)'
  BY <1>1
<1>3. QED
  BY ONLY <1>1, <1>2 DEF TreeInv

LEMMA NotXmlKeepsTree ==
    ASSUME TreeInv, NotXml
    PROVE  TreeInv'
<1>1. /\ pc = "expat" /\ document \in Documents /\ IsTree(nodes)
      /\ barfed \in BOOLEAN /\ document' = document /\ barfed' = barfed
      /\ ranOut' = ranOut /\ (barfed => ranOut)
      /\ (Scarce \cap Sloppy = {} /\ barfed => DOMAIN nodes = {})
      /\ nodes' = (IF barfed THEN nodes ELSE FreeTree)
      /\ pc' = "done"
  BY DEF TreeInv, NotXml, GiveUp
<1>2. CASE barfed
  <2>1. IsTree(nodes)' /\ nodes' = nodes
    BY <1>1, <1>2
  <2>2. QED
    BY ONLY <1>1, <1>2, <2>1 DEF TreeInv
<1>3. CASE ~barfed
  <2>1. PICK p, of : Building(p, of)
    BY <1>1, <1>3 DEF TreeInv
  <2>2. rootP = IF DOMAIN nodes = {} THEN None ELSE 1
    BY <2>1 DEF Building
  <2>3. DOMAIN FreeTree = {} /\ IsTree(FreeTree)
    BY ONLY <1>1, <2>2, FreeTreeIs
  <2>4. DOMAIN nodes' = {} /\ IsTree(nodes)'
    BY <1>1, <1>3, <2>3
  <2>5. QED
    BY ONLY <1>1, <1>3, <2>4 DEF TreeInv
<1>4. QED
  BY <1>1, <1>2, <1>3

LEMMA EndOfXmlKeepsTree ==
    ASSUME TreeInv, EndOfXml
    PROVE  TreeInv'
<1>1. /\ pc = "expat" /\ document \in Documents /\ IsTree(nodes)
      /\ barfed \in BOOLEAN /\ document' = document /\ barfed' = barfed
      /\ ranOut' = ranOut /\ (barfed => ranOut) /\ nodes' = nodes /\ rootP' = rootP
      /\ (Scarce \cap Sloppy = {} /\ barfed => DOMAIN nodes = {})
      /\ AllRead /\ ReadingOK
  BY DEF TreeInv, EndOfXml, treeVars
<1>2. IsTree(nodes)'
  BY <1>1
<1>3. CASE barfed /\ GiveUp
  <2>1. pc' = "done"
    BY <1>3 DEF GiveUp
  <2>2. QED
    BY ONLY <1>1, <1>2, <1>3, <2>1 DEF TreeInv
<1>4. CASE ~barfed /\ pc' = "tree" /\ UNCHANGED fault
  <2>1. PICK p, of : Building(p, of)
    BY <1>1, <1>4 DEF TreeInv
  <2>2. Len(reading) = 1 /\ reading[1].children = <<>>
    <3>1. PICK u : u = Unread(<<>>, <<>>)
      OBVIOUS
    <3>2. reading = <<u>>
      BY <1>1, <3>1 DEF AllRead
    <3>3. u.children = <<>>
      BY <3>1 DEF Unread
    <3>4. QED
      BY ONLY <3>2, <3>3
  <2>3. Len(p) \in Nat /\ Len(reading) = Len(p) + 1 /\ DOMAIN p = 1..Len(p)
    BY ONLY <1>1, <2>1, PathStart
  <2>4. Len(p) = 0 /\ ToSet(p) = {}
    <3>0. Len(reading) = 1 /\ Len(reading) = Len(p) + 1 /\ Len(p) \in Nat
      BY <2>2, <2>3
    <3>1. Len(p) = 0
      BY ONLY <3>0
    <3>2. DOMAIN p = {}
      BY ONLY <2>3, <3>1
    <3>3. QED
      BY ONLY <3>1, <3>2 DEF ToSet
  <2>5. <<document.root>> # <<>>
    OBVIOUS
  <2>6. DOMAIN nodes # {} /\ rootP = 1
    BY <2>1, <2>2, <2>5 DEF Building
  <2>7. 1 \in DOMAIN nodes
    <3>1. PICK n \in Nat : DOMAIN nodes = 1..n
      BY <1>1 DEF IsTree
    <3>2. QED
      BY <2>6, <3>1
  <2>8. Built(of)
    BY <2>1, <2>4, <2>7 DEF Building, Built
  <2>9. Built(of)'
    BY ONLY <1>1, <2>8 DEF Built
  <2>10. pc' = "tree" /\ ~barfed /\ 1 \in DOMAIN nodes' /\ rootP' = 1
    BY <1>1, <1>4, <2>6, <2>7
  <2>11. \E o : Built(o)'
    BY <2>9
  <2>12. QED
    BY ONLY <1>1, <1>2, <2>10, <2>11 DEF TreeInv
<1>5. QED
  BY <1>3, <1>4 DEF EndOfXml

(* The tree is built and stays.                                            *)
LEMMA TreeStays ==
    ASSUME TreeInv, pc \in {"tree", "convert", "ending"},
           pc' \in {"tree", "convert", "ending"},
           UNCHANGED <<document, treeVars>>
    PROVE  TreeInv'
<1>1. /\ document' = document /\ nodes' = nodes /\ rootP' = rootP
      /\ barfed' = barfed
  BY DEF treeVars
<1>2. /\ document \in Documents /\ IsTree(nodes) /\ ~barfed /\ barfed \in BOOLEAN
      /\ rootP = 1 /\ 1 \in DOMAIN nodes
  BY DEF TreeInv
<1>3. PICK of : Built(of)
  BY DEF TreeInv
<1>4. Built(of)'
  BY ONLY <1>1, <1>3 DEF Built
<1>5. IsTree(nodes)'
  BY <1>1, <1>2
<1>6. \E o : Built(o)'
  BY <1>4
<1>7. pc' \in {"tree", "convert", "ending"}
  OBVIOUS
<1>8. QED
  BY ONLY <1>1, <1>2, <1>5, <1>6, <1>7 DEF TreeInv

LEMMA TreeSame ==
    ASSUME TreeInv, UNCHANGED <<document, pc, treeVars, ranOut>>
    PROVE  TreeInv'
<1>1. /\ document' = document /\ nodes' = nodes /\ rootP' = rootP /\ pc' = pc
      /\ barfed' = barfed /\ reading' = reading /\ currentP' = currentP
      /\ ranOut' = ranOut
  BY DEF treeVars
<1>2. IsTree(nodes)' <=> IsTree(nodes)
  BY <1>1
<1>3. \A p, of : Building(p, of)' <=> Building(p, of)
  BY ONLY <1>1 DEF Building
<1>4. \A of : Built(of)' <=> Built(of)
  BY ONLY <1>1 DEF Built
<1>5. ReadingOK' <=> ReadingOK
  BY ONLY <1>1 DEF ReadingOK
<1>6. (\E p, of : Building(p, of)) => (\E p, of : Building(p, of)')
  BY ONLY <1>3
<1>7. (\E of : Built(of)) => (\E of : Built(of)')
  BY ONLY <1>4
<1>8. TreeInv
  OBVIOUS
<1>9. QED
  BY ONLY <1>1, <1>2, <1>5, <1>6, <1>7, <1>8 DEF TreeInv

LEMMA EndKeepsTree ==
    ASSUME TreeInv, End
    PROVE  TreeInv'
<1>1. /\ pc = "ending" /\ pc' = "done" /\ document \in Documents /\ IsTree(nodes)
      /\ ~barfed /\ barfed \in BOOLEAN /\ document' = document /\ barfed' = barfed
      /\ nodes' = FreeTree /\ rootP = 1 /\ 1 \in DOMAIN nodes
  BY DEF TreeInv, End
<1>2. DOMAIN FreeTree = {} /\ IsTree(FreeTree)
  BY <1>1, FreeTreeIs
<1>3. IsTree(nodes)' /\ DOMAIN nodes' = {}
  BY <1>1, <1>2
<1>4. QED
  BY ONLY <1>1, <1>3 DEF TreeInv

LEMMA InitTree ==
    ASSUME Init
    PROVE  TreeInv
<1>1. /\ document \in Documents /\ pc = "start" /\ nodes = <<>>
      /\ rootP = None /\ currentP = None /\ barfed = FALSE /\ ranOut = FALSE
  BY DEF Init
<1>2. DOMAIN nodes = {} /\ nodes \in [{} -> XmlElement]
  BY <1>1
<1>3. IsTree(nodes)
  BY <1>2, EmptyTree
<1>4. QED
  BY ONLY <1>1, <1>2, <1>3 DEF TreeInv

LEMMA StepKeepsTree ==
    ASSUME TreeInv, [Next]_vars
    PROVE  TreeInv'
<1>1. CASE CreateParser
  BY <1>1, CreateParserKeepsTree
<1>2. CASE StartElement
  BY <1>2, StartElementKeepsTree
<1>3. CASE EndElement
  BY <1>3, EndElementKeepsTree
<1>4. CASE CharacterData
  BY <1>4, CharacterDataKeepsTree
<1>5. CASE NotXml
  BY <1>5, NotXmlKeepsTree
<1>6. CASE EndOfXml
  BY <1>6, EndOfXmlKeepsTree
<1>7. CASE Converting
  <2>1. UNCHANGED <<document, treeVars>> /\ pc = "convert" /\ pc' = pc
    BY <1>7 DEF Converting
  <2>2. QED
    BY <2>1, TreeStays
<1>8. CASE Object \/ NextItem \/ AppendItem \/ SetMember \/ ReturnMade
  <2>1. Converting
    BY <1>8 DEF Object, NextItem, AppendItem, SetMember, ReturnMade
  <2>2. QED
    BY <1>7, <2>1
<1>9. CASE Unwind
  <2>1. UNCHANGED <<document, treeVars>> /\ pc = "convert" /\ pc' = pc
    BY <1>9 DEF Unwind
  <2>2. QED
    BY <2>1, TreeStays
<1>10. CASE Converted
  <2>1. UNCHANGED <<document, treeVars>> /\ pc = "convert" /\ pc' = "ending"
    BY <1>10 DEF Converted
  <2>2. QED
    BY <2>1, TreeStays
<1>11. CASE Release
  <2>1. UNCHANGED <<document, pc, treeVars, ranOut>>
    BY <1>11 DEF Release, flags
  <2>2. QED
    BY <2>1, TreeSame
<1>12. CASE TakeMethodName
  <2>1. UNCHANGED <<document, treeVars>> /\ pc = "tree"
    BY <1>12 DEF TakeMethodName
  <2>2. pc' = "ending" \/ pc' = pc
    BY <1>12 DEF TakeMethodName
  <2>3. QED
    BY <2>1, <2>2, TreeStays
<1>13. CASE TakeParams \/ TakeResponse
  <2>1. UNCHANGED <<document, treeVars>> /\ pc = "tree" /\ pc' = "convert"
    BY <1>13 DEF TakeParams, TakeResponse
  <2>2. QED
    BY <2>1, TreeStays
<1>14. CASE EndCall \/ EndResponse
  <2>1. End
    BY <1>14 DEF EndCall, EndResponse
  <2>2. QED
    BY <2>1, EndKeepsTree
<1>15. CASE UNCHANGED vars
  <2>1. UNCHANGED <<document, pc, treeVars, ranOut>>
    BY <1>15 DEF vars, flags
  <2>2. QED
    BY <2>1, TreeSame
<1>17. CASE TooLarge
  BY <1>17, TooLargeKeepsTree
<1>18. QED
  BY <1>1, <1>2, <1>3, <1>4, <1>5, <1>6, <1>8, <1>9, <1>10, <1>11, <1>12,
     <1>13, <1>14, <1>15, <1>17
     DEF Next, Terminated
-----------------------------------------------------------------------------
(* The conversion and the values it makes.                                 *)

(* The frames go through elements, and a key is of a child there is.       *)
FramesInTree ==
    \A i \in DOMAIN frames :
        /\ frames[i].elem \in DOMAIN nodes
        /\ frames[i].key # None => frames[i].at <= ChildCount(frames[i].elem)

ValuesInv ==
    /\ fault \in BOOLEAN /\ ranOut \in BOOLEAN /\ misused \in BOOLEAN
    /\ Scarce \cap Sloppy = {} => ~misused
    /\ WellCounted(values, frames, releasing, Outcome)
    /\ FramesInTree
    /\ pc \in {"start", "expat", "tree"} =>
           DOMAIN values = {} /\ frames = <<>> /\ releasing = <<>> /\ ~fault
    /\ pc # "done" => result = Refused
    /\ pc \in {"start", "expat"} => methodName = NoName
    /\ pc \in {"ending", "done"} => frames = <<>>
    /\ pc = "ending" => releasing = <<>> /\ (fault \/ returned # None)
    /\ pc = "done" => returned = None
    /\ fault => returned = None
    /\ pc = "done" /\ fault => methodName = NoName /\ result = Refused
    /\ document.purpose = "response" => methodName = NoName
    /\ pc # "done" \/ result.kind \in {"refused", "fault", "call", "response"}

IInv == TreeInv /\ ValuesInv
-----------------------------------------------------------------------------
(* The elements that conversion goes through are in the tree.              *)

LEMMA ChildIn ==
    ASSUME IsTree(nodes), NEW e \in DOMAIN nodes, NEW i \in 1..ChildCount(e)
    PROVE  Children(e)[i] \in DOMAIN nodes
  BY DEF IsTree, XmlElement, Children, ChildCount

LEMMA CountedChildren ==
    ASSUME IsTree(nodes), NEW e \in DOMAIN nodes
    PROVE  /\ ChildCount(e) \in Nat /\ nodes[e].text \in Seq(STRING)
           /\ nodes[e].name \in STRING
  BY DEF IsTree, XmlElement, Children, ChildCount

(* Of any numbers one is the least.                                        *)
LEMMA Least ==
    ASSUME NEW S \in SUBSET Nat, S # {}
    PROVE  \E i \in S : \A j \in S : i <= j
<1> DEFINE T == {n \in Nat : \A i \in S : n <= i}
<1> SUFFICES ASSUME ~ \E i \in S : \A j \in S : i <= j PROVE FALSE
  OBVIOUS
<1>1. 0 \in T
  OBVIOUS
<1>2. ASSUME NEW n \in Nat, n \in T PROVE n + 1 \in T
  <2>1. n \notin S
    BY <1>2
  <2>2. \A i \in S : n + 1 <= i
    BY <1>2, <2>1
  <2>3. QED
    BY <2>2
<1> HIDE DEF T
<1>3. Nat \subseteq T
  BY ONLY <1>1, <1>2, NatSetInduction
<1>4. PICK i \in S : TRUE
  OBVIOUS
<1>5. i + 1 \in T
  BY <1>3
<1>6. QED
  BY <1>5 DEF T

LEMMA ChildByNameIn ==
    ASSUME IsTree(nodes), NEW e \in DOMAIN nodes, NEW name, Named(e, name) # {}
    PROVE  ChildByName(e, name) \in DOMAIN nodes
<1>1. ChildCount(e) \in Nat
  BY CountedChildren
<1>2. Named(e, name) \in SUBSET Nat /\ Named(e, name) \subseteq 1..ChildCount(e)
  BY <1>1 DEF Named
<1>3. \E i \in Named(e, name) : \A j \in Named(e, name) : i <= j
  BY <1>2, Least
<1>4. PICK i : i = CHOOSE k \in Named(e, name) : \A j \in Named(e, name) : k <= j
  OBVIOUS
<1>5. i \in Named(e, name)
  BY <1>3, <1>4, Zenon
<1>6. i \in 1..ChildCount(e)
  BY <1>2, <1>5
<1>7. Children(e)[i] \in DOMAIN nodes
  BY <1>6, ChildIn
<1>8. QED
  BY <1>4, <1>7 DEF ChildByName

-----------------------------------------------------------------------------
(* What conversion keeps.                                                  *)

ConversionOK ==
    /\ fault \in BOOLEAN /\ ranOut \in BOOLEAN /\ misused \in BOOLEAN
    /\ Scarce \cap Sloppy = {} => ~misused
    /\ WellCounted(values, frames, releasing, returned)
    /\ FramesInTree
    /\ fault => returned = None

(* An allocation fails before anything has changed.                        *)
LEMMA BuildFailsIsSound ==
    ASSUME ConversionOK, NEW kind, BuildFails(kind), nodes' = nodes, returned = None
    PROVE  ConversionOK'
<1>1. /\ values' = values /\ frames' = frames /\ releasing' = releasing
      /\ returned' = returned /\ fault' = TRUE /\ ranOut' = TRUE
  BY DEF BuildFails, RunsOut, valueVars
<1>2. \/ misused' = misused
      \/ (\E site \in {"array", "contents"} : site \in Scarce) /\ misused' = TRUE
  <2>1. misused \in BOOLEAN
    BY DEF ConversionOK
  <2>2. QED
    BY <2>1 DEF BuildFails, RunsOut
<1>3. misused' \in BOOLEAN /\ (Scarce \cap Sloppy = {} => ~misused')
  <2>1. misused \in BOOLEAN /\ (Scarce \cap Sloppy = {} => ~misused)
    BY DEF ConversionOK
  <2>2. CASE misused' = misused
    BY ONLY <2>1, <2>2
  <2>3. CASE (\E site \in {"array", "contents"} : site \in Scarce) /\ misused' = TRUE
    <3>1. Scarce \cap Sloppy # {}
      BY <2>3 DEF Sloppy
    <3>2. QED
      BY ONLY <2>3, <3>1
  <2>4. QED
    BY <1>2, <2>2, <2>3
<1>4. WellCounted(values', frames', releasing', returned') /\ FramesInTree'
  BY <1>1 DEF ConversionOK, FramesInTree, ChildCount, Children
<1>5. QED
  BY ONLY <1>1, <1>3, <1>4, returned = None DEF ConversionOK

(* The flags are left alone.                                               *)
LEMMA FlagsStay ==
    ASSUME ConversionOK, UNCHANGED flags,
           WellCounted(values', frames', releasing', returned'), FramesInTree',
           ~fault
    PROVE  ConversionOK'
  BY DEF ConversionOK, flags

(* A fault is found before anything has changed.                           *)
LEMMA FaultIsSound ==
    ASSUME ConversionOK, fault' = TRUE, nodes' = nodes, returned = None,
           UNCHANGED <<valueVars, ranOut, misused>>
    PROVE  ConversionOK'
<1>1. /\ values' = values /\ frames' = frames /\ releasing' = releasing
      /\ returned' = returned /\ ranOut' = ranOut /\ misused' = misused
  BY DEF valueVars
<1>2. WellCounted(values', frames', releasing', returned') /\ FramesInTree'
  BY <1>1 DEF ConversionOK, FramesInTree, ChildCount, Children
<1>3. QED
  BY <1>1, <1>2 DEF ConversionOK

LEMMA FreshValue ==
    ASSUME NEW heap, HeapOK(heap), NEW kind \in ValueKind, NEW text \in Seq(STRING)
    PROVE  NewCell(heap, Unused(heap), kind, text, With(heap, Unused(heap), Cell(kind, text)))
<1>1. IsFiniteSet(DOMAIN heap)
  BY CellsAre
<1>2. Unused(heap) \notin DOMAIN heap /\ Unused(heap) \in Nat \ {0}
  BY <1>1, UnusedIs
<1>3. QED
  BY <1>2 DEF NewCell

(* What is under a <value> that is taken.                                  *)
LEMMA TakenElement ==
    ASSUME IsTree(nodes), NEW e \in DOMAIN nodes, NEW max, Takes(e, max),
           NEW child, child = IF ChildCount(e) = 0 THEN e ELSE Children(e)[1],
           NEW name, name = IF ChildCount(e) = 0 THEN "string" ELSE nodes[child].name
    PROVE  /\ child \in DOMAIN nodes /\ name \in ValueKind /\ Type(name) \in ValueKind
           /\ (IF name = "nil" THEN <<>> ELSE nodes[child].text) \in Seq(STRING)
           /\ name = "array" => Children(child)[1] \in DOMAIN nodes
<1>1. child \in DOMAIN nodes
  <2>1. CASE ChildCount(e) = 0
    BY <2>1
  <2>2. CASE ChildCount(e) = 1
    BY <2>2, ChildIn
  <2>3. QED
    BY <2>1, <2>2 DEF Takes
<1>2. nodes[child].text \in Seq(STRING) /\ nodes[child].name \in STRING
  BY <1>1, CountedChildren
<1>3. name \in ValueKind
  BY <1>2 DEF ValueKind
<1>4. Type(name) \in ValueKind
  BY <1>3 DEF ValueKind, Type
<1>5. (IF name = "nil" THEN <<>> ELSE nodes[child].text) \in Seq(STRING)
  <2>1. CASE name = "nil"
    <3>1. <<>> \in Seq(STRING)
      OBVIOUS
    <3>2. QED
      BY ONLY <2>1, <3>1
  <2>2. CASE name # "nil"
    BY ONLY <1>2, <2>2
  <2>3. QED
    BY <2>1, <2>2
<1>6. ASSUME name = "array" PROVE Children(child)[1] \in DOMAIN nodes
  <2>1. ChildCount(e) = 1 /\ TakesChild(Children(e)[1]) /\ nodes[child].name = "array"
        /\ child = Children(e)[1]
    BY <1>6 DEF Takes
  <2>2. ChildCount(child) = 1 \/ "array" \in Unchecked \/ "array" \in Checked
    BY <2>1 DEF TakesChild
  <2>3. ChildCount(child) = 1
    BY <2>2 DEF Unchecked, Checked
  <2>4. QED
    BY <1>1, <2>3, ChildIn
<1>7. QED
  BY <1>1, <1>3, <1>4, <1>5, <1>6

LEMMA FrameIs ==
    ASSUME NEW fn \in {"params", "array", "struct"}, NEW e \in Nat, NEW v \in Nat, NEW max \in Int
    PROVE  /\ Frame(fn, e, v, max) \in AnyFrame
           /\ Frame(fn, e, v, max).fn = fn /\ Frame(fn, e, v, max).elem = e
           /\ Frame(fn, e, v, max).made = v /\ Frame(fn, e, v, max).key = None
           /\ Frame(fn, e, v, max).at = 1
  BY DEF Frame, AnyFrame, None

(* The frames still go through the tree when there is one more.            *)
LEMMA FramesGrow ==
    ASSUME FramesInTree, nodes' = nodes, frames \in Seq(AnyFrame), NEW f \in AnyFrame,
           frames' = Append(frames, f), f.elem \in DOMAIN nodes, f.key = None
    PROVE  FramesInTree'
<1>1. /\ Len(frames) \in Nat /\ DOMAIN frames = 1..Len(frames)
      /\ DOMAIN frames' = 1..(Len(frames) + 1)
      /\ frames'[Len(frames) + 1] = f
      /\ \A i \in 1..Len(frames) : frames'[i] = frames[i]
  OBVIOUS
<1>2. ASSUME NEW i \in DOMAIN frames'
      PROVE  /\ frames'[i].elem \in DOMAIN nodes
             /\ frames'[i].key # None => frames'[i].at <= ChildCount(frames'[i].elem)
  <2>1. CASE i = Len(frames) + 1
    BY <1>1, <2>1
  <2>2. CASE i # Len(frames) + 1
    BY <1>1, <2>2 DEF FramesInTree
  <2>3. QED
    BY <2>1, <2>2
<1>3. QED
  BY <1>2 DEF FramesInTree, ChildCount, Children

(* A new array or struct is opened.                                        *)
LEMMA OpenIsSound ==
    ASSUME ConversionOK, IsTree(nodes), nodes' = nodes, ~fault, returned = None,
           releasing = <<>>, KeyedTop(frames), NEW elem \in DOMAIN nodes,
           NEW kind, NEW fn \in {"params", "array", "struct"}, NEW max \in Int,
           kind = IF fn = "struct" THEN "struct" ELSE "array",
           values' = With(values, Unused(values), Cell(kind, <<>>)),
           frames' = Append(frames, Frame(fn, elem, Unused(values), max)),
           UNCHANGED <<returned, releasing, flags>>
    PROVE  ConversionOK'
<1>1. WellCounted(values, frames, <<>>, None) /\ FramesInTree
  BY DEF ConversionOK
<1>2. HeapOK(values) /\ frames \in Seq(AnyFrame)
  BY <1>1, SoundHas
<1>3. PICK v : v = Unused(values)
  OBVIOUS
<1>4. kind \in ValueKind /\ <<>> \in Seq(STRING)
  BY DEF ValueKind
<1>5. NewCell(values, v, kind, <<>>, values')
  BY ONLY <1>2, <1>3, <1>4, FreshValue, values' = With(values, Unused(values), Cell(kind, <<>>))
<1>6. PICK f : f = Frame(fn, elem, v, max)
  OBVIOUS
<1>7. /\ f \in AnyFrame /\ f.fn = fn /\ f.elem = elem /\ f.made = v /\ f.key = None
  <2>1. v \in Nat
    BY <1>5 DEF NewCell
  <2>2. elem \in Nat
    BY DEF IsTree
  <2>3. QED
    BY ONLY <1>6, <2>1, <2>2, FrameIs, fn \in {"params", "array", "struct"}, max \in Int
<1>8. frames' = Append(frames, f)
  BY <1>3, <1>6
<1>9. WellCounted(values', Append(frames, f), <<>>, None)
  <2>1. kind = IF f.fn = "struct" THEN "struct" ELSE "array"
    BY <1>7
  <2>2. f.made = v /\ f.key = None /\ f \in AnyFrame
    BY <1>7
  <2>3. QED
    BY ONLY <1>1, <1>5, <2>1, <2>2, KeyedTop(frames), SoundOpened
<1>10. returned' = None /\ releasing' = <<>> /\ UNCHANGED flags
  OBVIOUS
<1>11. WellCounted(values', frames', releasing', returned')
  BY <1>8, <1>9, <1>10
<1>12. FramesInTree'
  BY ONLY <1>1, <1>2, <1>7, <1>8, nodes' = nodes, elem \in DOMAIN nodes, FramesGrow
<1>13. QED
  BY ONLY <1>10, <1>11, <1>12, ConversionOK, ~fault, FlagsStay

LEMMA ConvertValueIsSound ==
    ASSUME ConversionOK, IsTree(nodes), nodes' = nodes, ~fault, returned = None,
           releasing = <<>>, KeyedTop(frames), NEW e \in DOMAIN nodes, NEW max \in Int,
           ConvertValue(e, max)
    PROVE  ConversionOK'
<1>1. PICK v : v = Unused(values)
  OBVIOUS
<1>2. PICK child : child = IF ChildCount(e) = 0 THEN e ELSE Children(e)[1]
  OBVIOUS
<1>3. PICK name : name = IF ChildCount(e) = 0 THEN "string" ELSE nodes[child].name
  OBVIOUS
<1>4. PICK text : text = IF name = "nil" THEN <<>> ELSE nodes[child].text
  OBVIOUS
<1>5. CASE ~Takes(e, max) /\ fault' = TRUE /\ UNCHANGED <<valueVars, ranOut, misused>>
  BY <1>5, FaultIsSound
<1>6. CASE BuildFails(name)
  BY <1>6, BuildFailsIsSound
<1>7. ASSUME Takes(e, max)
      PROVE  /\ child \in DOMAIN nodes /\ name \in ValueKind /\ Type(name) \in ValueKind
             /\ text \in Seq(STRING)
             /\ name = "array" => Children(child)[1] \in DOMAIN nodes
  BY ONLY <1>2, <1>3, <1>4, <1>7, IsTree(nodes), e \in DOMAIN nodes, TakenElement
<1>8. CASE /\ Takes(e, max) /\ name = "array"
           /\ values' = With(values, v, Cell(name, <<>>))
           /\ frames' = Append(frames, Frame(name, Children(child)[1], v, max - 1))
           /\ UNCHANGED <<returned, releasing, flags>>
  <2>1. Children(child)[1] \in DOMAIN nodes
    BY <1>7, <1>8
  <2>2. PICK elem : elem = Children(child)[1]
    OBVIOUS
  <2>3. /\ elem \in DOMAIN nodes /\ max - 1 \in Int
        /\ values' = With(values, Unused(values), Cell("array", <<>>))
        /\ frames' = Append(frames, Frame("array", elem, Unused(values), max - 1))
    BY <1>1, <1>8, <2>1, <2>2
  <2>4. QED
    BY <1>8, <2>3, OpenIsSound
<1>9. CASE /\ Takes(e, max) /\ name = "struct"
           /\ values' = With(values, v, Cell(name, <<>>))
           /\ frames' = Append(frames, Frame(name, child, v, max - 1))
           /\ UNCHANGED <<returned, releasing, flags>>
  <2>1. /\ child \in DOMAIN nodes /\ max - 1 \in Int
        /\ values' = With(values, Unused(values), Cell("struct", <<>>))
        /\ frames' = Append(frames, Frame("struct", child, Unused(values), max - 1))
    BY <1>1, <1>7, <1>9
  <2>2. QED
    BY <1>9, <2>1, OpenIsSound
<1>10. CASE /\ Takes(e, max) /\ name \notin {"array", "struct"}
            /\ values' = With(values, v, Cell(Type(name), text))
            /\ returned' = v
            /\ UNCHANGED <<frames, releasing, flags>>
  <2>1. WellCounted(values, frames, <<>>, None) /\ FramesInTree
    BY DEF ConversionOK
  <2>2. HeapOK(values)
    BY <2>1, SoundHas
  <2>3. PICK kind : kind = Type(name)
    OBVIOUS
  <2>4. kind \in ValueKind /\ text \in Seq(STRING)
    BY <1>7, <1>10, <2>3
  <2>5. NewCell(values, v, kind, text, values')
    <3>1. values' = With(values, Unused(values), Cell(kind, text))
      BY <1>1, <1>10, <2>3
    <3>2. QED
      BY ONLY <1>1, <2>2, <2>4, <3>1, FreshValue
  <2>6. WellCounted(values', frames, <<>>, v)
    BY ONLY <2>1, <2>5, KeyedTop(frames), SoundReturned
  <2>7. WellCounted(values', frames', releasing', returned')
    BY <1>10, <2>6
  <2>8. FramesInTree'
    BY <1>10, <2>1 DEF FramesInTree, ChildCount, Children
  <2>9. UNCHANGED flags
    BY <1>10
  <2>10. QED
    BY ONLY <2>7, <2>8, <2>9, ConversionOK, ~fault, FlagsStay
<1>11. QED
  BY <1>1, <1>2, <1>3, <1>4, <1>5, <1>6, <1>8, <1>9, <1>10 DEF ConvertValue

(* While values are made what conversion keeps is what is invariant.       *)
LEMMA ConversionHas ==
    ASSUME IInv, pc \in {"tree", "convert"}
    PROVE  /\ ConversionOK /\ IsTree(nodes) /\ 1 \in DOMAIN nodes /\ rootP = 1
           /\ result = Refused /\ fault \in BOOLEAN
           /\ pc = "tree" => frames = <<>> /\ releasing = <<>> /\ ~fault /\ returned = None
           /\ document.purpose = "response" => methodName = NoName
<1>1. Outcome = returned
  BY DEF Outcome
<1>2. ConversionOK /\ result = Refused /\ fault \in BOOLEAN
  BY <1>1 DEF IInv, ValuesInv, ConversionOK
<1>3. IsTree(nodes) /\ 1 \in DOMAIN nodes /\ rootP = 1
  BY DEF IInv, TreeInv
<1>4. pc = "tree" => frames = <<>> /\ releasing = <<>> /\ ~fault /\ DOMAIN values = {}
  BY DEF IInv, ValuesInv
<1>5. returned \in DOMAIN values \union {None}
  BY <1>2 DEF ConversionOK, WellCounted
<1>6. document.purpose = "response" => methodName = NoName
  BY DEF IInv, ValuesInv
<1>7. QED
  BY <1>2, <1>3, <1>4, <1>5, <1>6

LEMMA ConversionKeepsValues ==
    ASSUME IInv, pc \in {"tree", "convert"}, pc' = "convert",
           UNCHANGED <<document, outVars>>, ConversionOK'
    PROVE  ValuesInv'
<1>1. /\ result' = Refused
      /\ document'.purpose = "response" => methodName' = NoName
  BY ConversionHas DEF outVars
<1>2. Outcome' = returned'
  BY DEF Outcome
<1>3. WellCounted(values', frames', releasing', Outcome')
  BY <1>2 DEF ConversionOK
<1>4. QED
  BY <1>1, <1>3 DEF ValuesInv, ConversionOK

(* Last(frames) is where conversion goes on.                               *)
LEMMA TopIs ==
    ASSUME IInv, Converting
    PROVE  /\ ConversionOK /\ IsTree(nodes) /\ pc = "convert" /\ pc' = "convert" /\ ~fault
           /\ frames # <<>> /\ releasing = <<>> /\ nodes' = nodes
           /\ frames \in Seq(AnyFrame) /\ Top = Last(frames) /\ Top \in AnyFrame
           /\ Len(frames) \in DOMAIN frames /\ Top = frames[Len(frames)]
           /\ Top.elem \in DOMAIN nodes
           /\ Top.key # None => ~AllConverted
           /\ UNCHANGED <<document, outVars>>
<1>1. /\ pc = "convert" /\ ~fault /\ frames # <<>> /\ releasing = <<>>
      /\ UNCHANGED <<document, outVars>> /\ pc' = pc /\ nodes' = nodes
  BY DEF Converting, treeVars, outVars
<1>2. ConversionOK /\ IsTree(nodes)
  BY <1>1, ConversionHas
<1>3. frames \in Seq(AnyFrame)
  BY <1>2 DEF ConversionOK, WellCounted, FramesOK
<1>4. /\ Last(frames) = frames[Len(frames)] /\ Last(frames) \in AnyFrame
      /\ Len(frames) \in DOMAIN frames
  BY ONLY <1>1, <1>3, LastIs
<1>5. /\ Top.elem \in DOMAIN nodes
      /\ Top.key # None => Top.at <= ChildCount(Top.elem)
  BY <1>2, <1>4 DEF ConversionOK, FramesInTree, Top
<1>6. Top.key # None => ~AllConverted
  <2>1. Top.at \in Nat
    BY <1>4 DEF Top, AnyFrame
  <2>2. ChildCount(Top.elem) \in Nat
    BY <1>2, <1>5, CountedChildren
  <2>3. QED
    BY <1>5, <2>1, <2>2 DEF AllConverted
<1>7. QED
  BY ONLY <1>1, <1>2, <1>3, <1>4, <1>5, <1>6 DEF Top

LEMMA ObjectKeepsValues ==
    ASSUME IInv, Object
    PROVE  ValuesInv'
<1>1. Converting /\ returned = None /\ fault' = TRUE /\ UNCHANGED <<valueVars, ranOut, misused>>
  BY DEF Object
<1>2. ConversionOK /\ nodes' = nodes /\ pc = "convert" /\ pc' = "convert"
      /\ UNCHANGED <<document, outVars>>
  BY <1>1, TopIs
<1>3. ConversionOK'
  BY ONLY <1>1, <1>2, FaultIsSound
<1>4. QED
  BY <1>2, <1>3, ConversionKeepsValues

(* The child that a frame is at.                                           *)
LEMMA ItemIs ==
    ASSUME IInv, Converting, ~AllConverted
    PROVE  Item \in DOMAIN nodes /\ Top.at \in 1..ChildCount(Top.elem)
<1>1. IsTree(nodes) /\ Top.elem \in DOMAIN nodes /\ Top \in AnyFrame
  BY TopIs
<1>2. ChildCount(Top.elem) \in Nat
  BY <1>1, CountedChildren
<1>3. Top.at \in Nat \ {0}
  BY <1>1 DEF AnyFrame
<1>4. Top.at \in 1..ChildCount(Top.elem)
  BY <1>2, <1>3 DEF AllConverted
<1>5. QED
  BY <1>1, <1>4, ChildIn DEF Item

LEMMA MakeKeyIsSound ==
    ASSUME IInv, Converting, returned = None, Fits, ~AllConverted,
           Top.fn = "struct", Top.key = None, MakeKey
    PROVE  ConversionOK'
<1>1. /\ ConversionOK /\ IsTree(nodes) /\ ~fault /\ nodes' = nodes
      /\ frames # <<>> /\ releasing = <<>> /\ frames \in Seq(AnyFrame)
      /\ Len(frames) \in DOMAIN frames /\ Top = frames[Len(frames)] /\ Top \in AnyFrame
      /\ Top = Last(frames)
  BY TopIs
<1>2. Item \in DOMAIN nodes /\ Top.at \in 1..ChildCount(Top.elem)
  BY ItemIs
<1>3. PICK name : name = ChildByName(Item, "name")
  OBVIOUS
<1>4. name \in DOMAIN nodes
  <2>1. Named(Item, "name") # {}
    BY DEF Fits, IsMember
  <2>2. QED
    BY ONLY <1>1, <1>2, <1>3, <2>1, ChildByNameIn
<1>5. PICK text : text = nodes[name].text
  OBVIOUS
<1>6. text \in Seq(STRING) /\ "string" \in ValueKind
  BY <1>1, <1>4, <1>5, CountedChildren DEF ValueKind
<1>7. PICK k : k = Unused(values)
  OBVIOUS
<1>8. /\ values' = With(values, k, Cell("string", text))
      /\ frames' = [frames EXCEPT ![Len(frames)].key = k]
      /\ UNCHANGED <<returned, releasing, flags>>
  BY <1>3, <1>5, <1>7 DEF MakeKey
<1>9. WellCounted(values, frames, <<>>, None) /\ FramesInTree
  BY <1>1 DEF ConversionOK
<1>10. HeapOK(values)
  BY <1>9, SoundHas
<1>11. NewCell(values, k, "string", text, values')
  <2>1. values' = With(values, Unused(values), Cell("string", text))
    BY <1>7, <1>8
  <2>2. QED
    BY ONLY <1>6, <1>7, <1>10, <2>1, FreshValue
<1>12. k \in Nat
  BY <1>11 DEF NewCell
<1>13. PICK g : g = [Top EXCEPT !.key = k]
  OBVIOUS
<1>14. /\ g \in AnyFrame /\ g.key = k /\ g.made = Top.made /\ g.fn = Top.fn
       /\ g.elem = Top.elem /\ g.at = Top.at
  BY ONLY <1>1, <1>12, <1>13 DEF AnyFrame
<1>15. frames' = [frames EXCEPT ![Len(frames)] = g]
  BY <1>1, <1>8, <1>13
<1>16. /\ frames' \in Seq(AnyFrame) /\ Len(frames') = Len(frames)
       /\ DOMAIN frames' = DOMAIN frames
       /\ frames'[Len(frames)] = g
       /\ \A i \in DOMAIN frames : i # Len(frames) => frames'[i] = frames[i]
  BY ONLY <1>1, <1>14, <1>15
<1>17. TopMoved(frames, frames')
  <2>1. DOMAIN frames = 1..Len(frames)
    BY SMTT(30), <1>1
  <2>2. \A i \in 1..Len(frames) : i # Len(frames) => frames'[i] = frames[i]
    BY ONLY <1>16, <2>1
  <2>3. frames'[Len(frames)].made = Last(frames).made /\ frames'[Len(frames)].fn = Last(frames).fn
    BY ONLY <1>1, <1>14, <1>16
  <2>4. QED
    BY ONLY <1>1, <1>16, <2>2, <2>3 DEF TopMoved
<1>18. WellCounted(values', frames', <<>>, None)
  <2>1. Last(frames).fn = "struct" /\ Last(frames).key = None /\ frames'[Len(frames)].key = k
    BY <1>1, <1>14, <1>16
  <2>2. QED
    BY ONLY <1>9, <1>11, <1>17, <2>1, SoundKeyed
<1>19. WellCounted(values', frames', releasing', returned')
  BY <1>1, <1>8, <1>18
<1>20. FramesInTree'
  <2>1. ASSUME NEW i \in DOMAIN frames
        PROVE  /\ frames'[i].elem \in DOMAIN nodes
               /\ frames'[i].key # None => frames'[i].at <= ChildCount(frames'[i].elem)
    <3>1. CASE i = Len(frames)
      <4>1. frames'[i].elem = Top.elem /\ frames'[i].at = Top.at
        BY <1>14, <1>16, <3>1
      <4>2. Top.elem \in DOMAIN nodes
        BY TopIs
      <4>3. ChildCount(Top.elem) \in Nat
        BY <1>1, <4>2, CountedChildren
      <4>4. QED
        BY <1>2, <4>1, <4>2, <4>3
    <3>2. CASE i # Len(frames)
      BY <1>9, <1>16, <3>2 DEF FramesInTree
    <3>3. QED
      BY <3>1, <3>2
  <2>2. QED
    BY <1>1, <1>16, <2>1 DEF FramesInTree, ChildCount, Children
<1>21. UNCHANGED flags
  BY <1>8
<1>22. QED
  BY ONLY <1>1, <1>19, <1>20, <1>21, FlagsStay

LEMMA NextItemKeepsValues ==
    ASSUME IInv, NextItem
    PROVE  ValuesInv'
<1>1. Converting /\ returned = None /\ Fits /\ ~AllConverted
  BY DEF NextItem
<1>2. /\ ConversionOK /\ IsTree(nodes) /\ ~fault /\ nodes' = nodes
      /\ frames # <<>> /\ releasing = <<>> /\ Top = Last(frames)
      /\ Top \in AnyFrame /\ pc = "convert" /\ pc' = "convert"
      /\ UNCHANGED <<document, outVars>>
  BY <1>1, TopIs
<1> SUFFICES ConversionOK'
  BY <1>2, ConversionKeepsValues
<1>3. Item \in DOMAIN nodes /\ Top.at \in 1..ChildCount(Top.elem)
  BY <1>1, ItemIs
<1>4. ASSUME NEW e \in DOMAIN nodes, NEW max \in Int, ConvertValue(e, max), KeyedTop(frames)
      PROVE  ConversionOK'
  BY ONLY <1>1, <1>2, <1>4, ConvertValueIsSound
<1>5. ASSUME Top.fn # "struct" \/ Top.key # None
      PROVE  KeyedTop(frames)
  BY <1>2, <1>5 DEF KeyedTop
<1>6. Top.max \in Int /\ NestingLimit \in Int
  BY <1>2, LimitAssumption DEF AnyFrame
<1>7. CASE Top.fn = "params" /\ ConvertValue(Children(Item)[1], NestingLimit)
  <2>1. ChildCount(Item) = 1
    BY <1>1, <1>7 DEF Fits, IsParam
  <2>2. Children(Item)[1] \in DOMAIN nodes
    BY <1>2, <1>3, <2>1, ChildIn
  <2>3. KeyedTop(frames)
    BY <1>5, <1>7
  <2>4. QED
    BY <1>4, <1>6, <1>7, <2>2, <2>3
<1>8. CASE Top.fn = "array" /\ ConvertValue(Item, Top.max)
  <2>1. KeyedTop(frames)
    BY <1>5, <1>8
  <2>2. QED
    BY <1>3, <1>4, <1>6, <1>8, <2>1
<1>9. CASE Top.fn = "struct" /\ Top.key = None /\ MakeKey
  BY <1>1, <1>9, MakeKeyIsSound
<1>10. CASE BuildFails("string")
  BY <1>1, <1>2, <1>10, BuildFailsIsSound
<1>11. CASE /\ Top.fn = "struct" /\ Top.key # None
            /\ ConvertValue(ChildByName(Item, "value"), Top.max)
  <2>1. Named(Item, "value") # {}
    BY <1>1, <1>11 DEF Fits
  <2>2. ChildByName(Item, "value") \in DOMAIN nodes
    BY <1>2, <1>3, <2>1, ChildByNameIn
  <2>3. KeyedTop(frames)
    BY <1>5, <1>11
  <2>4. QED
    BY <1>4, <1>6, <1>11, <2>2, <2>3
<1>12. QED
  BY <1>7, <1>8, <1>9, <1>10, <1>11 DEF NextItem

-----------------------------------------------------------------------------
(* What is returned becomes an item, and frames end.                       *)

LEMMA AdvanceIs ==
    ASSUME IInv, Converting, Advance
    PROVE  /\ TopMoved(frames, frames') /\ frames'[Len(frames)].key = None
           /\ FramesInTree' /\ returned' = None /\ UNCHANGED flags
<1>1. /\ ConversionOK /\ IsTree(nodes) /\ nodes' = nodes
      /\ frames # <<>> /\ frames \in Seq(AnyFrame)
      /\ Len(frames) \in DOMAIN frames /\ Top = frames[Len(frames)] /\ Top \in AnyFrame
      /\ Top = Last(frames) /\ Top.elem \in DOMAIN nodes
  BY TopIs
<1>2. PICK g : g = [Top EXCEPT !.at = @ + 1, !.key = None]
  OBVIOUS
<1>3. /\ g \in AnyFrame /\ g.key = None /\ g.made = Top.made /\ g.fn = Top.fn
      /\ g.elem = Top.elem
  <2>1. PICK t : t = Top
    OBVIOUS
  <2>2. t \in AnyFrame
    BY <1>1, <2>1
  <2>3. t.at + 1 \in Nat \ {0} /\ None \in Nat
    BY <2>2 DEF AnyFrame, None
  <2>4. g = [t EXCEPT !.at = t.at + 1, !.key = None]
    BY <1>2, <2>1
  <2>5. /\ g.at = t.at + 1 /\ g.key = None /\ g.made = t.made /\ g.fn = t.fn
        /\ g.elem = t.elem /\ g.max = t.max
    BY ONLY <2>2, <2>4 DEF AnyFrame
  <2>6. g \in AnyFrame
    BY ONLY <2>2, <2>3, <2>4 DEF AnyFrame
  <2>7. QED
    BY <2>1, <2>5, <2>6
<1>4. frames' = [frames EXCEPT ![Len(frames)] = g]
  <2>1. frames' = [frames EXCEPT ![Len(frames)].at = @ + 1, ![Len(frames)].key = None]
    BY DEF Advance
  <2>2. QED
    BY ONLY <1>1, <1>2, <2>1 DEF AnyFrame
<1>5. /\ frames' \in Seq(AnyFrame) /\ Len(frames') = Len(frames)
      /\ DOMAIN frames' = DOMAIN frames
      /\ frames'[Len(frames)] = g
      /\ \A i \in DOMAIN frames : i # Len(frames) => frames'[i] = frames[i]
  BY ONLY SMTT(30), <1>1, <1>3, <1>4
<1>6. TopMoved(frames, frames')
  <2>1. DOMAIN frames = 1..Len(frames)
    BY <1>1
  <2>2. \A i \in 1..Len(frames) : i # Len(frames) => frames'[i] = frames[i]
    BY ONLY <1>5, <2>1
  <2>3. frames'[Len(frames)].made = Last(frames).made /\ frames'[Len(frames)].fn = Last(frames).fn
    BY ONLY <1>1, <1>3, <1>5
  <2>4. QED
    BY ONLY <1>1, <1>5, <2>2, <2>3 DEF TopMoved
<1>7. FramesInTree'
  <2>1. ASSUME NEW i \in DOMAIN frames
        PROVE  /\ frames'[i].elem \in DOMAIN nodes
               /\ frames'[i].key # None => frames'[i].at <= ChildCount(frames'[i].elem)
    <3>1. CASE i = Len(frames)
      BY <1>1, <1>3, <1>5, <3>1
    <3>2. CASE i # Len(frames)
      BY <1>1, <1>5, <3>2 DEF ConversionOK, FramesInTree
    <3>3. QED
      BY <3>1, <3>2
  <2>2. QED
    BY <1>1, <1>5, <2>1 DEF FramesInTree, ChildCount, Children
<1>8. QED
  BY <1>3, <1>5, <1>6, <1>7 DEF Advance

(* There is no room for what was returned.                                 *)
LEMMA NoRoomIsSound ==
    ASSUME IInv, Converting, returned # None, NoRoom
    PROVE  ConversionOK'
<1>1. ConversionOK /\ nodes' = nodes /\ releasing = <<>>
  BY TopIs
<1>2. /\ ranOut' = TRUE /\ fault' = TRUE /\ releasing' = <<returned>> /\ returned' = None
      /\ UNCHANGED <<values, frames, misused>>
  BY DEF NoRoom, RunsOut, DecRefs
<1>3. WellCounted(values, frames, <<>>, returned)
  BY <1>1 DEF ConversionOK
<1>4. WellCounted(values, frames, <<returned>>, None)
  BY ONLY <1>3, returned # None, SoundDropped
<1>5. WellCounted(values', frames', releasing', returned')
  BY <1>2, <1>4
<1>6. FramesInTree'
  BY <1>1, <1>2 DEF ConversionOK, FramesInTree, ChildCount, Children
<1>7. QED
  BY <1>1, <1>2, <1>5, <1>6 DEF ConversionOK

LEMMA AppendItemKeepsValues ==
    ASSUME IInv, AppendItem
    PROVE  ValuesInv'
<1>1. Converting /\ returned # None /\ Top.fn \in {"params", "array"}
  BY DEF AppendItem
<1>2. /\ ConversionOK /\ pc = "convert" /\ pc' = "convert" /\ ~fault
      /\ releasing = <<>> /\ Top = Last(frames) /\ UNCHANGED <<document, outVars>>
  BY <1>1, TopIs
<1> SUFFICES ConversionOK'
  BY <1>2, ConversionKeepsValues
<1>3. CASE NoRoom
  BY <1>1, <1>3, NoRoomIsSound
<1>4. CASE /\ values' = [IncRef(values, returned) EXCEPT
                             ![Top.made].items = Append(@, returned)]
           /\ DecRefs(<<returned>>)
           /\ Advance
  <2>1. /\ TopMoved(frames, frames') /\ frames'[Len(frames)].key = None
        /\ FramesInTree' /\ returned' = None /\ UNCHANGED flags
    BY <1>1, <1>4, AdvanceIs
  <2>2. WellCounted(values, frames, <<>>, returned) /\ Last(frames).fn # "struct"
    BY <1>1, <1>2 DEF ConversionOK
  <2>3. values' = [IncRef(values, returned) EXCEPT
                       ![Last(frames).made].items = Append(@, returned)]
    BY <1>2, <1>4
  <2>4. PICK w : w = returned
    OBVIOUS
  <2>5. PICK gs : gs = frames'
    OBVIOUS
  <2>6. PICK heap2 : heap2 = values'
    OBVIOUS
  <2>7. /\ WellCounted(values, frames, <<>>, w) /\ w # None
        /\ TopMoved(frames, gs) /\ gs[Len(frames)].key = None /\ Last(frames).fn # "struct"
    BY <1>1, <2>1, <2>2, <2>4, <2>5
  <2>8. heap2 = [IncRef(values, w) EXCEPT ![Last(frames).made].items = Append(@, w)]
    BY <2>3, <2>4, <2>6
  <2>9. WellCounted(heap2, gs, <<w>>, None)
    BY ONLY <2>7, <2>8, SoundAppended
  <2>10. WellCounted(values', frames', releasing', returned')
    BY <1>4, <2>1, <2>4, <2>5, <2>6, <2>9 DEF DecRefs
  <2>11. QED
    BY ONLY <1>2, <2>1, <2>10, FlagsStay
<1>5. QED
  BY <1>3, <1>4 DEF AppendItem

LEMMA SetMemberKeepsValues ==
    ASSUME IInv, SetMember
    PROVE  ValuesInv'
<1>1. Converting /\ returned # None /\ Top.fn = "struct"
  BY DEF SetMember
<1>2. /\ ConversionOK /\ pc = "convert" /\ pc' = "convert" /\ ~fault
      /\ releasing = <<>> /\ Top = Last(frames) /\ UNCHANGED <<document, outVars>>
      /\ frames # <<>>
  BY <1>1, TopIs
<1> SUFFICES ConversionOK'
  BY <1>2, ConversionKeepsValues
<1>3. CASE NoRoom
  BY <1>1, <1>3, NoRoomIsSound
<1>4. PICK w : w = returned
  OBVIOUS
<1>5. PICK k : k = Last(frames).key
  OBVIOUS
<1>6. PICK m : m = Last(frames).made
  OBVIOUS
<1>7. PICK gs : gs = frames'
  OBVIOUS
<1>8. PICK heap2 : heap2 = values'
  OBVIOUS
<1>9. WellCounted(values, frames, <<>>, w) /\ w # None /\ Last(frames).fn = "struct"
  BY <1>1, <1>2, <1>4 DEF ConversionOK
<1>10. ASSUME Advance
       PROVE  /\ TopMoved(frames, gs) /\ gs[Len(frames)].key = None
              /\ FramesInTree' /\ returned' = None /\ UNCHANGED flags
  BY <1>1, <1>7, <1>10, AdvanceIs
<1>11. CASE /\ values' = [IncRef(IncRef(values, Top.key), returned) EXCEPT
                              ![Top.made].items = @ \o <<Top.key, returned>>]
            /\ DecRefs(<<Top.key, returned>>)
            /\ Advance
  <2>1. /\ TopMoved(frames, gs) /\ gs[Len(frames)].key = None
        /\ FramesInTree' /\ returned' = None /\ UNCHANGED flags
    BY <1>10, <1>11
  <2>2. heap2 = [IncRef(IncRef(values, Last(frames).key), w) EXCEPT
                     ![Last(frames).made].items = @ \o <<Last(frames).key, w>>]
    BY <1>2, <1>4, <1>8, <1>11
  <2>3. WellCounted(heap2, gs, <<Last(frames).key, w>>, None)
    BY ONLY <1>9, <2>1, <2>2, SoundMember
  <2>4. releasing' = <<Last(frames).key, w>>
    BY <1>2, <1>4, <1>11 DEF DecRefs
  <2>5. WellCounted(values', frames', releasing', returned')
    BY <1>7, <1>8, <2>1, <2>3, <2>4
  <2>6. QED
    BY ONLY <1>2, <2>1, <2>5, FlagsStay
<1>12. ASSUME NEW i \in MembersNamed(Top.made, Top.key),
              values' = [IncRef(values, returned) EXCEPT
                             ![Top.made].items[i + 1] = returned],
              DecRefs(<<values[Top.made].items[i + 1]>> \o <<Top.key, returned>>),
              Advance
       PROVE  ConversionOK'
  <2>1. /\ TopMoved(frames, gs) /\ gs[Len(frames)].key = None
        /\ FramesInTree' /\ returned' = None /\ UNCHANGED flags
    BY <1>10, <1>12
  <2>2. PICK j : j = i + 1
    OBVIOUS
  <2>3. j \in DOMAIN values[Last(frames).made].items
    <3>1. HeapOK(values) /\ m \in DOMAIN values /\ values[m].kind = "struct"
      <4>1. HeapOK(values) /\ m \in DOMAIN values /\ FrameOK(values, Last(frames), w # None)
        BY <1>2, <1>6, <1>9, SoundHas, TopFills
      <4>2. QED
        BY <1>6, <1>9, <4>1 DEF FrameOK
    <3>2. values[m].items \in Seq(DOMAIN values)
      BY <3>1, CellsAre
    <3>3. PICK n \in Nat : Len(values[m].items) = 2 * n
      BY <3>1 DEF HeapOK
    <3>4. i \in 1..(2 * n) /\ i % 2 = 1
      BY <1>2, <1>6, <1>12, <3>2, <3>3 DEF MembersNamed
    <3>5. i + 1 \in 1..(2 * n)
      BY ONLY <3>3, <3>4
    <3>6. DOMAIN values[m].items = 1..(2 * n)
      BY <3>2, <3>3
    <3>7. QED
      BY <1>6, <2>2, <3>5, <3>6
  <2>4. heap2 = [IncRef(values, w) EXCEPT ![Last(frames).made].items[j] = w]
    BY <1>2, <1>4, <1>8, <1>12, <2>2
  <2>5. WellCounted(heap2, gs, <<values[Last(frames).made].items[j]>> \o <<Last(frames).key, w>>, None)
    BY ONLY <1>9, <2>1, <2>3, <2>4, SoundReplaced
  <2>6. releasing' = <<values[Last(frames).made].items[j]>> \o <<Last(frames).key, w>>
    BY <1>2, <1>4, <1>12, <2>2 DEF DecRefs
  <2>7. WellCounted(values', frames', releasing', returned')
    BY <1>7, <1>8, <2>1, <2>5, <2>6
  <2>8. QED
    BY ONLY <1>2, <2>1, <2>7, FlagsStay
<1>13. QED
  BY <1>3, <1>11, <1>12 DEF SetMember

LEMMA FrontInTree ==
    ASSUME FramesInTree, nodes' = nodes, frames \in Seq(AnyFrame), frames # <<>>,
           frames' = Front(frames)
    PROVE  FramesInTree'
<1>1. /\ DOMAIN frames = 1..Len(frames) /\ Len(frames) \in Nat
      /\ DOMAIN frames' = 1..(Len(frames) - 1)
      /\ \A i \in 1..(Len(frames) - 1) : frames'[i] = frames[i]
  BY DEF Front
<1>2. QED
  BY <1>1 DEF FramesInTree, ChildCount, Children

LEMMA ReturnMadeKeepsValues ==
    ASSUME IInv, ReturnMade
    PROVE  ValuesInv'
<1>1. /\ Converting /\ returned = None /\ AllConverted
      /\ returned' = Top.made /\ frames' = Front(frames)
      /\ UNCHANGED <<values, releasing, flags>>
  BY DEF ReturnMade
<1>2. /\ ConversionOK /\ pc = "convert" /\ pc' = "convert" /\ ~fault
      /\ releasing = <<>> /\ Top = Last(frames) /\ UNCHANGED <<document, outVars>>
      /\ frames # <<>> /\ frames \in Seq(AnyFrame) /\ Top.key = None /\ nodes' = nodes
  BY <1>1, TopIs
<1>3. WellCounted(values, frames, <<>>, None) /\ Last(frames).key = None /\ FramesInTree
  BY <1>1, <1>2 DEF ConversionOK
<1>4. WellCounted(values, Front(frames), <<>>, Last(frames).made)
  BY ONLY <1>2, <1>3, SoundMade
<1>5. WellCounted(values', frames', releasing', returned')
  BY <1>1, <1>2, <1>4
<1>6. FramesInTree'
  BY ONLY <1>1, <1>2, <1>3, FrontInTree
<1>7. ConversionOK'
  BY ONLY <1>1, <1>2, <1>5, <1>6, FlagsStay
<1>8. QED
  BY <1>2, <1>7, ConversionKeepsValues

LEMMA UnwindKeepsValues ==
    ASSUME IInv, Unwind
    PROVE  ValuesInv'
<1>1. /\ pc = "convert" /\ pc' = pc /\ fault /\ frames # <<>> /\ releasing = <<>>
      /\ frames' = Front(frames)
      /\ UNCHANGED <<document, values, returned, flags, outVars>> /\ nodes' = nodes
      /\ releasing' = IF Top.key = None THEN <<Top.made>> ELSE <<Top.key, Top.made>>
  BY DEF Unwind, DecRefs, treeVars
<1>2. ConversionOK
  BY <1>1, ConversionHas
<1>3. /\ WellCounted(values, frames, <<>>, None) /\ FramesInTree /\ returned = None
      /\ frames \in Seq(AnyFrame)
  BY <1>1, <1>2 DEF ConversionOK, WellCounted, FramesOK
<1>4. PICK rel : rel = releasing'
  OBVIOUS
<1>5. rel = IF Last(frames).key = None THEN <<Last(frames).made>>
            ELSE <<Last(frames).key, Last(frames).made>>
  BY <1>1, <1>4 DEF Top
<1>6. WellCounted(values, Front(frames), rel, None)
  BY ONLY <1>1, <1>3, <1>5, SoundUnwound
<1>7. WellCounted(values', frames', releasing', returned')
  BY <1>1, <1>3, <1>4, <1>6
<1>8. FramesInTree'
  BY ONLY <1>1, <1>3, FrontInTree
<1>9. ConversionOK'
  BY <1>1, <1>2, <1>3, <1>7, <1>8 DEF ConversionOK, flags
<1>10. QED
  BY <1>1, <1>9, ConversionKeepsValues

(* So do the steps of xmlrpc_DECREF.                                       *)
LEMMA ReleaseKeepsValues ==
    ASSUME IInv, Release
    PROVE  ValuesInv'
<1>1. PICK v : v = Head(releasing)
  OBVIOUS
<1>2. /\ releasing # <<>>
      /\ UNCHANGED <<document, pc, frames, returned, flags, outVars>>
      /\ nodes' = nodes
  BY DEF Release, treeVars
<1>3. /\ WellCounted(values, frames, releasing, Outcome) /\ FramesInTree
      /\ pc \notin {"start", "expat", "tree", "ending"}
  BY <1>2 DEF IInv, ValuesInv
<1>4. CASE /\ values[v].refs > 1
           /\ values' = [values EXCEPT ![v].refs = @ - 1]
           /\ releasing' = Tail(releasing)
  <2>1. PICK heap2 : heap2 = values'
    OBVIOUS
  <2>2. PICK out : out = Outcome
    OBVIOUS
  <2>3. WellCounted(values, frames, releasing, out)
    BY <1>3, <2>2
  <2>4. /\ values[Head(releasing)].refs > 1
        /\ heap2 = [values EXCEPT ![Head(releasing)].refs = @ - 1]
    BY <1>1, <1>4, <2>1
  <2>5. WellCounted(heap2, frames, Tail(releasing), out)
    BY ONLY <1>2, <2>3, <2>4, SoundCounted
  <2>6. WellCounted(values', frames', releasing', Outcome)
    BY <1>2, <1>4, <2>1, <2>2, <2>5
  <2>7. QED
    BY ONLY <1>2, <1>3, <2>6, IInv
       DEF IInv, ValuesInv, Outcome, FramesInTree, ChildCount, Children, flags, outVars
<1>5. CASE /\ values[v].refs = 1
           /\ values' = Without(values, {v})
           /\ releasing' = values[v].items \o Tail(releasing)
  <2>1. PICK heap2 : heap2 = values'
    OBVIOUS
  <2>2. PICK out : out = Outcome
    OBVIOUS
  <2>3. WellCounted(values, frames, releasing, out)
    BY <1>3, <2>2
  <2>4. /\ values[Head(releasing)].refs = 1
        /\ heap2 = Without(values, {Head(releasing)})
    BY <1>1, <1>5, <2>1
  <2>5. WellCounted(heap2, frames, values[Head(releasing)].items \o Tail(releasing), out)
    BY ONLY <1>2, <2>3, <2>4, SoundFreed
  <2>6. WellCounted(values', frames', releasing', Outcome)
    BY <1>1, <1>2, <1>5, <2>1, <2>2, <2>5
  <2>7. QED
    BY ONLY <1>2, <1>3, <2>6, IInv
       DEF IInv, ValuesInv, Outcome, FramesInTree, ChildCount, Children, flags, outVars
<1>6. QED
  BY <1>1, <1>4, <1>5 DEF Release

LEMMA ConvertedKeepsValues ==
    ASSUME IInv, Converted
    PROVE  ValuesInv'
<1>1. /\ pc = "convert" /\ pc' = "ending" /\ frames = <<>> /\ releasing = <<>>
      /\ fault \/ returned # None
      /\ UNCHANGED <<document, values, frames, returned, releasing, fault, ranOut, misused,
                     methodName, result>>
      /\ nodes' = nodes
  BY DEF Converted, treeVars, valueVars, flags, outVars
<1>2. Outcome' = Outcome
  BY <1>1 DEF Outcome
<1>3. QED
  BY ONLY <1>1, <1>2, IInv DEF IInv, ValuesInv, FramesInTree, ChildCount, Children

-----------------------------------------------------------------------------
(* Before values are made, and after.                                      *)

(* expat's handlers make none.                                             *)
LEMMA ExpatKeepsValues ==
    ASSUME IInv, UNCHANGED <<document, valueVars, outVars>>,
           pc \in {"start", "expat"},
           (pc' \in {"expat", "tree"} /\ fault' = fault) \/ GiveUp,
           ranOut' \in BOOLEAN,
           misused' = misused \/ ("child" \in Scarce /\ misused' = TRUE)
    PROVE  ValuesInv'
<1>1. /\ UNCHANGED <<document, values, frames, returned, releasing, methodName, result>>
  BY DEF valueVars, outVars
<1>2. /\ DOMAIN values = {} /\ frames = <<>> /\ releasing = <<>> /\ ~fault
      /\ result = Refused /\ methodName = NoName
      /\ WellCounted(values, frames, releasing, Outcome)
      /\ fault \in BOOLEAN
  BY DEF IInv, ValuesInv
<1>3. Outcome = returned
  BY DEF Outcome
<1>4. returned = None
  BY <1>2, <1>3 DEF WellCounted
<1>5. Outcome' = None
  BY <1>1, <1>2, <1>4 DEF Outcome, Refused
<1>6. WellCounted(values', frames', releasing', Outcome') /\ FramesInTree'
  BY <1>1, <1>2, <1>3, <1>4, <1>5 DEF FramesInTree
<1>7. misused' \in BOOLEAN /\ (Scarce \cap Sloppy = {} => ~misused')
  <2>1. misused \in BOOLEAN /\ (Scarce \cap Sloppy = {} => ~misused)
    BY DEF IInv, ValuesInv
  <2>2. CASE misused' = misused
    BY ONLY <2>1, <2>2
  <2>3. CASE "child" \in Scarce /\ misused' = TRUE
    <3>1. "child" \in Scarce \cap Sloppy
      BY <2>3 DEF Sloppy
    <3>2. QED
      BY ONLY <2>3, <3>1
  <2>4. QED
    BY <2>2, <2>3
<1>8. CASE pc' \in {"expat", "tree"} /\ fault' = fault
  BY ONLY <1>1, <1>2, <1>4, <1>6, <1>7, <1>8, ranOut' \in BOOLEAN DEF ValuesInv
<1>9. CASE pc' = "done" /\ fault' = TRUE
  BY ONLY <1>1, <1>2, <1>4, <1>6, <1>7, <1>9, ranOut' \in BOOLEAN DEF ValuesInv, Refused
<1>10. QED
  BY <1>8, <1>9 DEF GiveUp

LEMMA ParsingKeepsValues ==
    ASSUME IInv, \/ TooLarge \/ CreateParser \/ StartElement \/ EndElement
                 \/ CharacterData \/ NotXml \/ EndOfXml
    PROVE  ValuesInv'
<1>1. ranOut \in BOOLEAN
  BY DEF IInv, ValuesInv
<1>2. CASE CreateParser
  <2>1. /\ UNCHANGED <<document, valueVars, outVars>> /\ pc = "start"
        /\ misused' = misused
        /\ \/ ranOut' = TRUE /\ GiveUp
           \/ pc' = "expat" /\ fault' = fault /\ ranOut' = ranOut
    BY <1>2 DEF CreateParser, RunsOut
  <2>2. QED
    BY <1>1, <2>1, ExpatKeepsValues
<1>3. CASE StartElement
  <2>1. /\ UNCHANGED <<document, valueVars, outVars>> /\ pc = "expat"
        /\ pc' = pc /\ fault' = fault
    BY <1>3 DEF StartElement, Expat
  <2>2. ranOut' = TRUE \/ ranOut' = ranOut
    BY ZenonT(40), <1>3 DEF StartElement, Ignored, HandlerFails, RunsOut
  <2>3. misused' = misused \/ ("child" \in Scarce /\ misused' = TRUE)
    BY <1>3 DEF StartElement, HandlerFails, RunsOut
  <2>4. QED
    BY ZenonT(40), <1>1, <2>1, <2>2, <2>3, ExpatKeepsValues
<1>4. CASE EndElement
  <2>1. /\ UNCHANGED <<document, valueVars, outVars>> /\ pc = "expat"
        /\ pc' = pc /\ fault' = fault /\ misused' = misused
    BY <1>4 DEF EndElement, Expat
  <2>2. ranOut' = TRUE \/ ranOut' = ranOut
    BY <1>4 DEF EndElement, Ignored, HandlerFails, RunsOut
  <2>3. QED
    BY <1>1, <2>1, <2>2, ExpatKeepsValues
<1>5. CASE CharacterData
  <2>1. /\ UNCHANGED <<document, valueVars, outVars>> /\ pc = "expat"
        /\ pc' = pc /\ fault' = fault /\ misused' = misused
    BY <1>5 DEF CharacterData, Expat
  <2>2. ranOut' = TRUE \/ ranOut' = ranOut
    BY <1>5 DEF CharacterData, Ignored, RunsOut
  <2>3. QED
    BY <1>1, <2>1, <2>2, ExpatKeepsValues
<1>6. CASE NotXml
  <2>1. /\ UNCHANGED <<document, valueVars, outVars>> /\ pc = "expat" /\ GiveUp
        /\ ranOut' = ranOut /\ misused' = misused
    BY <1>6 DEF NotXml
  <2>2. QED
    BY <1>1, <2>1, ExpatKeepsValues
<1>7. CASE EndOfXml
  <2>1. /\ UNCHANGED <<document, valueVars, outVars>> /\ pc = "expat"
        /\ ranOut' = ranOut /\ misused' = misused
        /\ GiveUp \/ (pc' = "tree" /\ fault' = fault)
    BY <1>7 DEF EndOfXml
  <2>2. QED
    BY <1>1, <2>1, ExpatKeepsValues
<1>8. CASE TooLarge
  <2>1. /\ UNCHANGED <<document, valueVars, outVars>> /\ pc = "start" /\ GiveUp
        /\ ranOut' = ranOut /\ misused' = misused
    BY <1>8 DEF TooLarge
  <2>2. QED
    BY <1>1, <2>1, ExpatKeepsValues
<1>9. QED
  BY <1>2, <1>3, <1>4, <1>5, <1>6, <1>7, <1>8

-----------------------------------------------------------------------------
(* The call and the response.                                              *)

LEMMA TakeMethodNameKeepsValues ==
    ASSUME IInv, TakeMethodName
    PROVE  ValuesInv'
<1>1. /\ pc = "tree" /\ document.purpose = "call" /\ methodName = NoName
      /\ UNCHANGED <<document, treeVars, valueVars, result, misused>>
      /\ \/ /\ pc' = "ending" /\ fault' = TRUE
            /\ UNCHANGED methodName /\ ranOut' \in {TRUE, ranOut}
         \/ UNCHANGED <<pc, fault, ranOut>>
  BY DEF TakeMethodName, RunsOut
<1>2. /\ frames = <<>> /\ releasing = <<>> /\ ~fault /\ returned = None
      /\ result = Refused /\ ConversionOK /\ DOMAIN values = {}
  BY <1>1, ConversionHas DEF IInv, ValuesInv
<1>3. UNCHANGED <<values, frames, returned, releasing>>
  BY <1>1 DEF valueVars
<1>4. pc' \in {"tree", "ending"}
  BY <1>1
<1>5. Outcome' = None
  BY <1>2, <1>3, <1>4 DEF Outcome
<1>6. /\ WellCounted(values', frames', releasing', Outcome') /\ FramesInTree'
      /\ fault \in BOOLEAN /\ ranOut \in BOOLEAN /\ misused \in BOOLEAN
      /\ (Scarce \cap Sloppy = {} => ~misused)
  BY <1>2, <1>3, <1>5 DEF ConversionOK, FramesInTree
<1>7. CASE /\ pc' = "ending" /\ fault' = TRUE
           /\ UNCHANGED methodName /\ ranOut' \in {TRUE, ranOut}
  BY ONLY <1>1, <1>2, <1>3, <1>6, <1>7 DEF ValuesInv
<1>8. CASE UNCHANGED <<pc, fault, ranOut>>
  BY ONLY <1>1, <1>2, <1>3, <1>6, <1>8 DEF ValuesInv
<1>9. QED
  BY <1>1, <1>7, <1>8

LEMMA ConvertParamsIsSound ==
    ASSUME IInv, pc = "tree", nodes' = nodes, NEW params \in DOMAIN nodes,
           ConvertParams(params)
    PROVE  ConversionOK'
<1>1. /\ ConversionOK /\ IsTree(nodes) /\ frames = <<>> /\ releasing = <<>>
      /\ ~fault /\ returned = None
  BY ConversionHas
<1>2. KeyedTop(frames)
  BY <1>1 DEF KeyedTop
<1>3. CASE BuildFails("array")
  BY <1>1, <1>3, BuildFailsIsSound
<1>4. CASE /\ values' = With(values, Unused(values), Cell("array", <<>>))
           /\ frames' = <<Frame("params", params, Unused(values), NestingLimit)>>
           /\ UNCHANGED <<returned, releasing, flags>>
  <2>1. frames' = Append(frames, Frame("params", params, Unused(values), NestingLimit))
    <3>1. PICK f : f = Frame("params", params, Unused(values), NestingLimit)
      OBVIOUS
    <3>2. Append(<<>>, f) = <<f>>
      OBVIOUS
    <3>3. QED
      BY <1>1, <1>4, <3>1, <3>2
  <2>2. NestingLimit \in Int
    BY LimitAssumption
  <2>3. QED
    BY ONLY <1>1, <1>2, <1>4, <2>1, <2>2, nodes' = nodes, params \in DOMAIN nodes, OpenIsSound
<1>5. QED
  BY <1>3, <1>4 DEF ConvertParams

LEMMA TakeParamsKeepsValues ==
    ASSUME IInv, TakeParams
    PROVE  ValuesInv'
<1>1. /\ pc = "tree" /\ pc' = "convert" /\ nodes' = nodes
      /\ UNCHANGED <<document, outVars>>
  BY DEF TakeParams, treeVars
<1>2. /\ ConversionOK /\ IsTree(nodes) /\ 1 \in DOMAIN nodes /\ rootP = 1
      /\ frames = <<>> /\ releasing = <<>> /\ ~fault /\ returned = None
  BY <1>1, ConversionHas
<1> SUFFICES ConversionOK'
  BY <1>1, ConversionKeepsValues
<1>3. CASE Named(rootP, "params") # {} /\ ConvertParams(ChildByName(rootP, "params"))
  <2>1. ChildByName(rootP, "params") \in DOMAIN nodes
    BY <1>2, <1>3, ChildByNameIn
  <2>2. QED
    BY <1>1, <1>3, <2>1, ConvertParamsIsSound
<1>4. CASE fault' = TRUE /\ UNCHANGED <<valueVars, ranOut, misused>>
  BY <1>1, <1>2, <1>4, FaultIsSound
<1>5. CASE ranOut' = TRUE /\ fault' = TRUE /\ UNCHANGED <<valueVars, misused>>
  <2>1. UNCHANGED <<values, frames, returned, releasing, misused>>
    BY <1>5 DEF valueVars
  <2>2. QED
    BY <1>1, <1>2, <1>5, <2>1 DEF ConversionOK, FramesInTree
<1>6. CASE /\ values' = With(values, Unused(values), Cell("array", <<>>))
           /\ returned' = Unused(values)
           /\ UNCHANGED <<frames, releasing, flags>>
  <2>1. WellCounted(values, frames, <<>>, None)
    BY <1>2 DEF ConversionOK
  <2>2. HeapOK(values)
    BY <2>1, SoundHas
  <2>3. PICK v : v = Unused(values)
    OBVIOUS
  <2>4. "array" \in ValueKind /\ <<>> \in Seq(STRING)
    BY DEF ValueKind
  <2>5. NewCell(values, v, "array", <<>>, values')
    <3>1. values' = With(values, Unused(values), Cell("array", <<>>))
      BY <1>6
    <3>2. QED
      BY ONLY <2>2, <2>3, <2>4, <3>1, FreshValue
  <2>6. KeyedTop(frames)
    BY <1>2 DEF KeyedTop
  <2>7. WellCounted(values', frames, <<>>, v)
    BY ONLY <2>1, <2>5, <2>6, SoundReturned
  <2>8. WellCounted(values', frames', releasing', returned')
    BY <1>2, <1>6, <2>3, <2>7
  <2>9. FramesInTree' /\ UNCHANGED flags
    BY <1>2, <1>6 DEF FramesInTree
  <2>10. QED
    BY ONLY <1>2, <2>8, <2>9, FlagsStay
<1>7. QED
  BY <1>3, <1>4, <1>5, <1>6 DEF TakeParams, RunsOut

LEMMA TakeResponseKeepsValues ==
    ASSUME IInv, TakeResponse
    PROVE  ValuesInv'
<1>1. /\ pc = "tree" /\ pc' = "convert" /\ nodes' = nodes
      /\ UNCHANGED <<document, outVars>>
  BY DEF TakeResponse, treeVars
<1>2. /\ ConversionOK /\ IsTree(nodes) /\ 1 \in DOMAIN nodes /\ rootP = 1
      /\ frames = <<>> /\ releasing = <<>> /\ ~fault /\ returned = None
  BY <1>1, ConversionHas
<1> SUFFICES ConversionOK'
  BY <1>1, ConversionKeepsValues
<1>3. PICK says : says = IF nodes[rootP].name = "methodResponse" /\ ChildCount(rootP) = 1
                         THEN nodes[OnlyChild].name ELSE "nothing"
  OBVIOUS
<1>4. ASSUME says \in {"params", "fault"} PROVE OnlyChild \in DOMAIN nodes
  <2>1. ChildCount(rootP) = 1
    BY <1>3, <1>4
  <2>2. QED
    BY <1>2, <2>1, ChildIn DEF OnlyChild
<1>5. CASE says = "params" /\ ConvertParams(OnlyChild)
  BY <1>1, <1>4, <1>5, ConvertParamsIsSound
<1>6. CASE /\ says = "fault" /\ ChildCount(OnlyChild) = 1
           /\ ConvertValue(Children(OnlyChild)[1], NestingLimit)
  <2>1. Children(OnlyChild)[1] \in DOMAIN nodes
    BY <1>2, <1>4, <1>6, ChildIn
  <2>2. KeyedTop(frames) /\ NestingLimit \in Int
    BY <1>2, LimitAssumption DEF KeyedTop
  <2>3. QED
    BY <1>1, <1>2, <1>6, <2>1, <2>2, ConvertValueIsSound
<1>7. CASE fault' = TRUE /\ UNCHANGED <<valueVars, ranOut, misused>>
  BY <1>1, <1>2, <1>7, FaultIsSound
<1>8. QED
  BY <1>3, <1>5, <1>6, <1>7 DEF TakeResponse

(* When the values are made the frames are gone.                           *)
LEMMA EndingHas ==
    ASSUME IInv, pc = "ending"
    PROVE  /\ fault \in BOOLEAN /\ ranOut \in BOOLEAN /\ misused \in BOOLEAN
           /\ Scarce \cap Sloppy = {} => ~misused
           /\ WellCounted(values, <<>>, <<>>, returned) /\ frames = <<>> /\ releasing = <<>>
           /\ ~fault => returned # None
           /\ fault => returned = None
           /\ document.purpose = "response" => methodName = NoName
<1>1. Outcome = returned
  BY DEF Outcome
<1>2. QED
  BY <1>1 DEF IInv, ValuesInv

(* What is left when it is over.                                           *)
LEMMA EndKeepsValues ==
    ASSUME IInv, pc = "ending", pc' = "done", returned' = None, UNCHANGED <<document, frames, misused>>,
           WellCounted(values', <<>>, releasing', Outcome'),
           fault' \in BOOLEAN, ranOut' \in {TRUE, ranOut},
           fault' = TRUE => methodName' = NoName /\ result' = Refused,
           document.purpose = "response" => methodName' = NoName,
           result'.kind \in {"refused", "fault", "call", "response"}
    PROVE  ValuesInv'
<1>1. /\ ranOut \in BOOLEAN /\ misused \in BOOLEAN
      /\ Scarce \cap Sloppy = {} => ~misused
      /\ frames = <<>>
  BY EndingHas
<1>2. FramesInTree'
  BY <1>1 DEF FramesInTree
<1>3. WellCounted(values', frames', releasing', Outcome')
  BY <1>1
<1>4. QED
  BY <1>1, <1>2, <1>3 DEF ValuesInv

LEMMA EndCallKeepsValues ==
    ASSUME IInv, EndCall
    PROVE  ValuesInv'
<1>1. PICK extra : extra = (~fault /\ ChildCount(rootP) > 2)
  OBVIOUS
<1>2. /\ pc = "ending" /\ pc' = "done" /\ returned' = None
      /\ UNCHANGED <<document, frames, misused, values, ranOut>>
      /\ document.purpose = "call"
  BY DEF EndCall, End
<1>3. /\ releasing' = IF extra THEN <<returned>> ELSE <<>>
      /\ fault' = (fault \/ extra)
      /\ methodName' = IF fault' THEN NoName ELSE methodName
      /\ result' = IF fault' THEN Refused ELSE [kind |-> "call", value |-> returned]
  BY <1>1 DEF EndCall, DecRefs
<1>4. /\ WellCounted(values, <<>>, <<>>, returned) /\ fault \in BOOLEAN
      /\ (~fault => returned # None) /\ (fault => returned = None)
  BY <1>2, EndingHas
<1>5. extra \in BOOLEAN /\ (extra => ~fault)
  BY ONLY <1>1
<1>6. fault' \in BOOLEAN
  BY ONLY <1>3, <1>4, <1>5
<1>7. WellCounted(values', <<>>, releasing', Outcome')
  <2>1. CASE fault
    <3>1. fault' = TRUE /\ ~extra
      BY ONLY <1>3, <1>4, <1>5, <2>1
    <3>2. Outcome' = None /\ releasing' = <<>>
      BY <1>2, <1>3, <3>1 DEF Outcome, Refused
    <3>3. QED
      BY <1>2, <1>4, <2>1, <3>2
  <2>2. CASE extra
    <3>1. fault' = TRUE /\ ~fault
      BY ONLY <1>3, <1>4, <1>5, <2>2
    <3>2. Outcome' = None /\ releasing' = <<returned>>
      BY <1>2, <1>3, <2>2, <3>1 DEF Outcome, Refused
    <3>3. WellCounted(values, <<>>, <<returned>>, None)
      BY ONLY <1>4, <3>1, SoundDropped
    <3>4. QED
      BY <1>2, <3>2, <3>3
  <2>3. CASE ~fault /\ ~extra
    <3>1. fault' = FALSE
      BY ONLY <1>3, <1>4, <1>5, <2>3
    <3>2. Outcome' = returned /\ releasing' = <<>>
      BY <1>2, <1>3, <2>3, <3>1 DEF Outcome
    <3>3. QED
      BY <1>2, <1>4, <3>2
  <2>4. QED
    BY <2>1, <2>2, <2>3
<1>8. result'.kind \in {"refused", "call"}
  BY <1>3 DEF Refused
<1>9. fault' = TRUE => methodName' = NoName /\ result' = Refused
  BY <1>3
<1>10. QED
  BY ONLY <1>2, <1>6, <1>7, <1>8, <1>9, IInv, EndKeepsValues

LEMMA EndResponseKeepsValues ==
    ASSUME IInv, EndResponse
    PROVE  ValuesInv'
<1>1. /\ pc = "ending" /\ pc' = "done" /\ returned' = None
      /\ UNCHANGED <<document, frames, misused, methodName>>
      /\ document.purpose = "response"
      /\ releasing' = IF fault THEN <<>> ELSE <<returned>>
  BY DEF EndResponse, End, DecRefs
<1>2. /\ WellCounted(values, <<>>, <<>>, returned) /\ fault \in BOOLEAN
      /\ (~fault => returned # None) /\ (fault => returned = None)
      /\ methodName = NoName
  BY <1>1, EndingHas
<1>3. PICK items : items = values[returned].items
  OBVIOUS
<1>4. \/ fault /\ Refuse /\ UNCHANGED <<values, ranOut>>
      \/ /\ ~fault /\ Len(items) = 1
         /\ values' = IncRef(values, items[1])
         /\ result' = [kind |-> "response", value |-> items[1]]
         /\ UNCHANGED <<fault, ranOut>>
      \/ ~fault /\ Refuse /\ UNCHANGED values /\ ranOut' \in {TRUE, ranOut}
      \/ ~fault /\ result' = [kind |-> "fault"] /\ UNCHANGED <<values, fault, ranOut>>
  BY <1>3 DEF EndResponse, RunsOut
<1>5. ASSUME WellCounted(values', <<>>, releasing', Outcome'),
             fault' \in BOOLEAN, ranOut' \in {TRUE, ranOut},
             fault' = TRUE => result' = Refused,
             result'.kind \in {"refused", "fault", "response"}
      PROVE  ValuesInv'
  <2>1. methodName' = NoName
    BY <1>1, <1>2
  <2>2. result'.kind \in {"refused", "fault", "call", "response"}
    BY <1>5
  <2>3. QED
    BY ONLY <1>1, <1>5, <2>1, <2>2, IInv, EndKeepsValues
<1>6. ASSUME ~fault PROVE WellCounted(values, <<>>, <<returned>>, None)
  BY ONLY <1>2, <1>6, SoundDropped
<1>7. CASE fault /\ Refuse /\ UNCHANGED <<values, ranOut>>
  <2>1. /\ fault' = TRUE /\ result' = Refused /\ result'.kind = "refused"
        /\ releasing' = <<>> /\ Outcome' = None
    BY <1>1, <1>7 DEF Refuse, Refused, Outcome
  <2>2. WellCounted(values', <<>>, releasing', Outcome')
    BY <1>2, <1>7, <2>1
  <2>3. QED
    BY <1>5, <1>7, <2>1, <2>2
<1>8. CASE /\ ~fault /\ Len(items) = 1
           /\ values' = IncRef(values, items[1])
           /\ result' = [kind |-> "response", value |-> items[1]]
           /\ UNCHANGED <<fault, ranOut>>
  <2>1. items[1] \in DOMAIN values
    <3>1. HeapOK(values) /\ returned \in DOMAIN values
      BY <1>2, <1>8, SoundHas
    <3>2. items \in Seq(DOMAIN values)
      BY <1>3, <3>1, CellsAre
    <3>3. QED
      BY <1>8, <3>2
  <2>2. PICK x : x = items[1]
    OBVIOUS
  <2>3. WellCounted(IncRef(values, x), <<>>, <<returned>>, x)
    BY ONLY <1>2, <1>8, <2>1, <2>2, SoundTaken
  <2>4. Outcome' = x /\ releasing' = <<returned>>
    BY <1>1, <1>8, <2>2 DEF Outcome
  <2>5. WellCounted(values', <<>>, releasing', Outcome')
    BY <1>8, <2>2, <2>3, <2>4
  <2>6. result'.kind = "response" /\ fault' = FALSE
    BY <1>2, <1>8
  <2>7. QED
    BY <1>5, <1>8, <2>5, <2>6
<1>9. CASE ~fault /\ Refuse /\ UNCHANGED values /\ ranOut' \in {TRUE, ranOut}
  <2>1. /\ fault' = TRUE /\ result' = Refused /\ result'.kind = "refused"
        /\ releasing' = <<returned>> /\ Outcome' = None
    BY <1>1, <1>9 DEF Refuse, Refused, Outcome
  <2>2. WellCounted(values', <<>>, releasing', Outcome')
    BY <1>6, <1>9, <2>1
  <2>3. QED
    BY <1>5, <1>9, <2>1, <2>2
<1>10. CASE ~fault /\ result' = [kind |-> "fault"] /\ UNCHANGED <<values, fault, ranOut>>
  <2>1. /\ fault' = FALSE /\ result'.kind = "fault"
        /\ releasing' = <<returned>> /\ Outcome' = None
    BY <1>1, <1>2, <1>10 DEF Outcome
  <2>2. WellCounted(values', <<>>, releasing', Outcome')
    BY <1>6, <1>10, <2>1
  <2>3. QED
    BY <1>5, <1>10, <2>1, <2>2
<1>11. QED
  BY <1>4, <1>7, <1>8, <1>9, <1>10

-----------------------------------------------------------------------------
(* The invariant.                                                          *)

LEMMA EmptyHeap ==
    ASSUME NEW heap, heap = <<>>
    PROVE  HeapOK(heap) /\ DOMAIN heap = {}
<1>1. DOMAIN heap = {}
  OBVIOUS
<1>2. heap \in [DOMAIN heap -> ValueCell(heap)]
  BY <1>1
<1>3. IsFiniteSet(DOMAIN heap)
  BY <1>1, FS_EmptySet
<1>4. QED
  BY <1>1, <1>2, <1>3 DEF HeapOK, Acyclic

LEMMA InitValues ==
    ASSUME Init
    PROVE  ValuesInv
<1>1. /\ pc = "start" /\ values = <<>> /\ frames = <<>> /\ returned = None
      /\ releasing = <<>> /\ fault = FALSE /\ ranOut = FALSE /\ misused = FALSE
      /\ methodName = NoName /\ result = Refused
  BY DEF Init
<1>2. HeapOK(values) /\ DOMAIN values = {}
  BY <1>1, EmptyHeap
<1>3. Outcome = None
  BY <1>1 DEF Outcome
<1>4. FramesOK(values, frames, Outcome)
  BY <1>1 DEF FramesOK
<1>5. WellCounted(values, frames, releasing, Outcome)
  BY <1>1, <1>2, <1>3, <1>4 DEF WellCounted
<1>6. FramesInTree
  BY <1>1 DEF FramesInTree
<1>7. QED
  BY ONLY <1>1, <1>2, <1>5, <1>6 DEF ValuesInv

LEMMA StutterKeepsValues ==
    ASSUME IInv, UNCHANGED vars
    PROVE  ValuesInv'
<1>1. /\ UNCHANGED <<document, pc, nodes, values, frames, returned, releasing,
                     fault, ranOut, misused, methodName, result>>
  BY DEF vars, treeVars, valueVars, flags, outVars
<1>2. Outcome' = Outcome
  BY <1>1 DEF Outcome
<1>3. QED
  BY ONLY <1>1, <1>2, IInv DEF IInv, ValuesInv, FramesInTree, ChildCount, Children

LEMMA StepKeepsValues ==
    ASSUME IInv, [Next]_vars
    PROVE  ValuesInv'
<1>1. CASE \/ TooLarge \/ CreateParser \/ StartElement \/ EndElement
           \/ CharacterData \/ NotXml \/ EndOfXml
  BY <1>1, ParsingKeepsValues
<1>2. CASE Object
  BY <1>2, ObjectKeepsValues
<1>3. CASE NextItem
  BY <1>3, NextItemKeepsValues
<1>4. CASE AppendItem
  BY <1>4, AppendItemKeepsValues
<1>5. CASE SetMember
  BY <1>5, SetMemberKeepsValues
<1>6. CASE ReturnMade
  BY <1>6, ReturnMadeKeepsValues
<1>7. CASE Unwind
  BY <1>7, UnwindKeepsValues
<1>8. CASE Converted
  BY <1>8, ConvertedKeepsValues
<1>9. CASE Release
  BY <1>9, ReleaseKeepsValues
<1>10. CASE TakeMethodName
  BY <1>10, TakeMethodNameKeepsValues
<1>11. CASE TakeParams
  BY <1>11, TakeParamsKeepsValues
<1>12. CASE EndCall
  BY <1>12, EndCallKeepsValues
<1>13. CASE TakeResponse
  BY <1>13, TakeResponseKeepsValues
<1>14. CASE EndResponse
  BY <1>14, EndResponseKeepsValues
<1>15. CASE Terminated \/ UNCHANGED vars
  BY <1>15, StutterKeepsValues DEF Terminated
<1>16. QED
  BY <1>1, <1>2, <1>3, <1>4, <1>5, <1>6, <1>7, <1>8, <1>9, <1>10, <1>11, <1>12,
     <1>13, <1>14, <1>15 DEF Next

(* The tree that expat's events build is one, and whatever is wrong with   *)
(* the document every value has the references that are counted.           *)
THEOREM Invariance == Spec => []IInv
<1>1. Init => IInv
  BY InitTree, InitValues DEF IInv
<1>2. IInv /\ [Next]_vars => IInv'
  BY StepKeepsTree, StepKeepsValues DEF IInv
<1>3. QED
  BY <1>1, <1>2, PTL DEF Spec

-----------------------------------------------------------------------------
(* What follows from it.                                                   *)

LEMMA TypeFollows == IInv => TypeOK
<1> SUFFICES ASSUME IInv PROVE TypeOK
  OBVIOUS
<1>1. /\ pc \in {"start", "expat", "tree", "convert", "ending", "done"}
      /\ barfed \in BOOLEAN /\ IsTree(nodes)
  BY DEF IInv, TreeInv
<1>2. /\ fault \in BOOLEAN /\ ranOut \in BOOLEAN /\ misused \in BOOLEAN
      /\ WellCounted(values, frames, releasing, Outcome)
  BY DEF IInv, ValuesInv
<1>3. \A e \in DOMAIN nodes : \A i \in DOMAIN nodes[e].children :
          LET child == nodes[e].children[i] IN
          child \in DOMAIN nodes /\ nodes[child].parent = e
  BY <1>1 DEF IsTree
<1>4. ASSUME NEW v \in DOMAIN values
      PROVE  /\ values[v].refs >= 1
             /\ \A i \in DOMAIN values[v].items : values[v].items[i] \in DOMAIN values
  <2>1. HeapOK(values)
    BY <1>2, SoundHas
  <2>2. values[v].refs \in Nat \ {0} /\ values[v].items \in Seq(DOMAIN values)
    BY <2>1, CellsAre
  <2>3. QED
    BY <2>2
<1>5. ASSUME NEW i \in DOMAIN frames
      PROVE  {frames[i].made, frames[i].key} \ {None} \subseteq DOMAIN values
  BY <1>2 DEF WellCounted, FramesOK, FrameOK
<1>6. QED
  BY ONLY <1>1, <1>2, <1>3, <1>4, <1>5 DEF TypeOK

(* Elements, values and frames hold what is alive only, at every moment,   *)
(* however the document is wrong and wherever memory runs out.             *)
THEOREM TypeCorrect == Spec => []TypeOK
  BY Invariance, TypeFollows, PTL

(* The counts of references are those that somebody holds.                 *)
LEMMA HoldersAre ==
    ASSUME WellCounted(values, frames, releasing, Outcome), NEW v
    PROVE  Holders(v) = Refer(values, frames, releasing, Outcome, v)
<1>1. frames \in Seq(AnyFrame)
  BY SoundHas
<1>2. /\ DOMAIN Mades(frames) = DOMAIN frames
      /\ \A i \in DOMAIN frames : Mades(frames)[i] = frames[i].made
      /\ DOMAIN Keys(frames) = DOMAIN frames
      /\ \A i \in DOMAIN frames : Keys(frames)[i] = frames[i].key
  BY DEF Mades, Keys
<1>3. {i \in DOMAIN frames : frames[i].made = v}
          = {i \in DOMAIN Mades(frames) : Mades(frames)[i] = v}
  BY <1>2
<1>4. {i \in DOMAIN frames : frames[i].key = v}
          = {i \in DOMAIN Keys(frames) : Keys(frames)[i] = v}
  BY <1>2
<1>5. Cardinality({i \in DOMAIN frames : frames[i].made = v}) = Count(Mades(frames), v)
  BY ONLY <1>3 DEF Count
<1>6. Cardinality({i \in DOMAIN frames : frames[i].key = v}) = Count(Keys(frames), v)
  BY ONLY <1>4 DEF Count
<1>7. [u \in DOMAIN values |-> values[u].items] = ItemsOf(values)
  BY DEF ItemsOf
<1>8. Cardinality(Places([u \in DOMAIN values |-> values[u].items], v))
          = PlaceCount(ItemsOf(values), v)
  BY <1>7 DEF PlaceCount
<1>9. (IF Outcome = v THEN 1 ELSE 0) = OneIf(Outcome = v)
  BY DEF OneIf
<1>10. QED
  BY ONLY <1>5, <1>6, <1>8, <1>9 DEF Holders, Refer

(* Values that only hold each other are none.                              *)
LEMMA NobodyLeft ==
    ASSUME NEW heap, WellCounted(heap, <<>>, <<>>, None)
    PROVE  DOMAIN heap = {}
<1>1. HeapOK(heap)
  BY SoundHas
<1>2. ASSUME NEW v \in DOMAIN heap PROVE PlaceCount(ItemsOf(heap), v) # 0
  <2>1. heap[v].refs = PlaceCount(ItemsOf(heap), v) + Count(Mades(<<>>), v)
                       + Count(Keys(<<>>), v) + Count(<<>>, v) + OneIf(None = v)
    BY SoundHas
  <2>2. heap[v].refs \in Nat \ {0} /\ v # None
    BY <1>1, CellsAre
  <2>3. OneIf(None = v) = 0 /\ Count(<<>>, v) = 0
    BY <2>2, CountShort DEF OneIf
  <2>4. Count(Mades(<<>>), v) = 0 /\ Count(Keys(<<>>), v) = 0
    <3>1. <<>> \in Seq(AnyFrame) /\ DOMAIN <<>> = {}
      OBVIOUS
    <3>2. PICK fs : fs = <<>>
      OBVIOUS
    <3>3. fs \in Seq(AnyFrame) /\ \A i \in DOMAIN fs : fs[i].made # v /\ fs[i].key # v
      BY <3>1, <3>2
    <3>4. Count(Mades(fs), v) = 0 /\ Count(Keys(fs), v) = 0
      BY ONLY <3>3, MadesIn
    <3>5. QED
      BY <3>2, <3>4
  <2>5. QED
    BY <2>1, <2>2, <2>3, <2>4
<1> SUFFICES ASSUME DOMAIN heap # {} PROVE FALSE
  OBVIOUS
<1>3. PICK v \in DOMAIN heap : \A u \in DOMAIN heap : v \notin ToSet(heap[u].items)
  BY <1>1 DEF HeapOK, Acyclic
<1>4. PlaceCount(ItemsOf(heap), v) = 0
  <2>1. \A a \in DOMAIN ItemsOf(heap) : \A i \in DOMAIN ItemsOf(heap)[a] :
            ItemsOf(heap)[a][i] # v
    BY <1>1, <1>3, CellsAre DEF ToSet
  <2>2. HoldsSeqs(ItemsOf(heap), DOMAIN heap)
    BY <1>1, CellsAre
  <2>3. QED
    BY ONLY <2>1, <2>2, PlaceCountIn
<1>5. QED
  BY <1>2, <1>4

(* While every handler that fails undoes what it did, all elements hang on *)
(* the root.                                                               *)
LEMMA OnTheRoot ==
    ASSUME IInv, Scarce \cap Sloppy = {}
    PROVE  DOMAIN nodes = IF rootP = None \/ barfed \/ pc = "done" THEN {}
                          ELSE Subtree(nodes, rootP)
<1>1. TreeInv
  BY DEF IInv
<1>2. CASE barfed
  BY <1>1, <1>2 DEF TreeInv
<1>3. CASE ~barfed /\ pc = "done"
  BY <1>1, <1>3 DEF TreeInv
<1>4. CASE ~barfed /\ pc = "start"
  BY <1>1, <1>4 DEF TreeInv
<1>5. CASE ~barfed /\ pc = "expat"
  <2>1. rootP = IF DOMAIN nodes = {} THEN None ELSE 1
    BY <1>1, <1>5 DEF TreeInv, Building
  <2>2. IsTree(nodes)
    BY <1>1 DEF TreeInv
  <2>3. CASE DOMAIN nodes = {}
    BY <1>5, <2>1, <2>3
  <2>4. CASE DOMAIN nodes # {}
    <3>1. rootP = 1 /\ 1 # None /\ 1 \in DOMAIN nodes
      BY <2>1, <2>2, <2>4 DEF IsTree, None
    <3>2. Subtree(nodes, 1) = DOMAIN nodes
      BY ONLY <2>2, <3>1, SubtreeIsAll
    <3>3. QED
      BY <1>5, <3>1, <3>2
  <2>5. QED
    BY <2>3, <2>4
<1>6. CASE ~barfed /\ pc \in {"tree", "convert", "ending"}
  <2>1. rootP = 1 /\ 1 # None /\ 1 \in DOMAIN nodes /\ IsTree(nodes)
    BY <1>1, <1>6 DEF TreeInv, None
  <2>2. Subtree(nodes, 1) = DOMAIN nodes
    BY ONLY <2>1, SubtreeIsAll
  <2>3. QED
    BY <1>6, <2>1, <2>2
<1>7. pc \in {"start", "expat", "tree", "convert", "ending", "done"}
  BY <1>1 DEF TreeInv
<1>8. QED
  BY <1>2, <1>3, <1>4, <1>5, <1>6, <1>7

LEMMA NothingLostFollows ==
    ASSUME Scarce \cap Sloppy = {}
    PROVE  IInv => NothingLost
<1> SUFFICES ASSUME IInv PROVE NothingLost
  OBVIOUS
<1>1. /\ ~misused /\ WellCounted(values, frames, releasing, Outcome)
      /\ pc = "done" => frames = <<>>
      /\ pc = "done" /\ fault => methodName = NoName
  BY DEF IInv, ValuesInv
<1>2. \A v \in DOMAIN values : values[v].refs = Holders(v)
  BY <1>1, HoldersAre DEF WellCounted
<1>3. ASSUME Over, Outcome = None PROVE DOMAIN values = {}
  <2>1. WellCounted(values, <<>>, <<>>, None)
    BY <1>1, <1>3 DEF Over
  <2>2. QED
    BY <2>1, NobodyLeft
<1>4. Over /\ fault => methodName = NoName
  BY <1>1 DEF Over
<1>5. QED
  BY <1>1, <1>2, <1>3, <1>4, OnTheRoot DEF NothingLost

(* Whatever the document and wherever memory runs out, but for the places  *)
(* in Sloppy, nothing that was allocated is left but the result.           *)
THEOREM NothingIsLost ==
    ASSUME Scarce \cap Sloppy = {}
    PROVE  Spec => []NothingLost
<1>1. IInv => NothingLost
  BY NothingLostFollows
<1>2. QED
  BY <1>1, Invariance, PTL
(* What elements mean, one level after the other.                          *)
NoMeanings == [element \in Elements |-> NoMeaning]
Meanings(below) == [element \in Elements |-> MeaningOf(element, below)]

(* f[i] is what elements mean that are nested at most i deep.              *)
MeaningsTo(n, f) ==
    f = [i \in 0..n |-> IF i = 0 THEN NoMeanings ELSE Meanings(f[i - 1])]

LEMMA MeaningsExist ==
    ASSUME NEW n \in Nat
    PROVE  \E f : MeaningsTo(n, f)
<1> DEFINE T == {m \in Nat : \E f : MeaningsTo(m, f)}
<1>1. 0 \in T
  <2> DEFINE f == [i \in 0..0 |-> NoMeanings]
  <2>1. f = [i \in 0..0 |-> IF i = 0 THEN NoMeanings ELSE Meanings(f[i - 1])]
    <3> SUFFICES ASSUME NEW i \in 0..0
                 PROVE  f[i] = IF i = 0 THEN NoMeanings ELSE Meanings(f[i - 1])
      BY Zenon
    <3>1. i = 0
      OBVIOUS
    <3>2. QED
      BY <3>1
  <2> HIDE DEF f
  <2>2. MeaningsTo(0, f)
    BY <2>1 DEF MeaningsTo
  <2>3. QED
    BY <2>2
<1>2. ASSUME NEW m \in Nat, m \in T PROVE m + 1 \in T
  <2>1. PICK f : MeaningsTo(m, f)
    BY <1>2
  <2>2. \A i \in 0..m : f[i] = IF i = 0 THEN NoMeanings ELSE Meanings(f[i - 1])
    BY <2>1, Zenon DEF MeaningsTo
  <2> DEFINE g == [i \in 0..(m + 1) |->
                      IF i <= m THEN f[i] ELSE Meanings(f[m])]
  <2>3. ASSUME NEW i \in 0..(m + 1)
        PROVE  g[i] = IF i = 0 THEN NoMeanings ELSE Meanings(g[i - 1])
    <3>1. CASE i = 0
      <4>1. 0 \in 0..m /\ 0 <= m
        OBVIOUS
      <4>2. g[0] = f[0]
        BY <4>1
      <4>3. f[0] = NoMeanings
        BY <2>2, <4>1
      <4>4. QED
        BY <3>1, <4>2, <4>3
    <3>2. CASE i # 0 /\ i <= m
      <4>1. i - 1 \in 0..m /\ i \in 0..m /\ i - 1 <= m /\ i - 1 \in 0..(m + 1)
        BY <3>2
      <4>2. g[i] = f[i] /\ g[i - 1] = f[i - 1]
        BY <3>2, <4>1
      <4>3. QED
        BY <2>2, <3>2, <4>1, <4>2
    <3>3. CASE i = m + 1
      <4>1. i - 1 = m /\ m \in 0..(m + 1) /\ ~(i <= m) /\ i # 0
        BY <3>3
      <4>2. g[i] = Meanings(f[m]) /\ g[m] = f[m]
        BY <4>1
      <4>3. QED
        BY <4>1, <4>2
    <3>4. QED
      BY <3>1, <3>2, <3>3
  <2>4. g = [i \in 0..(m + 1) |-> g[i]]
    OBVIOUS
  <2> HIDE DEF g
  <2>5. MeaningsTo(m + 1, g)
    BY <2>3, <2>4, Zenon DEF MeaningsTo
  <2>6. QED
    BY <2>5
<1> HIDE DEF T
<1>3. Nat \subseteq T
  BY <1>1, <1>2, NatSetInduction, Zenon
<1>4. QED
  BY <1>3 DEF T

LEMMA MeaningsUnique ==
    ASSUME NEW m \in Nat, NEW n \in Nat, m <= n, NEW f, NEW g,
           MeaningsTo(m, f), MeaningsTo(n, g)
    PROVE  \A i \in 0..m : f[i] = g[i]
<1> DEFINE T == {i \in Nat : i \in 0..m => f[i] = g[i]}
<1>1. /\ \A i \in 0..m :
             f[i] = IF i = 0 THEN NoMeanings ELSE Meanings(f[i - 1])
      /\ \A i \in 0..n :
             g[i] = IF i = 0 THEN NoMeanings ELSE Meanings(g[i - 1])
  BY Zenon DEF MeaningsTo
<1>2. 0 \in T
  <2>1. 0 \in 0..m /\ 0 \in 0..n
    OBVIOUS
  <2>2. f[0] = NoMeanings /\ g[0] = NoMeanings
    BY <1>1, <2>1
  <2>3. QED
    BY <2>2
<1>3. ASSUME NEW i \in Nat, i \in T PROVE i + 1 \in T
  <2> SUFFICES ASSUME i + 1 \in 0..m PROVE f[i + 1] = g[i + 1]
    OBVIOUS
  <2>1. i \in 0..m /\ i + 1 \in 0..n /\ (i + 1) - 1 = i /\ i + 1 # 0
    OBVIOUS
  <2>2. f[i] = g[i]
    BY <1>3, <2>1
  <2>3. /\ f[i + 1] = Meanings(f[i])
        /\ g[i + 1] = Meanings(g[i])
    BY <1>1, <2>1
  <2>4. QED
    BY <2>2, <2>3
<1> HIDE DEF T
<1>4. Nat \subseteq T
  BY <1>2, <1>3, NatSetInduction, Zenon
<1>5. QED
  BY <1>4 DEF T

LEMMA MeaningIs ==
    /\ Meaning[0] = NoMeanings
    /\ \A d \in Nat : Meaning[d + 1] = Meanings(Meaning[d])
<1> DEFINE g == [n \in Nat |-> (CHOOSE f : MeaningsTo(n, f))[n]]
<1>1. \A n \in Nat : MeaningsTo(n, CHOOSE f : MeaningsTo(n, f))
  BY MeaningsExist
<1>2. ASSUME NEW n \in Nat
      PROVE  /\ g[0] = NoMeanings
             /\ g[n + 1] = Meanings(g[n])
  <2> DEFINE a == CHOOSE f : MeaningsTo(n, f)
             b == CHOOSE f : MeaningsTo(n + 1, f)
             z == CHOOSE f : MeaningsTo(0, f)
  <2>1. /\ MeaningsTo(n, a) /\ MeaningsTo(n + 1, b)
        /\ MeaningsTo(0, z)
    BY <1>1
  <2>2. g[n] = a[n] /\ g[n + 1] = b[n + 1] /\ g[0] = z[0]
    OBVIOUS
  <2> HIDE DEF a, b, z, g
  <2>3. /\ \A i \in 0..(n + 1) :
               b[i] = IF i = 0 THEN NoMeanings ELSE Meanings(b[i - 1])
        /\ \A i \in 0..0 :
               z[i] = IF i = 0 THEN NoMeanings ELSE Meanings(z[i - 1])
    BY <2>1, Zenon DEF MeaningsTo
  <2>4. a[n] = b[n]
    BY <2>1, MeaningsUnique
  <2>5. /\ n + 1 \in 0..(n + 1) /\ (n + 1) - 1 = n /\ n + 1 # 0
        /\ 0 \in 0..0
    OBVIOUS
  <2>6. b[n + 1] = Meanings(b[n]) /\ z[0] = NoMeanings
    BY <2>3, <2>5
  <2>7. QED
    BY <2>2, <2>4, <2>6
<1>3. g = [n \in Nat |-> g[n]]
  OBVIOUS
<1> HIDE DEF g
<1>4. ASSUME NEW n \in Nat
      PROVE  g[n] = IF n = 0 THEN NoMeanings ELSE Meanings(g[n - 1])
  <2>1. CASE n = 0
    BY <1>2, <2>1
  <2>2. CASE n # 0
    <3>1. n - 1 \in Nat /\ (n - 1) + 1 = n
      BY <2>2
    <3>2. QED
      BY <1>2, <2>2, <3>1
  <2>3. QED
    BY <2>1, <2>2
<1>5. ASSUME NEW n \in Nat
      PROVE  g[n] = [element \in Elements |->
                         IF n = 0 THEN NoMeaning ELSE MeaningOf(element, g[n - 1])]
  <2>1. CASE n = 0
    BY <1>4, <2>1, Zenon DEF NoMeanings
  <2>2. CASE n # 0
    BY <1>4, <2>2, Zenon DEF Meanings
  <2>3. QED
    BY <2>1, <2>2
<1>6. g = [n \in Nat |-> [element \in Elements |->
                         IF n = 0 THEN NoMeaning ELSE MeaningOf(element, g[n - 1])]]
  BY <1>3, <1>5, Zenon
<1>7. Meaning = [n \in Nat |-> [element \in Elements |->
                   IF n = 0 THEN NoMeaning ELSE MeaningOf(element, Meaning[n - 1])]]
  BY <1>6, Zenon DEF Meaning
<1>8. \A n \in Nat : Meaning[n] = [element \in Elements |->
                   IF n = 0 THEN NoMeaning ELSE MeaningOf(element, Meaning[n - 1])]
  BY <1>7, Zenon
<1>9. Meaning[0] = NoMeanings
  <2>1. 0 \in Nat
    OBVIOUS
  <2>2. Meaning[0] = [element \in Elements |->
                   IF 0 = 0 THEN NoMeaning ELSE MeaningOf(element, Meaning[0 - 1])]
    BY ONLY <1>8, <2>1
  <2>3. QED
    BY <2>2, Zenon DEF NoMeanings
<1>10. ASSUME NEW d \in Nat PROVE Meaning[d + 1] = Meanings(Meaning[d])
  <2>1. d + 1 \in Nat /\ d + 1 # 0 /\ (d + 1) - 1 = d
    OBVIOUS
  <2>2. Meaning[d + 1] = [element \in Elements |-> MeaningOf(element, Meaning[d])]
    BY ONLY <1>8, <2>1
  <2>3. QED
    BY <2>2 DEF Meanings
<1>11. QED
  BY <1>9, <1>10

(* What values say, one level after the other.                             *)
NothingSaid(heap) == [u \in DOMAIN heap |-> NoMeaning]
Saying(heap, below) == [u \in DOMAIN heap |-> Told(heap, u, below)]

(* f[i] is what the values say that are nested at most i deep.             *)
SaidTo(heap, n, f) ==
    f = [i \in 0..n |-> IF i = 0 THEN NothingSaid(heap) ELSE Saying(heap, f[i - 1])]

LEMMA SaidExists ==
    ASSUME NEW heap, NEW n \in Nat
    PROVE  \E f : SaidTo(heap, n, f)
<1> DEFINE T == {m \in Nat : \E f : SaidTo(heap, m, f)}
<1>1. 0 \in T
  <2> DEFINE f == [i \in 0..0 |-> NothingSaid(heap)]
  <2>1. f = [i \in 0..0 |-> IF i = 0 THEN NothingSaid(heap) ELSE Saying(heap, f[i - 1])]
    <3> SUFFICES ASSUME NEW i \in 0..0
                 PROVE  f[i] = IF i = 0 THEN NothingSaid(heap) ELSE Saying(heap, f[i - 1])
      BY Zenon
    <3>1. i = 0
      OBVIOUS
    <3>2. QED
      BY <3>1
  <2> HIDE DEF f
  <2>2. SaidTo(heap, 0, f)
    BY <2>1 DEF SaidTo
  <2>3. QED
    BY <2>2
<1>2. ASSUME NEW m \in Nat, m \in T PROVE m + 1 \in T
  <2>1. PICK f : SaidTo(heap, m, f)
    BY <1>2
  <2>2. \A i \in 0..m : f[i] = IF i = 0 THEN NothingSaid(heap) ELSE Saying(heap, f[i - 1])
    BY <2>1, Zenon DEF SaidTo
  <2> DEFINE g == [i \in 0..(m + 1) |->
                      IF i <= m THEN f[i] ELSE Saying(heap, f[m])]
  <2>3. ASSUME NEW i \in 0..(m + 1)
        PROVE  g[i] = IF i = 0 THEN NothingSaid(heap) ELSE Saying(heap, g[i - 1])
    <3>1. CASE i = 0
      <4>1. 0 \in 0..m /\ 0 <= m
        OBVIOUS
      <4>2. g[0] = f[0]
        BY <4>1
      <4>3. f[0] = NothingSaid(heap)
        BY <2>2, <4>1
      <4>4. QED
        BY <3>1, <4>2, <4>3
    <3>2. CASE i # 0 /\ i <= m
      <4>1. i - 1 \in 0..m /\ i \in 0..m /\ i - 1 <= m /\ i - 1 \in 0..(m + 1)
        BY <3>2
      <4>2. g[i] = f[i] /\ g[i - 1] = f[i - 1]
        BY <3>2, <4>1
      <4>3. QED
        BY <2>2, <3>2, <4>1, <4>2
    <3>3. CASE i = m + 1
      <4>1. i - 1 = m /\ m \in 0..(m + 1) /\ ~(i <= m) /\ i # 0
        BY <3>3
      <4>2. g[i] = Saying(heap, f[m]) /\ g[m] = f[m]
        BY <4>1
      <4>3. QED
        BY <4>1, <4>2
    <3>4. QED
      BY <3>1, <3>2, <3>3
  <2>4. g = [i \in 0..(m + 1) |-> g[i]]
    OBVIOUS
  <2> HIDE DEF g
  <2>5. SaidTo(heap, m + 1, g)
    BY <2>3, <2>4, Zenon DEF SaidTo
  <2>6. QED
    BY <2>5
<1> HIDE DEF T
<1>3. Nat \subseteq T
  BY <1>1, <1>2, NatSetInduction, Zenon
<1>4. QED
  BY <1>3 DEF T

LEMMA SaidUnique ==
    ASSUME NEW heap, NEW m \in Nat, NEW n \in Nat, m <= n, NEW f, NEW g,
           SaidTo(heap, m, f), SaidTo(heap, n, g)
    PROVE  \A i \in 0..m : f[i] = g[i]
<1> DEFINE T == {i \in Nat : i \in 0..m => f[i] = g[i]}
<1>1. /\ \A i \in 0..m :
             f[i] = IF i = 0 THEN NothingSaid(heap) ELSE Saying(heap, f[i - 1])
      /\ \A i \in 0..n :
             g[i] = IF i = 0 THEN NothingSaid(heap) ELSE Saying(heap, g[i - 1])
  BY Zenon DEF SaidTo
<1>2. 0 \in T
  <2>1. 0 \in 0..m /\ 0 \in 0..n
    OBVIOUS
  <2>2. f[0] = NothingSaid(heap) /\ g[0] = NothingSaid(heap)
    BY <1>1, <2>1
  <2>3. QED
    BY <2>2
<1>3. ASSUME NEW i \in Nat, i \in T PROVE i + 1 \in T
  <2> SUFFICES ASSUME i + 1 \in 0..m PROVE f[i + 1] = g[i + 1]
    OBVIOUS
  <2>1. i \in 0..m /\ i + 1 \in 0..n /\ (i + 1) - 1 = i /\ i + 1 # 0
    OBVIOUS
  <2>2. f[i] = g[i]
    BY <1>3, <2>1
  <2>3. /\ f[i + 1] = Saying(heap, f[i])
        /\ g[i + 1] = Saying(heap, g[i])
    BY <1>1, <2>1
  <2>4. QED
    BY <2>2, <2>3
<1> HIDE DEF T
<1>4. Nat \subseteq T
  BY <1>2, <1>3, NatSetInduction, Zenon
<1>5. QED
  BY <1>4 DEF T

LEMMA SaysIs ==
    ASSUME NEW heap
    PROVE  \E f : /\ f[0] = NothingSaid(heap)
                  /\ \A i \in Nat : f[i + 1] = Saying(heap, f[i])
                  /\ \A v, n : Says(heap, v, n) = f[n][v]
<1> DEFINE h == CHOOSE f : f = [n \in Nat |-> [u \in DOMAIN heap |->
                    IF n = 0 THEN NoMeaning ELSE Told(heap, u, f[n - 1])]]
           g == [n \in Nat |-> (CHOOSE f : SaidTo(heap, n, f))[n]]
<1>1. \A n \in Nat : SaidTo(heap, n, CHOOSE f : SaidTo(heap, n, f))
  BY SaidExists
<1>2. ASSUME NEW n \in Nat
      PROVE  /\ g[0] = NothingSaid(heap)
             /\ g[n + 1] = Saying(heap, g[n])
  <2> DEFINE a == CHOOSE f : SaidTo(heap, n, f)
             b == CHOOSE f : SaidTo(heap, n + 1, f)
             z == CHOOSE f : SaidTo(heap, 0, f)
  <2>1. /\ SaidTo(heap, n, a) /\ SaidTo(heap, n + 1, b)
        /\ SaidTo(heap, 0, z)
    BY <1>1
  <2>2. g[n] = a[n] /\ g[n + 1] = b[n + 1] /\ g[0] = z[0]
    OBVIOUS
  <2> HIDE DEF a, b, z, g
  <2>3. /\ \A i \in 0..(n + 1) :
               b[i] = IF i = 0 THEN NothingSaid(heap) ELSE Saying(heap, b[i - 1])
        /\ \A i \in 0..0 :
               z[i] = IF i = 0 THEN NothingSaid(heap) ELSE Saying(heap, z[i - 1])
    BY <2>1, Zenon DEF SaidTo
  <2>4. a[n] = b[n]
    BY <2>1, SaidUnique
  <2>5. /\ n + 1 \in 0..(n + 1) /\ (n + 1) - 1 = n /\ n + 1 # 0
        /\ 0 \in 0..0
    OBVIOUS
  <2>6. b[n + 1] = Saying(heap, b[n]) /\ z[0] = NothingSaid(heap)
    BY <2>3, <2>5
  <2>7. QED
    BY <2>2, <2>4, <2>6
<1>3. g = [n \in Nat |-> g[n]]
  OBVIOUS
<1> HIDE DEF g
<1>4. ASSUME NEW n \in Nat
      PROVE  g[n] = IF n = 0 THEN NothingSaid(heap) ELSE Saying(heap, g[n - 1])
  <2>1. CASE n = 0
    BY <1>2, <2>1
  <2>2. CASE n # 0
    <3>1. n - 1 \in Nat /\ (n - 1) + 1 = n
      BY <2>2
    <3>2. QED
      BY <1>2, <2>2, <3>1
  <2>3. QED
    BY <2>1, <2>2
<1>5. ASSUME NEW n \in Nat
      PROVE  g[n] = [u \in DOMAIN heap |->
                         IF n = 0 THEN NoMeaning ELSE Told(heap, u, g[n - 1])]
  <2>1. CASE n = 0
    BY <1>4, <2>1, Zenon DEF NothingSaid
  <2>2. CASE n # 0
    BY <1>4, <2>2, Zenon DEF Saying
  <2>3. QED
    BY <2>1, <2>2
<1>6. g = [n \in Nat |-> [u \in DOMAIN heap |->
                         IF n = 0 THEN NoMeaning ELSE Told(heap, u, g[n - 1])]]
  BY <1>3, <1>5, Zenon
<1>7. h = [n \in Nat |-> [u \in DOMAIN heap |->
                         IF n = 0 THEN NoMeaning ELSE Told(heap, u, h[n - 1])]]
  BY <1>6, Zenon
<1>8. \A v, n : Says(heap, v, n) = h[n][v]
  BY Zenon DEF Says
<1> HIDE DEF h
<1>9. \A n \in Nat : h[n] = [u \in DOMAIN heap |->
                         IF n = 0 THEN NoMeaning ELSE Told(heap, u, h[n - 1])]
  BY <1>7, Zenon
<1>10. h[0] = NothingSaid(heap)
  <2>1. 0 \in Nat
    OBVIOUS
  <2>2. h[0] = [u \in DOMAIN heap |->
                         IF 0 = 0 THEN NoMeaning ELSE Told(heap, u, h[0 - 1])]
    BY ONLY <1>9, <2>1
  <2>3. QED
    BY <2>2, Zenon DEF NothingSaid
<1>11. ASSUME NEW d \in Nat PROVE h[d + 1] = Saying(heap, h[d])
  <2>1. d + 1 \in Nat /\ d + 1 # 0 /\ (d + 1) - 1 = d
    OBVIOUS
  <2>2. h[d + 1] = [u \in DOMAIN heap |-> Told(heap, u, h[d])]
    BY ONLY <1>9, <2>1
  <2>3. QED
    BY <2>2 DEF Saying
<1>12. QED
  BY <1>8, <1>10, <1>11

LEMMA MeaningAt ==
    ASSUME NEW d \in Nat, NEW element \in Elements
    PROVE  /\ Meaning[0][element] = NoMeaning
           /\ Meaning[d + 1][element] = MeaningOf(element, Meaning[d])
<1>1. Meaning[0] = NoMeanings /\ Meaning[d + 1] = Meanings(Meaning[d])
  BY MeaningIs
<1>2. QED
  BY <1>1, Zenon DEF NoMeanings, Meanings

LEMMA SaysAt ==
    ASSUME NEW heap, NEW v \in DOMAIN heap, NEW n \in Nat
    PROVE  /\ Says(heap, v, 0) = NoMeaning
           /\ Says(heap, v, n + 1) =
                  Told(heap, v, [u \in DOMAIN heap |-> Says(heap, u, n)])
<1>1. PICK f : /\ f[0] = NothingSaid(heap)
               /\ \A i \in Nat : f[i + 1] = Saying(heap, f[i])
               /\ \A u, i : Says(heap, u, i) = f[i][u]
  BY ONLY SaysIs
<1>2. f[n] = [u \in DOMAIN heap |-> f[n][u]]
  <2>1. CASE n = 0
    BY ONLY <1>1, <2>1, Zenon DEF NothingSaid
  <2>2. CASE n # 0
    <3>1. n - 1 \in Nat /\ (n - 1) + 1 = n
      BY <2>2
    <3>2. f[n] = Saying(heap, f[n - 1])
      BY ONLY <1>1, <3>1
    <3>3. QED
      BY ONLY <3>2, Zenon DEF Saying
  <2>3. QED
    BY <2>1, <2>2
<1>3. f[n] = [u \in DOMAIN heap |-> Says(heap, u, n)]
  BY ONLY <1>1, <1>2, Zenon
<1>4. f[n + 1][v] = Told(heap, v, f[n])
  BY <1>1, Zenon DEF Saying
<1>5. f[0][v] = NoMeaning
  BY <1>1, Zenon DEF NothingSaid
<1>6. Says(heap, v, 0) = f[0][v] /\ Says(heap, v, n + 1) = f[n + 1][v]
  BY ONLY <1>1
<1>7. QED
  BY ONLY <1>3, <1>4, <1>5, <1>6

(* The values of D, which hold only such, say the same in heap2 as in heap. *)
SameIn(heap, heap2, D) ==
    /\ D \subseteq DOMAIN heap /\ D \subseteq DOMAIN heap2
    /\ \A u \in D : /\ heap[u].items \in Seq(D)
                    /\ heap2[u].items = heap[u].items
                    /\ heap2[u].kind = heap[u].kind
                    /\ heap2[u].text = heap[u].text

(* What the items of an array say, and the members of a struct.            *)
ItemsTold(heap, v, below) ==
    [i \in DOMAIN heap[v].items |-> below[heap[v].items[i]]]
MembersTold(heap, v, below) ==
    {<<heap[heap[v].items[2 * i - 1]].text, below[heap[v].items[2 * i]]>> :
         i \in 1..(Len(heap[v].items) \div 2)}

LEMMA ToldIs ==
    ASSUME NEW heap, NEW v, NEW below
    PROVE  /\ heap[v].kind = "array" =>
                  Told(heap, v, below) = <<"array", ItemsTold(heap, v, below)>>
           /\ heap[v].kind = "struct" =>
                  Told(heap, v, below) = <<"struct", MembersTold(heap, v, below)>>
           /\ heap[v].kind # "array" /\ heap[v].kind # "struct" =>
                  Told(heap, v, below) = <<heap[v].kind, heap[v].text>>
  BY DEF Told, ItemsTold, MembersTold

LEMMA ToldSame ==
    ASSUME NEW heap, NEW heap2, NEW D, SameIn(heap, heap2, D), NEW v \in D,
           NEW below, NEW below2, \A u \in D : below2[u] = below[u]
    PROVE  Told(heap2, v, below2) = Told(heap, v, below)
<1> DEFINE items == heap[v].items
           n == Len(items) \div 2
<1>1. /\ items \in Seq(D) /\ heap2[v].items = items
      /\ heap2[v].kind = heap[v].kind /\ heap2[v].text = heap[v].text
  BY DEF SameIn
<1>2. \A i \in DOMAIN items : items[i] \in D
  BY <1>1
<1>3. ItemsTold(heap2, v, below2) = ItemsTold(heap, v, below)
  <2>1. [i \in DOMAIN items |-> below2[items[i]]] = [i \in DOMAIN items |-> below[items[i]]]
    BY <1>2
  <2>2. QED
    BY <1>1, <2>1 DEF ItemsTold
<1>4. \A i \in 1..n : 2 * i - 1 \in DOMAIN items /\ 2 * i \in DOMAIN items
  <2>1. Len(items) \in Nat /\ DOMAIN items = 1..Len(items)
    BY <1>1
  <2> HIDE DEF items
  <2>2. QED
    BY <2>1
<1>5. \A i \in 1..n :
          /\ heap2[items[2 * i - 1]].text = heap[items[2 * i - 1]].text
          /\ below2[items[2 * i]] = below[items[2 * i]]
  BY <1>2, <1>4 DEF SameIn
<1>6. MembersTold(heap2, v, below2) = MembersTold(heap, v, below)
  <2>1. {<<heap2[items[2 * i - 1]].text, below2[items[2 * i]]>> : i \in 1..n}
           = {<<heap[items[2 * i - 1]].text, below[items[2 * i]]>> : i \in 1..n}
    <3> HIDE DEF items, n
    <3>1. \A i \in 1..n :
              <<heap2[items[2 * i - 1]].text, below2[items[2 * i]]>>
                  = <<heap[items[2 * i - 1]].text, below[items[2 * i]]>>
      BY ONLY <1>5
    <3>2. QED
      BY ONLY <3>1, Zenon
  <2>2. QED
    BY <1>1, <2>1, Zenon DEF MembersTold
<1>7. QED
  BY ONLY <1>1, <1>3, <1>6, ToldIs

LEMMA SaysSame ==
    ASSUME NEW heap, NEW heap2, NEW D, SameIn(heap, heap2, D)
    PROVE  \A n \in Nat : \A v \in D : Says(heap2, v, n) = Says(heap, v, n)
<1> DEFINE T == {n \in Nat : \A v \in D : Says(heap2, v, n) = Says(heap, v, n)}
<1>1. \A v \in D : v \in DOMAIN heap /\ v \in DOMAIN heap2
  BY DEF SameIn
<1>2. 0 \in T
  BY <1>1, SaysAt
<1>3. ASSUME NEW n \in Nat, n \in T PROVE n + 1 \in T
  <2> DEFINE below == [u \in DOMAIN heap |-> Says(heap, u, n)]
             below2 == [u \in DOMAIN heap2 |-> Says(heap2, u, n)]
  <2>1. \A u \in D : below2[u] = below[u]
    BY <1>1, <1>3
  <2> HIDE DEF below, below2
  <2>2. \A v \in D : Told(heap2, v, below2) = Told(heap, v, below)
    BY ONLY <2>1, SameIn(heap, heap2, D), ToldSame
  <2>3. ASSUME NEW v \in D PROVE Says(heap2, v, n + 1) = Says(heap, v, n + 1)
    <3>1. /\ Says(heap, v, n + 1) = Told(heap, v, below)
          /\ Says(heap2, v, n + 1) = Told(heap2, v, below2)
      BY <1>1, SaysAt DEF below, below2
    <3>2. QED
      BY <2>2, <3>1
  <2>4. QED
    BY <2>3
<1> HIDE DEF T
<1>4. Nat \subseteq T
  BY <1>2, <1>3, NatSetInduction, Zenon
<1>5. QED
  BY <1>4 DEF T

(* What an array's items and a struct's members say.                       *)
ItemsSaid(heap, v, n) ==
    [i \in DOMAIN heap[v].items |-> Says(heap, heap[v].items[i], n)]
MembersSaid(heap, v, n) ==
    {<<heap[heap[v].items[2 * i - 1]].text, Says(heap, heap[v].items[2 * i], n)>> :
         i \in 1..(Len(heap[v].items) \div 2)}

LEMMA SaysNext ==
    ASSUME NEW heap, NEW v \in DOMAIN heap, NEW n \in Nat,
           heap[v].items \in Seq(DOMAIN heap)
    PROVE  /\ heap[v].kind = "array" =>
                  Says(heap, v, n + 1) = <<"array", ItemsSaid(heap, v, n)>>
           /\ heap[v].kind = "struct" =>
                  Says(heap, v, n + 1) = <<"struct", MembersSaid(heap, v, n)>>
           /\ heap[v].kind # "array" /\ heap[v].kind # "struct" =>
                  Says(heap, v, n + 1) = <<heap[v].kind, heap[v].text>>
<1> DEFINE below == [u \in DOMAIN heap |-> Says(heap, u, n)]
           items == heap[v].items
           m == Len(items) \div 2
<1>1. Says(heap, v, n + 1) = Told(heap, v, below)
  BY SaysAt
<1>2. items \in Seq(DOMAIN heap)
  OBVIOUS
<1>3. \A u \in DOMAIN heap : below[u] = Says(heap, u, n)
  OBVIOUS
<1>4. ItemsTold(heap, v, below) = ItemsSaid(heap, v, n)
  <2>1. \A i \in DOMAIN items : below[items[i]] = Says(heap, items[i], n)
    <3> HIDE DEF items, below
    <3>1. \A i \in DOMAIN items : items[i] \in DOMAIN heap
      BY <1>2
    <3>2. QED
      BY <1>3, <3>1
  <2> HIDE DEF below
  <2>2. QED
    BY <2>1, Zenon DEF ItemsTold, ItemsSaid
<1>5. MembersTold(heap, v, below) = MembersSaid(heap, v, n)
  <2>1. \A i \in 1..m : 2 * i \in DOMAIN items
    <3>1. Len(items) \in Nat /\ DOMAIN items = 1..Len(items)
      BY <1>2
    <3> HIDE DEF items
    <3>2. QED
      BY <3>1
  <2>2. \A i \in 1..m : below[items[2 * i]] = Says(heap, items[2 * i], n)
    <3> HIDE DEF items, below, m
    <3>1. \A i \in 1..m : items[2 * i] \in DOMAIN heap
      BY <1>2, <2>1
    <3>2. QED
      BY <1>3, <3>1
  <2> HIDE DEF below
  <2>3. \A i \in 1..m : <<heap[items[2 * i - 1]].text, below[items[2 * i]]>>
                            = <<heap[items[2 * i - 1]].text, Says(heap, items[2 * i], n)>>
    BY <2>2
  <2>4. QED
    BY <2>3, Zenon DEF MembersTold, MembersSaid
<1>6. QED
  BY ONLY <1>1, <1>4, <1>5, ToldIs

LEMMA SaysFresh ==
    ASSUME NEW heap, NEW v \in DOMAIN heap, NEW n \in Nat, heap[v].items = <<>>
    PROVE  /\ heap[v].kind = "array" => Says(heap, v, n + 1) = <<"array", <<>> >>
           /\ heap[v].kind = "struct" =>
                  Says(heap, v, n + 1) = <<"struct", {}>>
           /\ heap[v].kind # "array" /\ heap[v].kind # "struct" =>
                  Says(heap, v, n + 1) = <<heap[v].kind, heap[v].text>>
<1>1. heap[v].items \in Seq(DOMAIN heap)
  OBVIOUS
<1>2. ItemsSaid(heap, v, n) = <<>>
  BY DEF ItemsSaid
<1>3. MembersSaid(heap, v, n) = {}
  <2>1. Len(heap[v].items) = 0
    OBVIOUS
  <2>2. 1..(Len(heap[v].items) \div 2) = {}
    BY <2>1
  <2>3. QED
    BY <2>2 DEF MembersSaid
<1>4. QED
  BY <1>1, <1>2, <1>3, SaysNext

-----------------------------------------------------------------------------
(* What the elements mean that conversion goes through.                    *)

(* The name of the element that an array, a struct or the parameters come  *)
(* from; the element in a child of it that is a value; the checks of such  *)
(* a child, but for the value.                                             *)
Heading(fn) == CASE fn = "params" -> "params" [] fn = "array" -> "data"
                 [] OTHER -> "struct"
Inner(fn, child) == CASE fn = "params" -> child.children[1]
                      [] fn = "array" -> child
                      [] OTHER -> TheChild(child, "value")
KeyFits(child) ==
    /\ child.name = "member" /\ Len(child.children) = 2
    /\ HasOne(child, "name")
    /\ IsLeaf(TheChild(child, "name")) /\ Good(TheChild(child, "name"))
ChildFits(fn, child) ==
    /\ fn = "params" => child.name = "param" /\ Len(child.children) = 1
    /\ fn = "struct" => KeyFits(child) /\ HasOne(child, "value")
GoodChild(fn, child, below) ==
    ChildFits(fn, child) /\ below[Inner(fn, child)] # NoMeaning

(* Of the first n of those members the ones that count.                    *)
Lasting(members, n) ==
    {j \in 1..n : \A i \in 1..n : KeyOf(members[i]) = KeyOf(members[j]) => i <= j}
MembersMeant(members, n, below) ==
    {<<KeyOf(members[i]), below[Inner("struct", members[i])]>> : i \in Lasting(members, n)}
ItemsMeant(fn, children, n, below) ==
    [i \in 1..n |-> below[Inner(fn, children[i])]]

(* What the first n children mean, and all of an element's.                *)
PartOf(fn, children, n, below) ==
    IF fn = "struct" THEN <<"struct", MembersMeant(children, n, below)>>
    ELSE <<"array", ItemsMeant(fn, children, n, below)>>
WholeOf(fn, element, below) ==
    IF /\ element.name = Heading(fn)
       /\ \A i \in DOMAIN element.children : GoodChild(fn, element.children[i], below)
    THEN PartOf(fn, element.children, Len(element.children), below)
    ELSE NoMeaning

LEMMA PartMeans ==
    ASSUME NEW fn, NEW children, NEW n, NEW below
    PROVE  PartOf(fn, children, n, below) # NoMeaning
  BY DEF PartOf, NoMeaning

LEMMA ElementIs ==
    ASSUME NEW element \in Elements
    PROVE  /\ element.name \in STRING /\ element.text \in Seq(STRING)
           /\ element.children \in Seq(Elements) /\ Len(element.children) \in Nat
           /\ DOMAIN element.children = 1..Len(element.children)
           /\ \A i \in 1..Len(element.children) : element.children[i] \in Elements
           /\ IsLeaf(element) <=> Len(element.children) = 0
<1>1. /\ element.name \in STRING /\ element.text \in Seq(STRING)
      /\ element.children \in Seq(Elements)
  BY ElementsAssumption
<1>2. PICK c : c = element.children
  OBVIOUS
<1>3. /\ Len(c) \in Nat /\ DOMAIN c = 1..Len(c) /\ \A i \in 1..Len(c) : c[i] \in Elements
      /\ c = <<>> <=> Len(c) = 0
  BY ONLY <1>1, <1>2
<1>4. QED
  BY <1>1, <1>2, <1>3 DEF IsLeaf

(* A value in the document and what is in it.                              *)
LEMMA ArrayMeans ==
    ASSUME NEW element \in Elements, NEW below, NEW inner,
           element.name = "value", Len(element.children) = 1,
           inner = element.children[1], inner.name = "array"
    PROVE  MeaningOf(element, below) =
               IF Len(inner.children) = 1
               THEN WholeOf("array", inner.children[1], below) ELSE NoMeaning
<1>1. inner \in Elements /\ ~IsLeaf(element)
  BY ElementIs
<1>2. ~GoodScalar(inner) /\ ~GoodStruct(inner, below)
  BY DEF GoodScalar, GoodStruct, Checked, Unchecked
<1>3. MeaningOf(element, below) =
          IF GoodArray(inner, below) THEN ArrayOf(inner.children[1].children, below)
          ELSE NoMeaning
  BY <1>1, <1>2 DEF MeaningOf
<1>4. CASE Len(inner.children) # 1
  BY <1>3, <1>4 DEF GoodArray
<1>5. CASE Len(inner.children) = 1
  <2>1. PICK data : data = inner.children[1]
    OBVIOUS
  <2>2. data \in Elements
    BY <1>1, <1>5, <2>1, ElementIs
  <2>3. PICK c : c = data.children
    OBVIOUS
  <2>4. DOMAIN c = 1..Len(c)
    BY <2>2, <2>3, ElementIs
  <2>5. \A i \in DOMAIN c : GoodChild("array", c[i], below) <=> below[c[i]] # NoMeaning
    BY DEF GoodChild, ChildFits, Inner
  <2>6. GoodArray(inner, below) <=>
            data.name = "data" /\ \A i \in DOMAIN c : GoodChild("array", c[i], below)
    BY <1>5, <2>1, <2>3, <2>5 DEF GoodArray
  <2>7. ArrayOf(c, below) = PartOf("array", c, Len(c), below)
    BY <2>4 DEF ArrayOf, PartOf, ItemsMeant, Inner
  <2>8. Heading("array") = "data"
    BY DEF Heading
  <2>9. WholeOf("array", data, below) =
            IF data.name = "data" /\ \A i \in DOMAIN c : GoodChild("array", c[i], below)
            THEN PartOf("array", c, Len(c), below) ELSE NoMeaning
    BY <2>3, <2>8 DEF WholeOf
  <2>10. QED
    BY <1>3, <1>5, <2>1, <2>3, <2>6, <2>7, <2>9
<1>6. QED
  BY <1>4, <1>5

LEMMA GoodMemberIs ==
    ASSUME NEW member, NEW below
    PROVE  GoodMember(member, below) <=> GoodChild("struct", member, below)
<1>1. Inner("struct", member) = TheChild(member, "value")
  BY DEF Inner
<1>2. GoodChild("struct", member, below) <=>
          /\ KeyFits(member) /\ HasOne(member, "value")
          /\ below[TheChild(member, "value")] # NoMeaning
  BY <1>1 DEF GoodChild, ChildFits
<1>3. QED
  BY <1>2 DEF GoodMember, KeyFits

LEMMA StructMeans ==
    ASSUME NEW element \in Elements, NEW below, NEW inner,
           element.name = "value", Len(element.children) = 1,
           inner = element.children[1], inner.name = "struct"
    PROVE  MeaningOf(element, below) = WholeOf("struct", inner, below)
<1>1. inner \in Elements /\ ~IsLeaf(element)
  BY ElementIs
<1>2. ~GoodScalar(inner) /\ ~GoodArray(inner, below)
  BY DEF GoodScalar, GoodArray, Checked, Unchecked
<1>3. MeaningOf(element, below) =
          IF GoodStruct(inner, below) THEN StructOf(inner.children, below)
          ELSE NoMeaning
  BY <1>1, <1>2 DEF MeaningOf
<1>4. PICK c : c = inner.children
  OBVIOUS
<1>5. DOMAIN c = 1..Len(c)
  BY <1>1, <1>4, ElementIs
<1>6. GoodStruct(inner, below) <=>
          inner.name = "struct" /\ \A i \in DOMAIN c : GoodChild("struct", c[i], below)
  BY <1>4, GoodMemberIs DEF GoodStruct
<1>7. StructOf(c, below) = PartOf("struct", c, Len(c), below)
  <2>1. Lasting(c, Len(c)) =
            {j \in DOMAIN c : \A i \in DOMAIN c : KeyOf(c[i]) = KeyOf(c[j]) => i <= j}
    BY <1>5 DEF Lasting
  <2>2. \A i : Inner("struct", c[i]) = TheChild(c[i], "value")
    BY DEF Inner
  <2>3. StructOf(c, below) =
            <<"struct", {<<KeyOf(c[i]), below[TheChild(c[i], "value")]>> :
                             i \in Lasting(c, Len(c))}>>
    BY <2>1, Zenon DEF StructOf
  <2>4. MembersMeant(c, Len(c), below) =
            {<<KeyOf(c[i]), below[TheChild(c[i], "value")]>> : i \in Lasting(c, Len(c))}
    BY <2>2 DEF MembersMeant
  <2>5. QED
    BY <2>3, <2>4 DEF PartOf
<1>8. Heading("struct") = "struct"
  BY DEF Heading
<1>9. WholeOf("struct", inner, below) =
          IF inner.name = "struct" /\ \A i \in DOMAIN c : GoodChild("struct", c[i], below)
          THEN PartOf("struct", c, Len(c), below) ELSE NoMeaning
  BY <1>4, <1>8 DEF WholeOf
<1>10. QED
  BY <1>3, <1>4, <1>6, <1>7, <1>9

LEMMA ScalarMeans ==
    ASSUME NEW element \in Elements, NEW below, NEW inner,
           element.name = "value", Len(element.children) = 1,
           inner = element.children[1], inner.name \notin {"array", "struct"}
    PROVE  MeaningOf(element, below) =
               IF GoodScalar(inner) THEN ScalarOf(inner) ELSE NoMeaning
<1>1. ~IsLeaf(element)
  BY ElementIs
<1>2. ~GoodArray(inner, below) /\ ~GoodStruct(inner, below)
  BY DEF GoodArray, GoodStruct
<1>3. QED
  BY <1>1, <1>2 DEF MeaningOf

(* A good whole has good children.                                         *)
LEMMA WholeHas ==
    ASSUME NEW fn, NEW element, NEW below, WholeOf(fn, element, below) # NoMeaning
    PROVE  /\ element.name = Heading(fn)
           /\ \A i \in DOMAIN element.children : GoodChild(fn, element.children[i], below)
  BY DEF WholeOf

LEMMA WholeIs ==
    ASSUME NEW fn, NEW element, NEW below, element.name = Heading(fn),
           \A i \in DOMAIN element.children : GoodChild(fn, element.children[i], below)
    PROVE  WholeOf(fn, element, below) =
               PartOf(fn, element.children, Len(element.children), below)
  BY DEF WholeOf

-----------------------------------------------------------------------------
(* One child more, and one item or member more.                            *)

LEMMA SameLength ==
    ASSUME NEW a \in Nat, NEW b \in Nat, 1..a = 1..b
    PROVE  a = b
<1>1. CASE a = 0
  BY <1>1
<1>2. CASE b = 0
  BY <1>2
<1>3. CASE a # 0 /\ b # 0
  <2>1. a \in 1..b /\ b \in 1..a
    BY <1>3
  <2>2. QED
    BY <2>1
<1>4. QED
  BY <1>1, <1>2, <1>3

(* The pairs with k and x instead of those with k.                         *)
Putting(pairs, k, x) == {pair \in pairs : pair[1] # k} \cup {<<k, x>>}

LEMMA MemberMore ==
    ASSUME NEW members, NEW n \in Nat, NEW below
    PROVE  MembersMeant(members, n + 1, below) =
               Putting(MembersMeant(members, n, below), KeyOf(members[n + 1]),
                       below[Inner("struct", members[n + 1])])
<1> DEFINE K == [i \in 1..(n + 1) |-> KeyOf(members[i])]
           X == [i \in 1..(n + 1) |-> below[Inner("struct", members[i])]]
<1>1. Lasting(members, n + 1) = {j \in 1..(n + 1) : \A i \in 1..(n + 1) : K[i] = K[j] => i <= j}
  BY DEF Lasting
<1>2. Lasting(members, n) = {j \in 1..n : \A i \in 1..n : K[i] = K[j] => i <= j}
  <2>1. \A i \in 1..n : K[i] = KeyOf(members[i])
    OBVIOUS
  <2> HIDE DEF K
  <2>2. QED
    BY <2>1 DEF Lasting
<1>3. /\ \A i \in 1..(n + 1) : K[i] = KeyOf(members[i])
      /\ \A i \in 1..(n + 1) : X[i] = below[Inner("struct", members[i])]
  OBVIOUS
<1> HIDE DEF K, X
<1>4. MembersMeant(members, n + 1, below) = {<<K[i], X[i]>> : i \in Lasting(members, n + 1)}
  <2>1. \A i \in Lasting(members, n + 1) : i \in 1..(n + 1)
    BY <1>1
  <2>2. \A i \in Lasting(members, n + 1) :
            <<KeyOf(members[i]), below[Inner("struct", members[i])]>> = <<K[i], X[i]>>
    BY ONLY <1>3, <2>1
  <2>3. QED
    BY <2>2, Zenon DEF MembersMeant
<1>5. MembersMeant(members, n, below) = {<<K[i], X[i]>> : i \in Lasting(members, n)}
  <2>1. \A i \in Lasting(members, n) : i \in 1..(n + 1)
    BY <1>2
  <2>2. \A i \in Lasting(members, n) :
            <<KeyOf(members[i]), below[Inner("struct", members[i])]>> = <<K[i], X[i]>>
    BY ONLY <1>3, <2>1
  <2>3. QED
    BY <2>2, Zenon DEF MembersMeant
<1>6. ASSUME NEW j
      PROVE  j \in Lasting(members, n + 1) <=>
                 j = n + 1 \/ (j \in Lasting(members, n) /\ K[j] # K[n + 1])
  <2>1. CASE j \in 1..n
    BY <1>1, <1>2, <2>1
  <2>2. CASE j = n + 1
    BY <1>1, <1>2, <2>2
  <2>3. CASE j \notin 1..(n + 1)
    BY <1>1, <1>2, <2>3
  <2>4. QED
    BY <2>1, <2>2, <2>3
<1> DEFINE new == {<<K[i], X[i]>> : i \in Lasting(members, n + 1)}
           old == {<<K[i], X[i]>> : i \in Lasting(members, n)}
<1>7. ASSUME NEW pair PROVE pair \in new <=> pair \in Putting(old, K[n + 1], X[n + 1])
  <2>1. ASSUME pair \in new PROVE pair \in Putting(old, K[n + 1], X[n + 1])
    <3>1. PICK i \in Lasting(members, n + 1) : pair = <<K[i], X[i]>>
      BY <2>1
    <3>2. CASE i = n + 1
      BY <3>1, <3>2 DEF Putting
    <3>3. CASE i \in Lasting(members, n) /\ K[i] # K[n + 1]
      <4>1. pair \in old /\ pair[1] = K[i]
        BY <3>1, <3>3
      <4>2. QED
        BY <3>3, <4>1 DEF Putting
    <3>4. QED
      BY <1>6, <3>2, <3>3
  <2>2. ASSUME pair \in Putting(old, K[n + 1], X[n + 1]) PROVE pair \in new
    <3>1. CASE pair = <<K[n + 1], X[n + 1]>>
      <4>1. n + 1 \in Lasting(members, n + 1)
        BY <1>6
      <4>2. QED
        BY <3>1, <4>1
    <3>2. CASE pair \in old /\ pair[1] # K[n + 1]
      <4>1. PICK i \in Lasting(members, n) : pair = <<K[i], X[i]>>
        BY <3>2
      <4>2. i \in Lasting(members, n + 1)
        BY <1>6, <3>2, <4>1
      <4>3. QED
        BY <4>1, <4>2
    <3>3. QED
      BY <2>2, <3>1, <3>2 DEF Putting
  <2>3. QED
    BY <2>1, <2>2
<1> HIDE DEF new, old
<1>8. new = Putting(old, K[n + 1], X[n + 1])
  BY <1>7
<1>9. K[n + 1] = KeyOf(members[n + 1]) /\ X[n + 1] = below[Inner("struct", members[n + 1])]
  BY <1>3
<1>10. QED
  BY <1>4, <1>5, <1>8, <1>9 DEF new, old

(* The keys that a struct has, and what its values say.                    *)
KeysIn(heap, v) ==
    [p \in 1..(Len(heap[v].items) \div 2) |-> heap[heap[v].items[2 * p - 1]].text]
SaidIn(heap, v, n) ==
    [p \in 1..(Len(heap[v].items) \div 2) |-> Says(heap, heap[v].items[2 * p], n)]
Pairs(K, X, n) == {<<K[p], X[p]>> : p \in 1..n}
KeysDiffer(heap, v) ==
    \A p, q \in 1..(Len(heap[v].items) \div 2) :
        KeysIn(heap, v)[p] = KeysIn(heap, v)[q] => p = q

LEMMA MembersArePairs ==
    ASSUME NEW heap, NEW v, NEW n
    PROVE  MembersSaid(heap, v, n) =
               Pairs(KeysIn(heap, v), SaidIn(heap, v, n), Len(heap[v].items) \div 2)
<1> DEFINE items == heap[v].items
           m == Len(items) \div 2
<1>1. \A p \in 1..m : <<KeysIn(heap, v)[p], SaidIn(heap, v, n)[p]>>
                          = <<heap[items[2 * p - 1]].text, Says(heap, items[2 * p], n)>>
  BY DEF KeysIn, SaidIn
<1>2. QED
  BY <1>1, Zenon DEF MembersSaid, Pairs

LEMMA PairMore ==
    ASSUME NEW n \in Nat, NEW K, NEW X, NEW K2, NEW X2,
           \A p \in 1..n : K2[p] = K[p] /\ X2[p] = X[p],
           \A p \in 1..n : K[p] # K2[n + 1]
    PROVE  Pairs(K2, X2, n + 1) = Putting(Pairs(K, X, n), K2[n + 1], X2[n + 1])
<1>1. ASSUME NEW pair
      PROVE  pair \in Pairs(K2, X2, n + 1) <=>
                 pair \in Putting(Pairs(K, X, n), K2[n + 1], X2[n + 1])
  <2>1. ASSUME pair \in Pairs(K2, X2, n + 1)
        PROVE  pair \in Putting(Pairs(K, X, n), K2[n + 1], X2[n + 1])
    <3>1. PICK p \in 1..(n + 1) : pair = <<K2[p], X2[p]>>
      BY <2>1 DEF Pairs
    <3>2. CASE p = n + 1
      BY <3>1, <3>2 DEF Putting
    <3>3. CASE p \in 1..n
      <4>1. pair = <<K[p], X[p]>> /\ pair[1] = K[p] /\ K[p] # K2[n + 1]
        BY <3>1, <3>3
      <4>2. pair \in Pairs(K, X, n)
        BY <3>3, <4>1 DEF Pairs
      <4>3. QED
        BY <4>1, <4>2 DEF Putting
    <3>4. QED
      BY <3>2, <3>3
  <2>2. ASSUME pair \in Putting(Pairs(K, X, n), K2[n + 1], X2[n + 1])
        PROVE  pair \in Pairs(K2, X2, n + 1)
    <3>1. CASE pair = <<K2[n + 1], X2[n + 1]>>
      BY <3>1 DEF Pairs
    <3>2. CASE pair \in Pairs(K, X, n)
      <4>1. PICK p \in 1..n : pair = <<K[p], X[p]>>
        BY <3>2 DEF Pairs
      <4>2. pair = <<K2[p], X2[p]>> /\ p \in 1..(n + 1)
        BY <4>1
      <4>3. QED
        BY <4>2 DEF Pairs
    <3>3. QED
      BY <2>2, <3>1, <3>2 DEF Putting
  <2>3. QED
    BY <2>1, <2>2
<1>2. QED
  BY <1>1

LEMMA PairOther ==
    ASSUME NEW n \in Nat, NEW K, NEW X, NEW K2, NEW X2, NEW q \in 1..n,
           \A p \in 1..n : K2[p] = K[p] /\ (p # q => X2[p] = X[p]),
           \A p \in 1..n : K[p] = K[q] => p = q
    PROVE  Pairs(K2, X2, n) = Putting(Pairs(K, X, n), K[q], X2[q])
<1>1. ASSUME NEW pair
      PROVE  pair \in Pairs(K2, X2, n) <=> pair \in Putting(Pairs(K, X, n), K[q], X2[q])
  <2>1. ASSUME pair \in Pairs(K2, X2, n)
        PROVE  pair \in Putting(Pairs(K, X, n), K[q], X2[q])
    <3>1. PICK p \in 1..n : pair = <<K2[p], X2[p]>>
      BY <2>1 DEF Pairs
    <3>2. CASE p = q
      BY <3>1, <3>2 DEF Putting
    <3>3. CASE p # q
      <4>1. pair = <<K[p], X[p]>> /\ pair[1] = K[p] /\ K[p] # K[q]
        BY <3>1, <3>3
      <4>2. pair \in Pairs(K, X, n)
        BY <4>1 DEF Pairs
      <4>3. QED
        BY <4>1, <4>2 DEF Putting
    <3>4. QED
      BY <3>2, <3>3
  <2>2. ASSUME pair \in Putting(Pairs(K, X, n), K[q], X2[q])
        PROVE  pair \in Pairs(K2, X2, n)
    <3>1. CASE pair = <<K[q], X2[q]>>
      <4>1. pair = <<K2[q], X2[q]>>
        BY <3>1
      <4>2. QED
        BY <4>1 DEF Pairs
    <3>2. CASE pair \in Pairs(K, X, n) /\ pair[1] # K[q]
      <4>1. PICK p \in 1..n : pair = <<K[p], X[p]>>
        BY <3>2 DEF Pairs
      <4>2. pair = <<K2[p], X2[p]>>
        BY <3>2, <4>1
      <4>3. QED
        BY <4>2 DEF Pairs
    <3>3. QED
      BY <2>2, <3>1, <3>2 DEF Putting
  <2>3. QED
    BY <2>1, <2>2
<1>2. QED
  BY <1>1

-----------------------------------------------------------------------------
(* What an array or a struct says once it holds one more.                  *)

(* Only what m holds differs, and all that it holds is in D.               *)
Filling(heap, heap2, D, m) ==
    /\ SameIn(heap, heap2, D)
    /\ m \in DOMAIN heap /\ m \in DOMAIN heap2
    /\ heap[m].items \in Seq(D) /\ heap2[m].items \in Seq(D)
    /\ heap2[m].kind = heap[m].kind

LEMMA FillingSays ==
    ASSUME NEW heap, NEW heap2, NEW D, NEW m, Filling(heap, heap2, D, m),
           NEW d \in Nat
    PROVE  /\ heap[m].kind = "array" =>
                  /\ Says(heap, m, d + 1) = <<"array", ItemsSaid(heap, m, d)>>
                  /\ Says(heap2, m, d + 1) = <<"array", ItemsSaid(heap2, m, d)>>
           /\ heap[m].kind = "struct" =>
                  /\ Says(heap, m, d + 1) = <<"struct", MembersSaid(heap, m, d)>>
                  /\ Says(heap2, m, d + 1) = <<"struct", MembersSaid(heap2, m, d)>>
<1>1. /\ D \subseteq DOMAIN heap /\ D \subseteq DOMAIN heap2
      /\ m \in DOMAIN heap /\ m \in DOMAIN heap2
      /\ heap[m].items \in Seq(D) /\ heap2[m].items \in Seq(D)
      /\ heap2[m].kind = heap[m].kind
  BY DEF Filling, SameIn
<1>2. heap[m].items \in Seq(DOMAIN heap) /\ heap2[m].items \in Seq(DOMAIN heap2)
  BY <1>1
<1>3. QED
  BY <1>1, <1>2, SaysNext

LEMMA ArrayMore ==
    ASSUME NEW heap, NEW heap2, NEW D, NEW m, Filling(heap, heap2, D, m),
           NEW w \in D, heap2[m].items = Append(heap[m].items, w),
           heap[m].kind = "array", NEW d \in Nat, NEW fn, fn # "struct",
           NEW children, NEW n \in Nat, NEW below,
           Says(heap, m, d + 1) = PartOf(fn, children, n, below),
           Says(heap, w, d) = below[Inner(fn, children[n + 1])]
    PROVE  Says(heap2, m, d + 1) = PartOf(fn, children, n + 1, below)
<1> DEFINE items == heap[m].items
           items2 == heap2[m].items
           k == Len(items)
           old == ItemsSaid(heap, m, d)
           new == ItemsSaid(heap2, m, d)
<1>1. /\ Says(heap, m, d + 1) = <<"array", old>>
      /\ Says(heap2, m, d + 1) = <<"array", new>>
  BY ONLY Filling(heap, heap2, D, m), heap[m].kind = "array", d \in Nat, FillingSays
<1>2. PartOf(fn, children, n, below) = <<"array", ItemsMeant(fn, children, n, below)>>
  BY DEF PartOf
<1>3. old = ItemsMeant(fn, children, n, below)
  BY <1>1, <1>2
<1>4. items \in Seq(D) /\ SameIn(heap, heap2, D) /\ items2 = Append(items, w)
  BY DEF Filling
<1>5. /\ k \in Nat /\ DOMAIN items = 1..k /\ DOMAIN items2 = 1..(k + 1)
      /\ \A i \in 1..k : items2[i] = items[i] /\ items[i] \in D
      /\ items2[k + 1] = w
  <2> HIDE DEF items, items2
  <2>1. QED
    BY <1>4
<1>6. k = n
  <2>1. DOMAIN old = 1..k
    BY <1>5 DEF ItemsSaid
  <2>2. DOMAIN old = 1..n
    BY <1>3 DEF ItemsMeant
  <2> HIDE DEF old
  <2>3. QED
    BY ONLY <1>5, <2>1, <2>2, SameLength, n \in Nat
<1>7. \A v \in D : Says(heap2, v, d) = Says(heap, v, d)
  BY ONLY <1>4, SaysSame, d \in Nat
<1>8. ASSUME NEW i \in 1..(n + 1)
      PROVE  Says(heap2, items2[i], d) = below[Inner(fn, children[i])]
  <2>1. CASE i = n + 1
    <3>1. items2[i] = w
      BY <1>5, <1>6, <2>1
    <3>2. QED
      BY <1>7, <2>1, <3>1
  <2>2. CASE i \in 1..n
    <3>1. items2[i] = items[i] /\ items[i] \in D /\ i \in DOMAIN items
      BY <1>5, <1>6, <2>2
    <3>2. old[i] = Says(heap, items[i], d)
      BY <3>1 DEF ItemsSaid
    <3>3. old[i] = below[Inner(fn, children[i])]
      BY <1>3, <2>2 DEF ItemsMeant
    <3> HIDE DEF old, items, items2
    <3>4. QED
      BY ONLY <1>7, <3>1, <3>2, <3>3
  <2>3. i = n + 1 \/ i \in 1..n
    OBVIOUS
  <2>4. QED
    BY ONLY <2>1, <2>2, <2>3
<1>9. new = ItemsMeant(fn, children, n + 1, below)
  <2>1. new = [i \in 1..(n + 1) |-> Says(heap2, items2[i], d)]
    BY <1>5, <1>6 DEF ItemsSaid
  <2> HIDE DEF new, items2
  <2>2. QED
    BY <1>8, <2>1, Zenon DEF ItemsMeant
<1>10. PartOf(fn, children, n + 1, below) = <<"array", ItemsMeant(fn, children, n + 1, below)>>
  BY DEF PartOf
<1>11. QED
  BY ONLY <1>1, <1>9, <1>10

(* A struct that says what the first n members mean, and the next member.  *)
Joins(heap, m, k, w, d, members, n, below) ==
    /\ heap[m].kind = "struct" /\ KeysDiffer(heap, m)
    /\ Says(heap, m, d + 1) = PartOf("struct", members, n, below)
    /\ heap[k].text = KeyOf(members[n + 1])
    /\ Says(heap, w, d) = below[Inner("struct", members[n + 1])]

LEMMA StructPart ==
    ASSUME NEW members, NEW n \in Nat, NEW below
    PROVE  PartOf("struct", members, n + 1, below) =
               <<"struct", Putting(MembersMeant(members, n, below), KeyOf(members[n + 1]),
                                   below[Inner("struct", members[n + 1])])>>
  BY MemberMore DEF PartOf

LEMMA PairedItems ==
    ASSUME NEW D, NEW items \in Seq(D), NEW h \in Nat, Len(items) = 2 * h
    PROVE  /\ Len(items) \div 2 = h
           /\ DOMAIN items = 1..(2 * h)
           /\ \A p \in 1..h : /\ 2 * p - 1 \in 1..(2 * h) /\ 2 * p \in 1..(2 * h)
                              /\ items[2 * p - 1] \in D /\ items[2 * p] \in D
<1>1. DOMAIN items = 1..(2 * h) /\ \A i \in 1..(2 * h) : items[i] \in D
  OBVIOUS
<1>2. \A p \in 1..h : 2 * p - 1 \in 1..(2 * h) /\ 2 * p \in 1..(2 * h)
  OBVIOUS
<1>3. (2 * h) \div 2 = h
  OBVIOUS
<1>4. QED
  BY <1>1, <1>2, <1>3

LEMMA TwoLonger ==
    ASSUME NEW D, NEW s \in Seq(D), NEW k \in D, NEW w \in D, NEW l \in Nat, Len(s) = l
    PROVE  /\ Len(s \o <<k, w>>) = l + 2
           /\ \A i \in 1..l : (s \o <<k, w>>)[i] = s[i]
           /\ (s \o <<k, w>>)[l + 1] = k /\ (s \o <<k, w>>)[l + 2] = w
<1>1. PICK t : t = <<k, w>>
  OBVIOUS
<1>2. t \in Seq(D) /\ Len(t) = 2 /\ t[1] = k /\ t[2] = w
  BY ONLY <1>1, k \in D, w \in D
<1>3. PICK u : u = s \o t
  OBVIOUS
<1>4. /\ Len(u) = Len(s) + Len(t)
      /\ \A i \in 1..(Len(s) + Len(t)) :
             u[i] = IF i <= Len(s) THEN s[i] ELSE t[i - Len(s)]
  BY ONLY <1>2, <1>3, s \in Seq(D), ConcatProperties
<1>5. /\ Len(u) = l + 2
      /\ \A i \in 1..(l + 2) : u[i] = IF i <= l THEN s[i] ELSE t[i - l]
  BY ONLY <1>2, <1>4, Len(s) = l
<1>6. /\ l + 1 \in 1..(l + 2) /\ l + 2 \in 1..(l + 2)
      /\ ~(l + 1 <= l) /\ ~(l + 2 <= l) /\ (l + 1) - l = 1 /\ (l + 2) - l = 2
      /\ \A i \in 1..l : i \in 1..(l + 2) /\ i <= l
  OBVIOUS
<1>7. u[l + 1] = k /\ u[l + 2] = w
  BY ONLY <1>2, <1>5, <1>6
<1>8. \A i \in 1..l : u[i] = s[i]
  BY ONLY <1>5, <1>6
<1>9. QED
  BY <1>1, <1>3, <1>5, <1>7, <1>8

LEMMA StructMore ==
    ASSUME NEW heap, NEW heap2, NEW D, NEW m, Filling(heap, heap2, D, m),
           NEW k \in D, NEW w \in D, heap2[m].items = heap[m].items \o <<k, w>>,
           NEW h \in Nat, Len(heap[m].items) = 2 * h,
           NEW d \in Nat, NEW members, NEW n \in Nat, NEW below,
           Joins(heap, m, k, w, d, members, n, below),
           \A p \in 1..h : KeysIn(heap, m)[p] # heap[k].text
    PROVE  /\ Says(heap2, m, d + 1) = PartOf("struct", members, n + 1, below)
           /\ KeysDiffer(heap2, m)
<1> DEFINE items == heap[m].items
           items2 == heap2[m].items
           K == KeysIn(heap, m)
           K2 == KeysIn(heap2, m)
           X == SaidIn(heap, m, d)
           X2 == SaidIn(heap2, m, d)
<1>1. /\ items \in Seq(D) /\ items2 \in Seq(D) /\ SameIn(heap, heap2, D)
      /\ items2 = items \o <<k, w>> /\ Len(items) = 2 * h
  BY DEF Filling
<1>2. /\ Len(items2) = 2 * (h + 1) /\ h + 1 \in Nat
      /\ \A i \in 1..(2 * h) : items2[i] = items[i]
      /\ items2[2 * (h + 1) - 1] = k /\ items2[2 * (h + 1)] = w
  <2> HIDE DEF items, items2
  <2>1. k \in D /\ w \in D /\ h \in Nat
    OBVIOUS
  <2>2. 2 * (h + 1) = 2 * h + 2 /\ 2 * (h + 1) - 1 = 2 * h + 1 /\ 2 * h \in Nat
    OBVIOUS
  <2>3. /\ Len(items2) = 2 * h + 2
        /\ \A i \in 1..(2 * h) : items2[i] = items[i]
        /\ items2[2 * h + 1] = k /\ items2[2 * h + 2] = w
    BY ONLY <1>1, <2>1, <2>2, TwoLonger
  <2>4. QED
    BY ONLY <2>1, <2>2, <2>3
<1>3. /\ Len(items) \div 2 = h
      /\ \A p \in 1..h : /\ 2 * p - 1 \in 1..(2 * h) /\ 2 * p \in 1..(2 * h)
                         /\ items[2 * p - 1] \in D /\ items[2 * p] \in D
  <2> HIDE DEF items, items2
  <2>1. QED
    BY ONLY <1>1, PairedItems, h \in Nat
<1>4. Len(items2) \div 2 = h + 1
  <2> HIDE DEF items, items2
  <2>1. QED
    BY ONLY <1>1, <1>2, PairedItems
<1>5. /\ \A v \in D : Says(heap2, v, d) = Says(heap, v, d)
      /\ \A v \in D : heap2[v].text = heap[v].text
  <2>1. \A v \in D : heap2[v].text = heap[v].text
    BY <1>1 DEF SameIn
  <2>2. QED
    BY ONLY <1>1, <2>1, SaysSame, d \in Nat
<1>6. /\ K = [p \in 1..h |-> heap[items[2 * p - 1]].text]
      /\ X = [p \in 1..h |-> Says(heap, items[2 * p], d)]
  BY <1>3 DEF KeysIn, SaidIn
<1>7. /\ K2 = [p \in 1..(h + 1) |-> heap2[items2[2 * p - 1]].text]
      /\ X2 = [p \in 1..(h + 1) |-> Says(heap2, items2[2 * p], d)]
  BY <1>4 DEF KeysIn, SaidIn
<1>8. /\ MembersSaid(heap, m, d) = Pairs(K, X, h)
      /\ MembersSaid(heap2, m, d) = Pairs(K2, X2, h + 1)
  BY <1>3, <1>4, MembersArePairs
<1>9. \A p \in 1..h : K[p] # heap[k].text
  OBVIOUS
<1>10. /\ Says(heap, m, d + 1) = <<"struct", MembersSaid(heap, m, d)>>
       /\ Says(heap2, m, d + 1) = <<"struct", MembersSaid(heap2, m, d)>>
       /\ MembersSaid(heap, m, d) = MembersMeant(members, n, below)
  <2>1. heap[m].kind = "struct" /\ Says(heap, m, d + 1) = PartOf("struct", members, n, below)
    BY ONLY Joins(heap, m, k, w, d, members, n, below) DEF Joins
  <2>2. PartOf("struct", members, n, below) = <<"struct", MembersMeant(members, n, below)>>
    BY DEF PartOf
  <2>3. /\ Says(heap, m, d + 1) = <<"struct", MembersSaid(heap, m, d)>>
        /\ Says(heap2, m, d + 1) = <<"struct", MembersSaid(heap2, m, d)>>
    BY ONLY Filling(heap, heap2, D, m), <2>1, d \in Nat, FillingSays
  <2>4. QED
    BY ONLY <2>1, <2>2, <2>3
<1>11. /\ heap[k].text = KeyOf(members[n + 1])
       /\ Says(heap, w, d) = below[Inner("struct", members[n + 1])]
  BY DEF Joins
<1>12. \A p, q \in 1..h : K[p] = K[q] => p = q
  BY <1>3 DEF Joins, KeysDiffer
<1>13. k \in D /\ w \in D /\ h \in Nat
  OBVIOUS
<1> HIDE DEF items, items2, K, K2, X, X2
<1>14. \A p \in 1..h : K2[p] = K[p] /\ X2[p] = X[p]
  BY ONLY <1>2, <1>3, <1>5, <1>6, <1>7, <1>13
<1>15. K2[h + 1] = heap[k].text /\ X2[h + 1] = Says(heap, w, d)
  <2>1. h + 1 \in 1..(h + 1)
    BY <1>13
  <2>2. QED
    BY ONLY <1>2, <1>5, <1>7, <1>13, <2>1
<1>16. Pairs(K2, X2, h + 1) = Putting(Pairs(K, X, h), K2[h + 1], X2[h + 1])
  <2>1. \A p \in 1..h : K[p] # K2[h + 1]
    BY <1>9, <1>15
  <2>2. QED
    BY ONLY <1>13, <1>14, <2>1, PairMore
<1>17. KeysDiffer(heap2, m)
  <2>1. ASSUME NEW p \in 1..(h + 1), NEW q \in 1..(h + 1), K2[p] = K2[q]
        PROVE  p = q
    <3>1. CASE p \in 1..h /\ q \in 1..h
      BY <1>12, <1>14, <2>1, <3>1
    <3>2. CASE p = h + 1 /\ q \in 1..h
      BY <1>9, <1>14, <1>15, <2>1, <3>2
    <3>3. CASE p \in 1..h /\ q = h + 1
      BY <1>9, <1>14, <1>15, <2>1, <3>3
    <3>4. QED
      BY <1>13, <3>1, <3>2, <3>3
  <2>2. QED
    BY <1>4, <2>1 DEF KeysDiffer, K2, items2
<1>18. Says(heap2, m, d + 1) = <<"struct", Putting(MembersMeant(members, n, below),
           KeyOf(members[n + 1]), below[Inner("struct", members[n + 1])])>>
  BY ONLY <1>8, <1>10, <1>11, <1>15, <1>16
<1>19. QED
  BY <1>17, <1>18, StructPart

LEMMA StructOther ==
    ASSUME NEW heap, NEW heap2, NEW D, NEW m, Filling(heap, heap2, D, m),
           NEW k, NEW w \in D, NEW h \in Nat, Len(heap[m].items) = 2 * h,
           NEW q \in 1..h, heap2[m].items = [heap[m].items EXCEPT ![2 * q] = w],
           NEW d \in Nat, NEW members, NEW n \in Nat, NEW below,
           Joins(heap, m, k, w, d, members, n, below),
           KeysIn(heap, m)[q] = heap[k].text
    PROVE  /\ Says(heap2, m, d + 1) = PartOf("struct", members, n + 1, below)
           /\ KeysDiffer(heap2, m)
<1> DEFINE items == heap[m].items
           items2 == heap2[m].items
           K == KeysIn(heap, m)
           K2 == KeysIn(heap2, m)
           X == SaidIn(heap, m, d)
           X2 == SaidIn(heap2, m, d)
<1>1. /\ items \in Seq(D) /\ items2 \in Seq(D) /\ SameIn(heap, heap2, D)
      /\ items2 = [items EXCEPT ![2 * q] = w] /\ Len(items) = 2 * h
  BY DEF Filling
<1>2. w \in D /\ h \in Nat /\ q \in 1..h /\ 2 * q \in 1..(2 * h)
  OBVIOUS
<1>3. /\ Len(items2) = 2 * h
      /\ \A i \in 1..(2 * h) : i # 2 * q => items2[i] = items[i]
      /\ items2[2 * q] = w
  <2> HIDE DEF items, items2
  <2>1. QED
    BY ONLY <1>1, <1>2
<1>4. /\ Len(items) \div 2 = h
      /\ \A p \in 1..h : /\ 2 * p - 1 \in 1..(2 * h) /\ 2 * p \in 1..(2 * h)
                         /\ items[2 * p - 1] \in D /\ items[2 * p] \in D
  <2> HIDE DEF items, items2
  <2>1. QED
    BY ONLY <1>1, <1>2, PairedItems
<1>5. Len(items2) \div 2 = h
  <2> HIDE DEF items, items2
  <2>1. QED
    BY ONLY <1>1, <1>2, <1>3, PairedItems
<1>6. /\ \A v \in D : Says(heap2, v, d) = Says(heap, v, d)
      /\ \A v \in D : heap2[v].text = heap[v].text
  <2>1. \A v \in D : heap2[v].text = heap[v].text
    BY <1>1 DEF SameIn
  <2>2. QED
    BY ONLY <1>1, <2>1, SaysSame, d \in Nat
<1>7. /\ K = [p \in 1..h |-> heap[items[2 * p - 1]].text]
      /\ X = [p \in 1..h |-> Says(heap, items[2 * p], d)]
  BY <1>4 DEF KeysIn, SaidIn
<1>8. /\ K2 = [p \in 1..h |-> heap2[items2[2 * p - 1]].text]
      /\ X2 = [p \in 1..h |-> Says(heap2, items2[2 * p], d)]
  BY <1>5 DEF KeysIn, SaidIn
<1>9. /\ MembersSaid(heap, m, d) = Pairs(K, X, h)
      /\ MembersSaid(heap2, m, d) = Pairs(K2, X2, h)
  BY <1>4, <1>5, MembersArePairs
<1>10. K[q] = heap[k].text
  OBVIOUS
<1>11. /\ Says(heap, m, d + 1) = <<"struct", MembersSaid(heap, m, d)>>
       /\ Says(heap2, m, d + 1) = <<"struct", MembersSaid(heap2, m, d)>>
       /\ MembersSaid(heap, m, d) = MembersMeant(members, n, below)
  <2>1. heap[m].kind = "struct" /\ Says(heap, m, d + 1) = PartOf("struct", members, n, below)
    BY ONLY Joins(heap, m, k, w, d, members, n, below) DEF Joins
  <2>2. PartOf("struct", members, n, below) = <<"struct", MembersMeant(members, n, below)>>
    BY DEF PartOf
  <2>3. /\ Says(heap, m, d + 1) = <<"struct", MembersSaid(heap, m, d)>>
        /\ Says(heap2, m, d + 1) = <<"struct", MembersSaid(heap2, m, d)>>
    BY ONLY Filling(heap, heap2, D, m), <2>1, d \in Nat, FillingSays
  <2>4. QED
    BY ONLY <2>1, <2>2, <2>3
<1>12. /\ heap[k].text = KeyOf(members[n + 1])
       /\ Says(heap, w, d) = below[Inner("struct", members[n + 1])]
  BY DEF Joins
<1>13. \A p, r \in 1..h : K[p] = K[r] => p = r
  BY <1>4 DEF Joins, KeysDiffer
<1> HIDE DEF items, items2, K, K2, X, X2
<1>14. ASSUME NEW p \in 1..h PROVE K2[p] = K[p] /\ (p # q => X2[p] = X[p])
  <2>1. /\ 2 * p - 1 \in 1..(2 * h) /\ 2 * p \in 1..(2 * h)
        /\ items[2 * p - 1] \in D /\ items[2 * p] \in D
    BY <1>4
  <2>2. 2 * p - 1 # 2 * q /\ (p # q => 2 * p # 2 * q)
    BY <1>2
  <2>3. items2[2 * p - 1] = items[2 * p - 1] /\ (p # q => items2[2 * p] = items[2 * p])
    BY <1>3, <2>1, <2>2
  <2>4. /\ K[p] = heap[items[2 * p - 1]].text /\ X[p] = Says(heap, items[2 * p], d)
        /\ K2[p] = heap2[items2[2 * p - 1]].text /\ X2[p] = Says(heap2, items2[2 * p], d)
    BY ONLY <1>7, <1>8, p \in 1..h
  <2>5. QED
    BY ONLY <1>6, <2>1, <2>3, <2>4
<1>15. X2[q] = Says(heap, w, d)
  BY ONLY <1>2, <1>3, <1>6, <1>8
<1>16. Pairs(K2, X2, h) = Putting(Pairs(K, X, h), K[q], X2[q])
  <2>1. \A p \in 1..h : K2[p] = K[p] /\ (p # q => X2[p] = X[p])
    BY <1>14
  <2>2. \A p \in 1..h : K[p] = K[q] => p = q
    BY <1>13
  <2>3. QED
    BY ONLY <1>2, <2>1, <2>2, PairOther
<1>17. KeysDiffer(heap2, m)
  <2>1. \A p, r \in 1..h : K2[p] = K2[r] => p = r
    BY ONLY <1>13, <1>14
  <2>2. QED
    BY <1>5, <2>1 DEF KeysDiffer, K2, items2
<1>18. Says(heap2, m, d + 1) = <<"struct", Putting(MembersMeant(members, n, below),
           KeyOf(members[n + 1]), below[Inner("struct", members[n + 1])])>>
  BY ONLY <1>9, <1>10, <1>11, <1>12, <1>15, <1>16
<1>19. QED
  BY <1>17, <1>18, StructPart

-----------------------------------------------------------------------------
(* The tree has what the document has.                                     *)

LEMMA BuiltIs ==
    ASSUME IsTree(nodes), NEW of, Built(of), NEW e \in DOMAIN nodes
    PROVE  /\ of[e] \in Elements
           /\ nodes[e].name = of[e].name /\ nodes[e].text = of[e].text
           /\ ChildCount(e) \in Nat /\ Len(of[e].children) = ChildCount(e)
           /\ DOMAIN of[e].children = 1..ChildCount(e)
           /\ \A i \in 1..ChildCount(e) :
                  Children(e)[i] \in DOMAIN nodes /\ of[Children(e)[i]] = of[e].children[i]
           /\ TextOK(e) <=> Good(of[e])
           /\ ChildCount(e) = 0 <=> IsLeaf(of[e])
<1>1. of[e] \in Elements /\ Copies(nodes, of, e, Unread(<<>>, <<>>))
  BY DEF Built
<1>2. /\ ChildCount(e) \in Nat /\ nodes[e].text \in Seq(STRING)
      /\ Children(e) \in Seq(Nat) /\ DOMAIN Children(e) = 1..ChildCount(e)
      /\ ChildCount(e) = Len(Children(e))
  BY DEF IsTree, XmlElement, Children, ChildCount
<1>3. nodes[e].text \o <<>> = nodes[e].text
  BY <1>2
<1>4. /\ nodes[e].name = of[e].name /\ nodes[e].text = of[e].text
      /\ Len(of[e].children) = Len(Children(e)) + Len(<<>>)
      /\ \A i \in DOMAIN Children(e) : of[Children(e)[i]] = of[e].children[i]
  BY <1>1, <1>3 DEF Copies, Unread, Children
<1>5. Len(of[e].children) = ChildCount(e)
  <2>1. Len(<<>>) = 0
    OBVIOUS
  <2>2. QED
    BY <1>2, <1>4, <2>1
<1>6. DOMAIN of[e].children = 1..ChildCount(e) /\ (ChildCount(e) = 0 <=> IsLeaf(of[e]))
  BY ONLY <1>1, <1>5, ElementIs
<1>7. ASSUME NEW i \in 1..ChildCount(e)
      PROVE  Children(e)[i] \in DOMAIN nodes /\ of[Children(e)[i]] = of[e].children[i]
  BY <1>2, <1>4, ChildIn
<1>8. TextOK(e) <=> Good(of[e])
  BY <1>4 DEF TextOK, Good
<1>9. QED
  BY <1>1, <1>2, <1>4, <1>5, <1>6, <1>7, <1>8

LEMMA NamedIs ==
    ASSUME IsTree(nodes), NEW of, Built(of), NEW e \in DOMAIN nodes, NEW name
    PROVE  \A i : i \in Named(e, name) <=>
                      i \in DOMAIN of[e].children /\ of[e].children[i].name = name
<1>1. /\ DOMAIN of[e].children = 1..ChildCount(e)
      /\ \A i \in 1..ChildCount(e) :
             Children(e)[i] \in DOMAIN nodes /\ of[Children(e)[i]] = of[e].children[i]
  BY BuiltIs
<1>2. ASSUME NEW i \in 1..ChildCount(e)
      PROVE  nodes[Children(e)[i]].name = of[e].children[i].name
  <2>1. PICK c : c = Children(e)[i]
    OBVIOUS
  <2>2. c \in DOMAIN nodes /\ of[c] = of[e].children[i]
    BY <1>1, <2>1
  <2>3. nodes[c].name = of[c].name
    BY <2>2, BuiltIs
  <2>4. QED
    BY <2>1, <2>2, <2>3
<1>3. QED
  BY <1>1, <1>2 DEF Named

LEMMA HasOneMeans ==
    ASSUME IsTree(nodes), NEW of, Built(of), NEW e \in DOMAIN nodes, NEW name,
           HasOne(of[e], name)
    PROVE  /\ Named(e, name) # {} /\ ChildByName(e, name) \in DOMAIN nodes
           /\ of[ChildByName(e, name)] = TheChild(of[e], name)
<1>1. PICK c : c = of[e].children
  OBVIOUS
<1>2. PICK i \in DOMAIN c : \A j \in DOMAIN c : c[j].name = name <=> j = i
  BY <1>1 DEF HasOne
<1>3. \A j : j \in Named(e, name) <=> j \in DOMAIN c /\ c[j].name = name
  BY <1>1, NamedIs
<1>4. Named(e, name) = {i}
  BY <1>2, <1>3
<1>5. i \in 1..ChildCount(e) /\ Children(e)[i] \in DOMAIN nodes /\ of[Children(e)[i]] = c[i]
  <2>1. DOMAIN c = 1..ChildCount(e)
    BY <1>1, BuiltIs
  <2>2. QED
    BY <1>1, <1>2, <2>1, BuiltIs
<1>6. ChildByName(e, name) = Children(e)[i]
  <2>1. (CHOOSE k \in Named(e, name) : \A j \in Named(e, name) : k <= j) = i
    BY <1>4, <1>5
  <2>2. QED
    BY <2>1 DEF ChildByName
<1>7. TheChild(of[e], name) = c[i]
  <2>1. (CHOOSE k \in DOMAIN c : c[k].name = name) = i
    BY <1>2
  <2>2. QED
    BY <1>1, <2>1 DEF TheChild
<1>8. QED
  BY <1>4, <1>5, <1>6, <1>7

LEMMA OneOfOne ==
    ASSUME IsTree(nodes), NEW of, Built(of), NEW e \in DOMAIN nodes, NEW name,
           ChildCount(e) = 1, Named(e, name) # {}
    PROVE  HasOne(of[e], name)
<1>1. PICK c : c = of[e].children
  OBVIOUS
<1>2. DOMAIN c = 1..1
  BY <1>1, BuiltIs
<1>3. PICK i : i \in Named(e, name)
  OBVIOUS
<1>4. i \in DOMAIN c /\ c[i].name = name
  BY <1>1, <1>3, NamedIs
<1>5. \A j \in DOMAIN c : j = i
  BY <1>2, <1>4
<1>6. QED
  BY <1>1, <1>4, <1>5 DEF HasOne

LEMMA OneOfTwo ==
    ASSUME IsTree(nodes), NEW of, Built(of), NEW e \in DOMAIN nodes,
           NEW name, NEW other, name # other,
           ChildCount(e) = 2, Named(e, name) # {}, Named(e, other) # {}
    PROVE  HasOne(of[e], name)
<1>1. PICK c : c = of[e].children
  OBVIOUS
<1>2. DOMAIN c = 1..2
  BY <1>1, BuiltIs
<1>3. PICK i, k : i \in Named(e, name) /\ k \in Named(e, other)
  OBVIOUS
<1>4. i \in DOMAIN c /\ c[i].name = name /\ k \in DOMAIN c /\ c[k].name = other
  BY <1>1, <1>3, NamedIs
<1>5. \A j \in DOMAIN c : c[j].name = name <=> j = i
  BY <1>2, <1>4
<1>6. QED
  BY <1>1, <1>4, <1>5 DEF HasOne

LEMMA ParamIs ==
    ASSUME IsTree(nodes), NEW of, Built(of), NEW e \in DOMAIN nodes
    PROVE  IsParam(e) <=> ChildFits("params", of[e])
<1>1. nodes[e].name = of[e].name /\ Len(of[e].children) = ChildCount(e)
  BY BuiltIs
<1>2. QED
  BY <1>1 DEF IsParam, ChildFits

LEMMA MemberIs ==
    ASSUME IsTree(nodes), NEW of, Built(of), NEW e \in DOMAIN nodes
    PROVE  /\ KeyFits(of[e]) => IsMember(e)
           /\ ChildFits("struct", of[e]) => IsMember(e) /\ Named(e, "value") # {}
           /\ IsMember(e) /\ Named(e, "value") # {} =>
                  /\ ChildFits("struct", of[e])
                  /\ nodes[ChildByName(e, "name")].text = KeyOf(of[e])
                  /\ ChildByName(e, "value") \in DOMAIN nodes
                  /\ of[ChildByName(e, "value")] = Inner("struct", of[e])
<1>1. nodes[e].name = of[e].name /\ Len(of[e].children) = ChildCount(e)
  BY BuiltIs
<1>2. ASSUME HasOne(of[e], "name")
      PROVE  /\ Named(e, "name") # {} /\ ChildByName(e, "name") \in DOMAIN nodes
             /\ nodes[ChildByName(e, "name")].text = KeyOf(of[e])
             /\ ChildCount(ChildByName(e, "name")) = 0 <=> IsLeaf(TheChild(of[e], "name"))
             /\ TextOK(ChildByName(e, "name")) <=> Good(TheChild(of[e], "name"))
  <2>1. PICK n : n = ChildByName(e, "name")
    OBVIOUS
  <2>2. Named(e, "name") # {} /\ n \in DOMAIN nodes /\ of[n] = TheChild(of[e], "name")
    BY <1>2, <2>1, HasOneMeans
  <2>3. /\ nodes[n].text = of[n].text /\ (TextOK(n) <=> Good(of[n]))
        /\ (ChildCount(n) = 0 <=> IsLeaf(of[n]))
    BY <2>2, BuiltIs
  <2>4. QED
    BY <2>1, <2>2, <2>3 DEF KeyOf
<1>3. ASSUME KeyFits(of[e]) PROVE IsMember(e)
  <2>1. /\ HasOne(of[e], "name") /\ of[e].name = "member" /\ Len(of[e].children) = 2
        /\ IsLeaf(TheChild(of[e], "name")) /\ Good(TheChild(of[e], "name"))
    BY <1>3 DEF KeyFits
  <2>2. QED
    BY <1>1, <1>2, <2>1 DEF IsMember
<1>4. ASSUME ChildFits("struct", of[e]) PROVE IsMember(e) /\ Named(e, "value") # {}
  <2>1. KeyFits(of[e]) /\ HasOne(of[e], "value")
    BY <1>4 DEF ChildFits
  <2>2. QED
    BY <1>3, <2>1, HasOneMeans
<1>5. ASSUME IsMember(e), Named(e, "value") # {}
      PROVE  /\ ChildFits("struct", of[e])
             /\ nodes[ChildByName(e, "name")].text = KeyOf(of[e])
             /\ ChildByName(e, "value") \in DOMAIN nodes
             /\ of[ChildByName(e, "value")] = Inner("struct", of[e])
  <2>1. /\ nodes[e].name = "member" /\ ChildCount(e) = 2 /\ Named(e, "name") # {}
        /\ ChildCount(ChildByName(e, "name")) = 0 /\ TextOK(ChildByName(e, "name"))
    BY <1>5 DEF IsMember
  <2>2. HasOne(of[e], "name") /\ HasOne(of[e], "value")
    <3>1. "name" # "value"
      OBVIOUS
    <3>2. QED
      BY <1>5, <2>1, <3>1, OneOfTwo
  <2>3. KeyFits(of[e])
    BY <1>1, <1>2, <2>1, <2>2 DEF KeyFits
  <2>4. ChildFits("struct", of[e])
    BY <2>2, <2>3 DEF ChildFits
  <2>5. /\ ChildByName(e, "value") \in DOMAIN nodes
        /\ of[ChildByName(e, "value")] = TheChild(of[e], "value")
    BY <2>2, HasOneMeans
  <2>6. Inner("struct", of[e]) = TheChild(of[e], "value")
    BY DEF Inner
  <2>7. QED
    BY <1>2, <2>2, <2>4, <2>5, <2>6
<1>6. QED
  BY <1>3, <1>4, <1>5

-----------------------------------------------------------------------------
(* What convert_value takes has a meaning, as far as it has looked.        *)

LEMMA NothingTaken ==
    ASSUME IsTree(nodes), NEW of, Built(of), NEW e \in DOMAIN nodes, NEW d \in Nat,
           ~Takes(e, d)
    PROVE  Meaning[d][of[e]] = NoMeaning
<1>1. /\ of[e] \in Elements /\ nodes[e].name = of[e].name
      /\ Len(of[e].children) = ChildCount(e) /\ ChildCount(e) \in Nat
      /\ TextOK(e) <=> Good(of[e])
      /\ ChildCount(e) = 0 <=> IsLeaf(of[e])
  BY BuiltIs
<1>2. CASE d = 0
  BY <1>1, <1>2, MeaningAt
<1>3. CASE d # 0
  <2>1. PICK below : below = Meaning[d - 1]
    OBVIOUS
  <2>2. Meaning[d][of[e]] = MeaningOf(of[e], below)
    <3>1. d - 1 \in Nat /\ (d - 1) + 1 = d
      BY <1>3
    <3>2. QED
      BY ONLY <1>1, <2>1, <3>1, MeaningAt
  <2>3. d >= 1
    BY <1>3
  <2>4. CASE nodes[e].name # "value"
    BY <1>1, <2>2, <2>4 DEF MeaningOf
  <2>5. CASE nodes[e].name = "value" /\ ChildCount(e) = 0
    <3>1. ~TextOK(e)
      BY <2>3, <2>5 DEF Takes
    <3>2. QED
      BY <1>1, <2>2, <2>5, <3>1 DEF MeaningOf
  <2>6. CASE nodes[e].name = "value" /\ ChildCount(e) > 1
    BY <1>1, <2>2, <2>6 DEF MeaningOf
  <2>7. CASE nodes[e].name = "value" /\ ChildCount(e) = 1
    <3>1. PICK c : c = Children(e)[1]
      OBVIOUS
    <3>2. PICK inner : inner = of[e].children[1]
      OBVIOUS
    <3>3. c \in DOMAIN nodes /\ of[c] = inner
      BY <2>7, <3>1, <3>2, BuiltIs
    <3>4. /\ nodes[c].name = inner.name /\ Len(inner.children) = ChildCount(c)
          /\ TextOK(c) <=> Good(inner)
          /\ ChildCount(c) = 0 <=> IsLeaf(inner)
      BY <3>3, BuiltIs
    <3>5. ~TakesChild(c)
      BY <2>3, <2>7, <3>1 DEF Takes
    <3>6. inner.name # "struct" /\ (inner.name = "array" => Len(inner.children) # 1)
          /\ ~GoodScalar(inner)
      BY <3>4, <3>5 DEF TakesChild, GoodScalar
    <3>7. CASE inner.name = "array"
      BY <1>1, <2>2, <2>7, <3>2, <3>6, <3>7, ArrayMeans
    <3>8. CASE inner.name # "array"
      BY <1>1, <2>2, <2>7, <3>2, <3>6, <3>8, ScalarMeans
    <3>9. QED
      BY <3>7, <3>8
  <2>8. QED
    BY <1>1, <2>4, <2>5, <2>6, <2>7
<1>4. QED
  BY <1>2, <1>3

LEMMA TakenMeans ==
    ASSUME IsTree(nodes), NEW of, Built(of), NEW e \in DOMAIN nodes, NEW d \in Nat,
           Takes(e, d),
           NEW child, child = IF ChildCount(e) = 0 THEN e ELSE Children(e)[1],
           NEW name, name = IF ChildCount(e) = 0 THEN "string" ELSE nodes[child].name,
           NEW text, text = IF name = "nil" THEN <<>> ELSE nodes[child].text
    PROVE  /\ d - 1 \in Nat
           /\ name = "array" =>
                  Meaning[d][of[e]] = WholeOf("array", of[Children(child)[1]], Meaning[d - 1])
           /\ name = "struct" =>
                  Meaning[d][of[e]] = WholeOf("struct", of[child], Meaning[d - 1])
           /\ name \notin {"array", "struct"} =>
                  /\ Meaning[d][of[e]] = <<Type(name), text>>
                  /\ Type(name) \notin {"none", "array", "struct"}
<1>1. /\ of[e] \in Elements /\ nodes[e].name = of[e].name /\ nodes[e].text = of[e].text
      /\ Len(of[e].children) = ChildCount(e) /\ ChildCount(e) \in Nat
      /\ TextOK(e) <=> Good(of[e])
      /\ ChildCount(e) = 0 <=> IsLeaf(of[e])
  BY BuiltIs
<1>2. /\ d >= 1 /\ nodes[e].name = "value"
      /\ \/ ChildCount(e) = 0 /\ TextOK(e)
         \/ ChildCount(e) = 1 /\ TakesChild(Children(e)[1])
  BY DEF Takes
<1>3. d - 1 \in Nat /\ (d - 1) + 1 = d
  BY <1>2
<1>4. PICK below : below = Meaning[d - 1]
  OBVIOUS
<1>5. Meaning[d][of[e]] = MeaningOf(of[e], below)
  BY ONLY <1>1, <1>3, <1>4, MeaningAt
<1>6. CASE ChildCount(e) = 0
  <2>1. name = "string" /\ text = of[e].text /\ Type(name) = "string"
    BY <1>1, <1>6 DEF Type
  <2>2. MeaningOf(of[e], below) = <<"string", of[e].text>>
    BY <1>1, <1>2, <1>6 DEF MeaningOf
  <2>3. QED
    BY <1>3, <1>5, <2>1, <2>2
<1>7. CASE ChildCount(e) = 1
  <2>1. PICK inner : inner = of[e].children[1]
    OBVIOUS
  <2>2. child \in DOMAIN nodes /\ of[child] = inner /\ TakesChild(child)
    BY <1>2, <1>7, <2>1, BuiltIs
  <2>3. /\ nodes[child].name = inner.name /\ nodes[child].text = inner.text
        /\ Len(inner.children) = ChildCount(child)
        /\ TextOK(child) <=> Good(inner)
        /\ ChildCount(child) = 0 <=> IsLeaf(inner)
    BY <2>2, BuiltIs
  <2>4. name = inner.name
    BY <1>7, <2>3
  <2>5. CASE name = "array"
    <3>1. ChildCount(child) = 1
      BY <2>2, <2>3, <2>4, <2>5 DEF TakesChild, Checked, Unchecked
    <3>2. of[Children(child)[1]] = inner.children[1]
      BY <2>2, <3>1, BuiltIs
    <3>3. MeaningOf(of[e], below) = WholeOf("array", inner.children[1], below)
      BY <1>1, <1>2, <1>7, <2>1, <2>3, <2>4, <2>5, <3>1, ArrayMeans
    <3>4. QED
      BY <1>3, <1>4, <1>5, <2>5, <3>2, <3>3
  <2>6. CASE name = "struct"
    <3>1. MeaningOf(of[e], below) = WholeOf("struct", inner, below)
      BY <1>1, <1>2, <1>7, <2>1, <2>4, <2>6, StructMeans
    <3>2. QED
      BY <1>3, <1>4, <1>5, <2>2, <2>6, <3>1
  <2>7. CASE name \notin {"array", "struct"}
    <3>1. GoodScalar(inner)
      BY <2>2, <2>3, <2>4, <2>7 DEF TakesChild, GoodScalar
    <3>2. MeaningOf(of[e], below) = ScalarOf(inner)
      BY <1>1, <1>2, <1>7, <2>1, <2>4, <2>7, <3>1, ScalarMeans
    <3>3. ScalarOf(inner) = <<Type(name), text>>
      BY <2>3, <2>4 DEF ScalarOf
    <3>4. Type(name) \notin {"none", "array", "struct"}
      BY <2>4, <3>1 DEF GoodScalar, Checked, Unchecked, Type
    <3>5. QED
      BY <1>3, <1>5, <2>7, <3>2, <3>3, <3>4
  <2>8. QED
    BY <2>5, <2>6, <2>7
<1>8. QED
  BY <1>2, <1>6, <1>7

-----------------------------------------------------------------------------
(* What the frames are to make, and have made so far.                      *)

(* The child that a frame is at fits; the element in it to be converted;   *)
(* what the frame's value is to say.                                       *)
Busy(of, f) ==
    /\ f.at \in DOMAIN of[f.elem].children
    /\ ChildFits(f.fn, of[f.elem].children[f.at])
Slot(of, f) == Inner(f.fn, of[f.elem].children[f.at])
Target(of, f) == WholeOf(f.fn, of[f.elem], Meaning[f.max])

(* What is wanted by frame i, or of the conversion as a whole: to say      *)
(* means, nested at most so deep.                                          *)
Wish(means, room) == [means |-> means, room |-> room]
WishAt(of, fs, i, goal) ==
    IF i = 0 THEN goal ELSE Wish(Meaning[fs[i].max][Slot(of, fs[i])], fs[i].max)

KeyMade(heap, f) ==
    f.key # None =>
        LET member == Children(f.elem)[f.at] IN
        IsMember(member) /\ heap[f.key].text = nodes[ChildByName(member, "name")].text

(* A frame has made what the children before the one it is at mean.        *)
Halfway(of, heap, f) ==
    LET children == of[f.elem].children IN
    /\ f.max \in Nat
    /\ f.fn = "params" => f.max = NestingLimit
    /\ f.fn # "array" => of[f.elem].name = Heading(f.fn)
    /\ f.at <= Len(children) + 1
    /\ \A i \in 1..(f.at - 1) : GoodChild(f.fn, children[i], Meaning[f.max])
    /\ Says(heap, f.made, f.max + 1) = PartOf(f.fn, children, f.at - 1, Meaning[f.max])
    /\ f.fn = "struct" => KeysDiffer(heap, f.made)
    /\ KeyMade(heap, f)

(* Each frame makes what the frame that called it wants, the first one the *)
(* goal.                                                                   *)
Serves(of, heap, fs, i, goal) ==
    /\ Halfway(of, heap, fs[i])
    /\ WishAt(of, fs, i - 1, goal) = Wish(Target(of, fs[i]), fs[i].max + 1)
    /\ i < Len(fs) => Busy(of, fs[i])
Calling(of, heap, fs, goal) == \A i \in 1..Len(fs) : Serves(of, heap, fs, i, goal)

(* What is returned is what was wanted.                                    *)
Delivered(of, heap, fs, out, goal) ==
    out # None =>
        LET wish == WishAt(of, fs, Len(fs), goal) IN
        /\ fs # <<>> => Busy(of, fs[Len(fs)])
        /\ wish.means # NoMeaning
        /\ Says(heap, out, wish.room) = wish.means

(* What is wanted cannot be had.                                           *)
Hopeless(of, fs, goal) ==
    (IF fs = <<>> THEN goal.means ELSE Target(of, fs[Len(fs)])) = NoMeaning

Meant(of, heap, fs, out, failed, goal) ==
    /\ Calling(of, heap, fs, goal)
    /\ Delivered(of, heap, fs, out, goal)
    /\ failed => Hopeless(of, fs, goal)

(* The goal is what the document means, as far as that has been looked at. *)
CallWanted(goal) ==
    LET root == document.root IN
    IF goal.means = NoMeaning THEN ~IsCall(root)
    ELSE /\ goal.room = NestingLimit + 1
         /\ IsCall(root) <=> Len(root.children) <= 2
         /\ IsCall(root) => methodName = NameOf(root) /\ goal.means = ArgumentsOf(root)
ResponseWanted(goal) ==
    LET root == document.root
        child == root.children[1]
    IN  IF goal.means = NoMeaning THEN ~IsResult(root) /\ ~IsFault(root)
        ELSE /\ root.name = "methodResponse" /\ Len(root.children) = 1
             /\ \/ /\ child.name = "params" /\ goal.room = NestingLimit + 1
                   /\ IsParams(child) /\ goal.means = ParamsOf(child)
                \/ /\ child.name = "fault" /\ goal.room = NestingLimit
                   /\ Len(child.children) = 1
                   /\ goal.means = MeaningHere(child.children[1])
GoalIs(goal) ==
    /\ goal.room \in Nat
    /\ document.purpose = "call" => CallWanted(goal)
    /\ document.purpose = "response" => ResponseWanted(goal)

(* The method's name is the first that there is.                           *)
HeaderRead ==
    LET name == ChildByName(rootP, "methodName") IN
    document.purpose = "call" /\ methodName # NoName =>
        /\ nodes[rootP].name = "methodCall"
        /\ Named(rootP, "methodName") # {} /\ IsMethodName(name)
        /\ methodName = nodes[name].text

(* What MeansTheDocument says of the end, before all is released.          *)
Answered ==
    LET root == document.root
        call == document.purpose = "call"
    IN  CASE call /\ IsCall(root) ->
               /\ result.kind = "call"
               /\ methodName = NameOf(root)
               /\ Says(values, result.value, NestingLimit + 1) = ArgumentsOf(root)
          [] ~call /\ IsResult(root) ->
               /\ result.kind = "response"
               /\ Says(values, result.value, NestingLimit) = ResultOf(root)
          [] ~call /\ IsFault(root) -> result.kind = "fault"
          [] OTHER -> result = Refused

MeaningInv ==
    ~ranOut =>
        /\ pc = "tree" => HeaderRead
        /\ pc \in {"convert", "ending"} =>
               \E of, goal : /\ Built(of) /\ GoalIs(goal)
                             /\ Meant(of, values, frames, returned, fault, goal)
        /\ pc = "done" /\ AllRead /\ ~Oversized =>
               /\ Answered
               /\ result.kind \in {"call", "response"} => result.value \in DOMAIN values

-----------------------------------------------------------------------------
(* What has been made stays made.                                          *)

LEMMA HalfwaySame ==
    ASSUME NEW of, NEW heap, NEW heap2, NEW D, SameIn(heap, heap2, D), NEW f,
           f.made \in D, f.key = None \/ f.key \in D, Halfway(of, heap, f)
    PROVE  Halfway(of, heap2, f)
<1>1. PICK m : m = f.made
  OBVIOUS
<1>2. /\ m \in D /\ heap[m].items \in Seq(D)
      /\ heap2[m].items = heap[m].items
  BY <1>1 DEF SameIn
<1>3. Says(heap2, f.made, f.max + 1) = Says(heap, f.made, f.max + 1)
  <2>1. f.max + 1 \in Nat
    BY DEF Halfway
  <2>2. QED
    BY ONLY <2>1, SameIn(heap, heap2, D), f.made \in D, SaysSame
<1>4. KeysDiffer(heap, m) => KeysDiffer(heap2, m)
  <2>1. PICK items : items = heap[m].items
    OBVIOUS
  <2>2. items \in Seq(D) /\ heap[m].items = items /\ heap2[m].items = items
    BY <1>2, <2>1
  <2>3. ASSUME NEW p \in 1..(Len(items) \div 2)
        PROVE  heap2[items[2 * p - 1]].text = heap[items[2 * p - 1]].text
    <3>1. 2 * p - 1 \in 1..Len(items)
      BY <2>2
    <3>2. items[2 * p - 1] \in D
      BY <2>2, <3>1
    <3>3. QED
      BY <3>2 DEF SameIn
  <2>4. KeysIn(heap2, m) = KeysIn(heap, m)
    BY ONLY <2>2, <2>3, Zenon DEF KeysIn
  <2>5. QED
    BY ONLY <2>2, <2>4 DEF KeysDiffer
<1>5. KeyMade(heap2, f)
  <2>1. KeyMade(heap, f)
    BY DEF Halfway
  <2>2. f.key # None => heap2[f.key].text = heap[f.key].text
    BY DEF SameIn
  <2>3. QED
    BY ONLY <2>1, <2>2 DEF KeyMade
<1>6. Halfway(of, heap, f)
  OBVIOUS
<1>7. QED
  BY ONLY <1>1, <1>3, <1>4, <1>5, <1>6 DEF Halfway

(* The first n frames are as they were, and so is what they have made.     *)
Kept(heap, heap2, D, fs, gs, n) ==
    /\ SameIn(heap, heap2, D)
    /\ \A i \in 1..n : /\ gs[i] = fs[i] /\ fs[i].made \in D
                       /\ fs[i].key = None \/ fs[i].key \in D

LEMMA WishStays ==
    ASSUME NEW of, NEW fs, NEW gs, NEW i \in Nat, i # 0 => gs[i] = fs[i], NEW goal
    PROVE  WishAt(of, gs, i, goal) = WishAt(of, fs, i, goal)
  BY DEF WishAt

LEMMA ServesStill ==
    ASSUME NEW heap, NEW heap2, NEW D, NEW fs, NEW gs, NEW n \in Nat,
           Kept(heap, heap2, D, fs, gs, n), NEW of, NEW goal,
           NEW i \in 1..n, Serves(of, heap, fs, i, goal),
           i < Len(gs) => Busy(of, gs[i])
    PROVE  Serves(of, heap2, gs, i, goal)
<1>1. /\ SameIn(heap, heap2, D) /\ gs[i] = fs[i] /\ fs[i].made \in D
      /\ fs[i].key = None \/ fs[i].key \in D
  BY DEF Kept
<1>2. /\ Halfway(of, heap, fs[i])
      /\ WishAt(of, fs, i - 1, goal) = Wish(Target(of, fs[i]), fs[i].max + 1)
  BY DEF Serves
<1>3. Halfway(of, heap2, gs[i])
  BY ONLY <1>1, <1>2, HalfwaySame
<1>4. WishAt(of, gs, i - 1, goal) = WishAt(of, fs, i - 1, goal)
  <2>1. i - 1 \in Nat /\ (i - 1 # 0 => i - 1 \in 1..n)
    OBVIOUS
  <2>2. i - 1 # 0 => gs[i - 1] = fs[i - 1]
    BY <2>1 DEF Kept
  <2>3. QED
    BY ONLY <2>1, <2>2, WishStays
<1>5. i < Len(gs) => Busy(of, gs[i])
  OBVIOUS
<1>6. QED
  BY ONLY <1>1, <1>2, <1>3, <1>4, <1>5 DEF Serves

LEMMA CallingSame ==
    ASSUME NEW heap, NEW heap2, NEW D, NEW fs, Len(fs) \in Nat,
           Kept(heap, heap2, D, fs, fs, Len(fs)), NEW of, NEW goal,
           Calling(of, heap, fs, goal)
    PROVE  Calling(of, heap2, fs, goal)
<1>1. ASSUME NEW i \in 1..Len(fs)
      PROVE  Serves(of, heap2, fs, i, goal)
  <2>1. Serves(of, heap, fs, i, goal)
    BY DEF Calling
  <2>2. i < Len(fs) => Busy(of, fs[i])
    BY <2>1 DEF Serves
  <2>3. QED
    BY ONLY <2>1, <2>2, i \in 1..Len(fs), Len(fs) \in Nat,
            Kept(heap, heap2, D, fs, fs, Len(fs)), ServesStill
<1>2. QED
  BY <1>1 DEF Calling

(* Another frame.                                                          *)
LEMMA CallingMore ==
    ASSUME NEW heap, NEW heap2, NEW D, NEW fs \in Seq(AnyFrame), NEW f \in AnyFrame,
           Kept(heap, heap2, D, fs, fs, Len(fs)), NEW of, NEW goal,
           Calling(of, heap, fs, goal),
           fs # <<>> => Busy(of, fs[Len(fs)]),
           Halfway(of, heap2, f),
           WishAt(of, fs, Len(fs), goal) = Wish(Target(of, f), f.max + 1)
    PROVE  Calling(of, heap2, Append(fs, f), goal)
<1>1. PICK gs : gs = Append(fs, f)
  OBVIOUS
<1>2. PICK n : n = Len(fs)
  OBVIOUS
<1>3. /\ n \in Nat /\ Len(gs) = n + 1 /\ gs[n + 1] = f
      /\ \A i \in 1..n : gs[i] = fs[i]
      /\ n # 0 => fs # <<>>
  BY <1>1, <1>2
<1>4. Kept(heap, heap2, D, fs, gs, n)
  BY <1>2, <1>3 DEF Kept
<1>5. ASSUME NEW i \in 1..n
      PROVE  Serves(of, heap2, gs, i, goal)
  <2>1. Serves(of, heap, fs, i, goal)
    BY <1>2 DEF Calling
  <2>2. Busy(of, fs[i])
    <3>1. CASE i = n
      BY <1>2, <1>3, <3>1
    <3>2. CASE i # n
      <4>1. i < n
        BY <1>3, <3>2
      <4>2. QED
        BY <1>2, <2>1, <4>1 DEF Serves
    <3>3. QED
      BY <3>1, <3>2
  <2>3. i < Len(gs) => Busy(of, gs[i])
    BY <1>3, <2>2
  <2>4. QED
    BY ONLY <1>3, <1>4, <2>1, <2>3, i \in 1..n, ServesStill
<1>6. Serves(of, heap2, gs, n + 1, goal)
  <2>1. n # 0 => gs[n] = fs[n]
    BY <1>3
  <2>2. WishAt(of, gs, n, goal) = WishAt(of, fs, n, goal)
    BY ONLY <1>3, <2>1, WishStays
  <2>3. WishAt(of, gs, n + 1 - 1, goal) = Wish(Target(of, gs[n + 1]), gs[n + 1].max + 1)
    <3>1. n + 1 - 1 = n
      BY <1>3
    <3>2. QED
      BY <1>2, <1>3, <2>2, <3>1
  <2>4. ~(n + 1 < Len(gs))
    BY <1>3
  <2>5. QED
    BY <1>3, <2>3, <2>4 DEF Serves
<1>7. ASSUME NEW i \in 1..Len(gs)
      PROVE  Serves(of, heap2, gs, i, goal)
  <2>1. i \in 1..n \/ i = n + 1
    BY <1>3
  <2>2. QED
    BY <1>5, <1>6, <2>1
<1>8. QED
  BY <1>1, <1>7 DEF Calling

(* The last frame goes on.                                                 *)
LEMMA CallingMoves ==
    ASSUME NEW heap, NEW heap2, NEW D, NEW fs, NEW gs, NEW n \in Nat \ {0},
           Len(fs) = n, Len(gs) = n, Kept(heap, heap2, D, fs, gs, n - 1),
           NEW of, NEW goal, Calling(of, heap, fs, goal),
           Halfway(of, heap2, gs[n]),
           gs[n].fn = fs[n].fn, gs[n].elem = fs[n].elem, gs[n].max = fs[n].max
    PROVE  Calling(of, heap2, gs, goal)
<1>1. ASSUME NEW i \in 1..(n - 1)
      PROVE  Serves(of, heap2, gs, i, goal)
  <2>1. i \in 1..n /\ i < n /\ n - 1 \in Nat
    OBVIOUS
  <2>2. Serves(of, heap, fs, i, goal) /\ gs[i] = fs[i]
    BY <2>1 DEF Calling, Kept
  <2>3. i < Len(gs) => Busy(of, gs[i])
    BY <2>1, <2>2 DEF Serves
  <2>4. QED
    BY ONLY <2>1, <2>2, <2>3, i \in 1..(n - 1), Kept(heap, heap2, D, fs, gs, n - 1), ServesStill
<1>2. Serves(of, heap2, gs, n, goal)
  <2>1. Serves(of, heap, fs, n, goal)
    BY DEF Calling
  <2>2. Target(of, gs[n]) = Target(of, fs[n])
    BY DEF Target
  <2>3. n - 1 \in Nat /\ (n - 1 # 0 => n - 1 \in 1..(n - 1))
    OBVIOUS
  <2>4. n - 1 # 0 => gs[n - 1] = fs[n - 1]
    BY <2>3 DEF Kept
  <2>5. WishAt(of, gs, n - 1, goal) = WishAt(of, fs, n - 1, goal)
    BY ONLY <2>3, <2>4, WishStays
  <2>6. ~(n < Len(gs))
    OBVIOUS
  <2>7. QED
    BY <2>1, <2>2, <2>5, <2>6 DEF Serves
<1>3. ASSUME NEW i \in 1..Len(gs)
      PROVE  Serves(of, heap2, gs, i, goal)
  <2>1. i \in 1..(n - 1) \/ i = n
    OBVIOUS
  <2>2. QED
    BY <1>1, <1>2, <2>1
<1>4. QED
  BY <1>3 DEF Calling

(* The last frame ends.                                                    *)
LEMMA CallingFront ==
    ASSUME NEW heap, NEW fs \in Seq(AnyFrame), fs # <<>>, NEW of, NEW goal,
           Calling(of, heap, fs, goal)
    PROVE  LET f == Last(fs)
               gs == Front(fs)
           IN  /\ Calling(of, heap, gs, goal)
               /\ Halfway(of, heap, f)
               /\ WishAt(of, gs, Len(gs), goal) = Wish(Target(of, f), f.max + 1)
               /\ gs # <<>> => Busy(of, gs[Len(gs)])
<1>1. PICK gs : gs = Front(fs)
  OBVIOUS
<1>2. PICK n : n = Len(fs)
  OBVIOUS
<1>3. /\ n \in Nat \ {0} /\ Len(gs) = n - 1 /\ gs \in Seq(AnyFrame)
      /\ \A i \in 1..(n - 1) : gs[i] = fs[i]
  BY ONLY <1>1, <1>2, fs \in Seq(AnyFrame), fs # <<>>, FrontIs
<1>4. Last(fs) = fs[n]
  BY ONLY <1>2, fs \in Seq(AnyFrame), fs # <<>>, LastIs
<1>5. ASSUME NEW i \in 1..n
      PROVE  Serves(of, heap, fs, i, goal)
  BY <1>2 DEF Calling
<1>6. ASSUME NEW i \in 1..(n - 1)
      PROVE  Serves(of, heap, gs, i, goal) /\ Busy(of, gs[i])
  <2>1. i \in 1..n /\ i < n
    BY <1>3
  <2>2. Serves(of, heap, fs, i, goal) /\ Busy(of, fs[i]) /\ gs[i] = fs[i]
    BY <1>2, <1>3, <1>5, <2>1 DEF Serves
  <2>3. i - 1 \in Nat /\ (i - 1 # 0 => i - 1 \in 1..(n - 1))
    BY <1>3
  <2>4. WishAt(of, gs, i - 1, goal) = WishAt(of, fs, i - 1, goal)
    BY <1>3, <2>3, WishStays
  <2>5. QED
    BY <2>2, <2>4 DEF Serves
<1>7. Serves(of, heap, fs, n, goal)
  <2>1. n \in 1..n
    BY <1>3
  <2>2. QED
    BY <1>5, <2>1
<1>8. WishAt(of, gs, n - 1, goal) = Wish(Target(of, fs[n]), fs[n].max + 1)
  <2>1. n - 1 \in Nat /\ (n - 1 # 0 => n - 1 \in 1..(n - 1))
    BY <1>3
  <2>2. WishAt(of, gs, n - 1, goal) = WishAt(of, fs, n - 1, goal)
    BY <1>3, <2>1, WishStays
  <2>3. QED
    BY <1>7, <2>2 DEF Serves
<1>9. gs # <<>> => Busy(of, gs[n - 1])
  <2>1. gs # <<>> => n - 1 \in 1..(n - 1)
    BY <1>3
  <2>2. QED
    BY <1>6, <2>1
<1>10. Calling(of, heap, gs, goal) /\ Halfway(of, heap, fs[n])
  BY <1>3, <1>6, <1>7 DEF Calling, Serves
<1>11. QED
  BY ONLY <1>1, <1>3, <1>4, <1>8, <1>9, <1>10

LEMMA DeliveredSame ==
    ASSUME NEW heap, NEW heap2, NEW D, SameIn(heap, heap2, D), NEW fs \in Seq(AnyFrame),
           NEW of, NEW goal, goal.room \in Nat, Calling(of, heap, fs, goal),
           NEW out, out = None \/ out \in D, Delivered(of, heap, fs, out, goal)
    PROVE  Delivered(of, heap2, fs, out, goal)
<1>1. Len(fs) \in Nat
  OBVIOUS
<1>2. WishAt(of, fs, Len(fs), goal).room \in Nat
  <2>1. CASE Len(fs) = 0
    BY <2>1 DEF WishAt
  <2>2. CASE Len(fs) # 0
    <3>1. Len(fs) \in 1..Len(fs)
      BY <1>1, <2>2
    <3>2. fs[Len(fs)].max \in Nat
      BY <3>1 DEF Calling, Serves, Halfway
    <3>3. QED
      BY <2>2, <3>2 DEF WishAt, Wish
  <2>3. QED
    BY <2>1, <2>2
<1>3. PICK room : room = WishAt(of, fs, Len(fs), goal).room
  OBVIOUS
<1>4. room \in Nat
  BY <1>2, <1>3
<1>5. out # None => Says(heap2, out, room) = Says(heap, out, room)
  BY ONLY <1>4, SameIn(heap, heap2, D), out = None \/ out \in D, SaysSame
<1>6. QED
  BY <1>3, <1>5 DEF Delivered

(* All frames and what is returned are in D.                               *)
AllIn(D, fs, out) ==
    /\ fs \in Seq(AnyFrame)
    /\ \A i \in 1..Len(fs) : fs[i].made \in D /\ (fs[i].key = None \/ fs[i].key \in D)
    /\ out = None \/ out \in D

LEMMA SoundIn ==
    ASSUME NEW heap, NEW fs, NEW rel, NEW out, WellCounted(heap, fs, rel, out)
    PROVE  AllIn(DOMAIN heap, fs, out)
<1>1. /\ fs \in Seq(AnyFrame) /\ DOMAIN fs = 1..Len(fs)
      /\ \A i \in DOMAIN fs : FrameOK(heap, fs[i], i < Len(fs) \/ out # None)
      /\ out \in DOMAIN heap \union {None}
  BY SoundHas
<1>2. QED
  BY ONLY <1>1 DEF AllIn, FrameOK

LEMMA MeantSame ==
    ASSUME NEW heap, NEW heap2, NEW D, SameIn(heap, heap2, D),
           NEW fs, NEW out, AllIn(D, fs, out),
           NEW of, NEW goal, goal.room \in Nat, NEW failed,
           Meant(of, heap, fs, out, failed, goal)
    PROVE  Meant(of, heap2, fs, out, failed, goal)
<1>1. fs \in Seq(AnyFrame) /\ Len(fs) \in Nat /\ (out = None \/ out \in D)
  BY DEF AllIn
<1>2. Kept(heap, heap2, D, fs, fs, Len(fs))
  BY DEF AllIn, Kept
<1>3. Calling(of, heap, fs, goal) /\ Delivered(of, heap, fs, out, goal)
  BY DEF Meant
<1>4. Calling(of, heap2, fs, goal)
  BY ONLY <1>1, <1>2, <1>3, CallingSame
<1>5. Delivered(of, heap2, fs, out, goal)
  BY ONLY <1>1, <1>3, SameIn(heap, heap2, D), goal.room \in Nat, DeliveredSame
<1>6. QED
  BY <1>4, <1>5 DEF Meant

-----------------------------------------------------------------------------
(* How heaps change that say the same.                                     *)

LEMMA NewCellSays ==
    ASSUME NEW heap, HeapOK(heap), NEW v, NEW kind, NEW text, NEW heap2,
           NewCell(heap, v, kind, text, heap2)
    PROVE  /\ SameIn(heap, heap2, DOMAIN heap)
           /\ v \in DOMAIN heap2 /\ v # None /\ heap2[v] = Cell(kind, text)
<1>1. Gained(heap, v, kind, text, heap2)
  BY HeapNew
<1>2. \A u \in DOMAIN heap : heap[u].items \in Seq(DOMAIN heap)
  BY CellsAre
<1>3. QED
  BY <1>1, <1>2 DEF Gained, SameIn

LEMMA AlikeSays ==
    ASSUME NEW heap, HeapOK(heap), NEW heap2, Alike(heap, heap2)
    PROVE  SameIn(heap, heap2, DOMAIN heap)
<1>1. \A u \in DOMAIN heap : heap[u].items \in Seq(DOMAIN heap)
  BY CellsAre
<1>2. QED
  BY <1>1 DEF Alike, SameIn

LEMMA DroppedSays ==
    ASSUME NEW heap, NEW v, NEW heap2, CellDropped(heap, v, heap2)
    PROVE  SameIn(heap, heap2, DOMAIN heap2)
<1>1. \A u \in DOMAIN heap2 : heap2[u].items \in Seq(DOMAIN heap2)
  BY CellsAre DEF CellDropped
<1>2. QED
  BY <1>1 DEF CellDropped, SameIn

-----------------------------------------------------------------------------
(* What cannot be had.                                                     *)

LEMMA HopelessBelow ==
    ASSUME NEW of, NEW fs \in Seq(AnyFrame), NEW goal,
           fs # <<>> => Busy(of, fs[Len(fs)]),
           WishAt(of, fs, Len(fs), goal).means = NoMeaning
    PROVE  Hopeless(of, fs, goal)
<1>1. CASE fs = <<>>
  <2>1. Len(fs) = 0
    BY <1>1
  <2>2. QED
    BY <1>1, <2>1 DEF Hopeless, WishAt
<1>2. CASE fs # <<>>
  <2>1. Len(fs) # 0
    BY <1>2
  <2>2. PICK f : f = fs[Len(fs)]
    OBVIOUS
  <2>3. Meaning[f.max][Slot(of, f)] = NoMeaning
    BY <2>1, <2>2 DEF WishAt, Wish
  <2>4. Busy(of, f)
    BY <1>2, <2>2
  <2>5. Target(of, f) = NoMeaning
    <3>1. SUFFICES ASSUME Target(of, f) # NoMeaning
                   PROVE  FALSE
      OBVIOUS
    <3>2. \A i \in DOMAIN of[f.elem].children :
              GoodChild(f.fn, of[f.elem].children[i], Meaning[f.max])
      BY ONLY <3>1, WholeHas DEF Target
    <3>3. QED
      BY <2>3, <2>4, <3>2 DEF Busy, Slot, GoodChild
  <2>6. QED
    BY <1>2, <2>2, <2>5 DEF Hopeless
<1>3. QED
  BY <1>1, <1>2

(* A child that does not fit spoils the whole.                             *)
LEMMA HopelessChild ==
    ASSUME NEW of, NEW f, NEW i \in DOMAIN of[f.elem].children,
           ~ChildFits(f.fn, of[f.elem].children[i])
    PROVE  Target(of, f) = NoMeaning
<1>1. SUFFICES ASSUME Target(of, f) # NoMeaning
               PROVE  FALSE
  OBVIOUS
<1>2. GoodChild(f.fn, of[f.elem].children[i], Meaning[f.max])
  BY <1>1, WholeHas DEF Target
<1>3. QED
  BY <1>2 DEF GoodChild

-----------------------------------------------------------------------------
(* A frame that has made nothing yet.                                      *)

LEMMA NothingYet ==
    ASSUME NEW children, NEW below
    PROVE  /\ PartOf("struct", children, 0, below) = <<"struct", {}>>
           /\ \A fn : fn # "struct" =>
                  PartOf(fn, children, 0, below) = <<"array", <<>> >>
<1>1. MembersMeant(children, 0, below) = {}
  <2>1. Lasting(children, 0) = {}
    BY DEF Lasting
  <2>2. QED
    BY <2>1 DEF MembersMeant
<1>2. ASSUME NEW fn
      PROVE  ItemsMeant(fn, children, 0, below) = <<>>
  BY DEF ItemsMeant
<1>3. QED
  BY <1>1, <1>2 DEF PartOf

Fresh(of, heap, f) ==
    /\ f.fn \in {"params", "array", "struct"}
    /\ f.made \in DOMAIN heap
    /\ heap[f.made] = Cell(IF f.fn = "struct" THEN "struct" ELSE "array", <<>>)
    /\ f.at = 1 /\ f.key = None /\ f.max \in Nat
    /\ f.fn = "params" => f.max = NestingLimit
    /\ f.fn # "array" => of[f.elem].name = Heading(f.fn)
    /\ Len(of[f.elem].children) \in Nat

LEMMA FreshHalfway ==
    ASSUME NEW of, NEW heap, NEW f, Fresh(of, heap, f)
    PROVE  Halfway(of, heap, f)
<1>1. /\ f.made \in DOMAIN heap /\ f.max \in Nat
      /\ heap[f.made].items = <<>>
      /\ heap[f.made].kind = IF f.fn = "struct" THEN "struct" ELSE "array"
  BY DEF Fresh, Cell
<1>2. Says(heap, f.made, f.max + 1) =
          IF f.fn = "struct" THEN <<"struct", {}>> ELSE <<"array", <<>> >>
  BY <1>1, SaysFresh
<1>3. Says(heap, f.made, f.max + 1)
          = PartOf(f.fn, of[f.elem].children, 0, Meaning[f.max])
  BY <1>2, NothingYet
<1>4. KeysDiffer(heap, f.made)
  <2>1. Len(heap[f.made].items) = 0
    BY <1>1
  <2>2. 1..(0 \div 2) = {}
    OBVIOUS
  <2>3. QED
    BY ONLY <2>1, <2>2 DEF KeysDiffer
<1>5. f.at = 1 /\ f.at - 1 = 0 /\ 1..(f.at - 1) = {} /\ f.at <= Len(of[f.elem].children) + 1
  BY DEF Fresh
<1>6. KeyMade(heap, f)
  BY DEF Fresh, KeyMade
<1>7. QED
  BY <1>3, <1>4, <1>5, <1>6 DEF Fresh, Halfway

(* Nothing is returned, the flags are left alone, and there is a new frame. *)
LEMMA OpenMeant ==
    ASSUME NEW heap, NEW fs, WellCounted(heap, fs, <<>>, None),
           NEW of, NEW goal, Calling(of, heap, fs, goal),
           fs # <<>> => Busy(of, fs[Len(fs)]),
           NEW v, NEW kind, NEW heap2, NewCell(heap, v, kind, <<>>, heap2),
           NEW f \in AnyFrame, f.made = v, f.at = 1, f.key = None, f.max \in Nat,
           kind = IF f.fn = "struct" THEN "struct" ELSE "array",
           f.fn = "params" => f.max = NestingLimit,
           f.fn # "array" => of[f.elem].name = Heading(f.fn),
           Len(of[f.elem].children) \in Nat,
           WishAt(of, fs, Len(fs), goal) = Wish(Target(of, f), f.max + 1)
    PROVE  Meant(of, heap2, Append(fs, f), None, FALSE, goal)
<1>1. HeapOK(heap) /\ fs \in Seq(AnyFrame) /\ AllIn(DOMAIN heap, fs, None)
  BY SoundHas, SoundIn
<1>2. /\ SameIn(heap, heap2, DOMAIN heap)
      /\ v \in DOMAIN heap2 /\ v # None /\ heap2[v] = Cell(kind, <<>>)
  BY <1>1, NewCellSays
<1>3. Kept(heap, heap2, DOMAIN heap, fs, fs, Len(fs))
  BY <1>1, <1>2 DEF AllIn, Kept
<1>4. Fresh(of, heap2, f)
  BY <1>2 DEF Fresh, AnyFrame
<1>5. Halfway(of, heap2, f)
  BY <1>4, FreshHalfway
<1>6. Calling(of, heap2, Append(fs, f), goal)
  BY ONLY <1>1, <1>3, <1>5, f \in AnyFrame, Calling(of, heap, fs, goal),
          fs # <<>> => Busy(of, fs[Len(fs)]),
          WishAt(of, fs, Len(fs), goal) = Wish(Target(of, f), f.max + 1), CallingMore
<1>7. QED
  BY <1>6 DEF Meant, Delivered

(* A value is returned that is wanted.                                     *)
LEMMA ScalarMeant ==
    ASSUME NEW heap, NEW fs, WellCounted(heap, fs, <<>>, None),
           NEW of, NEW goal, Calling(of, heap, fs, goal),
           fs # <<>> => Busy(of, fs[Len(fs)]),
           NEW v, NEW kind, NEW text, NEW heap2, NewCell(heap, v, kind, text, heap2),
           kind \notin {"none", "array", "struct"}, NEW d \in Nat, d - 1 \in Nat,
           WishAt(of, fs, Len(fs), goal) = Wish(<<kind, text>>, d)
    PROVE  Meant(of, heap2, fs, v, FALSE, goal)
<1>1. HeapOK(heap) /\ AllIn(DOMAIN heap, fs, None) /\ Len(fs) \in Nat
  BY SoundHas, SoundIn
<1>2. /\ SameIn(heap, heap2, DOMAIN heap)
      /\ v \in DOMAIN heap2 /\ v # None /\ heap2[v] = Cell(kind, text)
  BY <1>1, NewCellSays
<1>3. Kept(heap, heap2, DOMAIN heap, fs, fs, Len(fs))
  BY <1>1, <1>2 DEF AllIn, Kept
<1>4. Calling(of, heap2, fs, goal)
  BY ONLY <1>1, <1>3, Calling(of, heap, fs, goal), CallingSame
<1>5. Says(heap2, v, d) = <<kind, text>>
  <2>1. /\ heap2[v].items = <<>> /\ heap2[v].kind = kind /\ heap2[v].text = text
        /\ kind # "array" /\ kind # "struct"
    BY <1>2 DEF Cell
  <2>2. Says(heap2, v, (d - 1) + 1) = <<kind, text>>
    BY ONLY <1>2, <2>1, d - 1 \in Nat, SaysFresh
  <2>3. (d - 1) + 1 = d
    OBVIOUS
  <2>4. QED
    BY ONLY <2>2, <2>3
<1>6. <<kind, text>> # NoMeaning
  BY DEF NoMeaning
<1>7. Delivered(of, heap2, fs, v, goal)
  BY <1>5, <1>6 DEF Delivered, Wish
<1>8. QED
  BY <1>4, <1>7 DEF Meant

-----------------------------------------------------------------------------
(* What conversion keeps, said of the next state.                          *)

LEMMA MeantStays ==
    ASSUME nodes' = nodes, NEW of, NEW heap, NEW fs, NEW out, NEW failed, NEW goal,
           Meant(of, heap, fs, out, failed, goal)
    PROVE  Meant(of, heap, fs, out, failed, goal)'
<1>1. ASSUME NEW f
      PROVE  KeyMade(heap, f)' <=> KeyMade(heap, f)
  BY nodes' = nodes DEF KeyMade, Children, IsMember, ChildCount, Named, ChildByName, TextOK
<1>2. ASSUME NEW f
      PROVE  Halfway(of, heap, f)' <=> Halfway(of, heap, f)
  BY <1>1 DEF Halfway
<1>3. ASSUME NEW i
      PROVE  Serves(of, heap, fs, i, goal)' <=> Serves(of, heap, fs, i, goal)
  BY <1>2 DEF Serves
<1>4. Calling(of, heap, fs, goal)' <=> Calling(of, heap, fs, goal)
  BY <1>3 DEF Calling
<1>5. QED
  BY <1>4 DEF Meant

LEMMA GoalStays ==
    ASSUME document' = document, methodName' = methodName, NEW goal, GoalIs(goal)
    PROVE  GoalIs(goal)'
  BY DEF GoalIs, CallWanted, ResponseWanted

LEMMA MeaningStays ==
    ASSUME nodes' = nodes, document' = document, methodName' = methodName,
           pc' \in {"convert", "ending"},
           NEW of, NEW goal, Built(of), GoalIs(goal),
           Meant(of, values', frames', returned', fault', goal)
    PROVE  MeaningInv'
<1>1. PICK heap : heap = values'
  OBVIOUS
<1>2. PICK fs : fs = frames'
  OBVIOUS
<1>3. PICK out : out = returned'
  OBVIOUS
<1>4. PICK failed : failed = fault'
  OBVIOUS
<1>5. Meant(of, heap, fs, out, failed, goal)
  BY <1>1, <1>2, <1>3, <1>4
<1>6. Meant(of, heap, fs, out, failed, goal)'
  BY ONLY <1>5, nodes' = nodes, MeantStays
<1>7. GoalIs(goal)'
  BY GoalStays
<1>8. Built(of)'
  BY DEF Built, Copies
<1>9. Meant(of, values, frames, returned, fault, goal)'
  BY <1>1, <1>2, <1>3, <1>4, <1>6
<1>10. QED
  BY ONLY <1>7, <1>8, <1>9, pc' \in {"convert", "ending"} DEF MeaningInv

-----------------------------------------------------------------------------
(* convert_value and convert_params.                                       *)

(* Conversion goes on, and what is wanted is looked for in an element.     *)
Ready(of, goal) ==
    /\ ConversionOK /\ IsTree(nodes) /\ ~fault /\ returned = None /\ releasing = <<>>
    /\ Built(of) /\ GoalIs(goal)
    /\ Meant(of, values, frames, returned, fault, goal)
    /\ frames # <<>> => Busy(of, frames[Len(frames)])

(* A fault that is found leaves the rest alone.                            *)
LEMMA FaultMeant ==
    ASSUME NEW of, NEW goal, Meant(of, values, frames, returned, fault, goal),
           UNCHANGED valueVars, returned = None, Hopeless(of, frames, goal)
    PROVE  Meant(of, values', frames', returned', fault', goal)
<1>1. UNCHANGED <<values, frames, returned>>
  BY DEF valueVars
<1>2. QED
  BY <1>1 DEF Meant

LEMMA ReadyHas ==
    ASSUME NEW of, NEW goal, Ready(of, goal)
    PROVE  /\ WellCounted(values, frames, <<>>, None) /\ HeapOK(values) /\ IsTree(nodes)
           /\ frames \in Seq(AnyFrame)
           /\ ~fault /\ returned = None /\ releasing = <<>> /\ Built(of)
           /\ Meant(of, values, frames, returned, fault, goal)
           /\ Calling(of, values, frames, goal)
           /\ frames # <<>> => Busy(of, frames[Len(frames)])
<1>1. WellCounted(values, frames, <<>>, None)
  BY DEF Ready, ConversionOK
<1>2. HeapOK(values) /\ frames \in Seq(AnyFrame)
  BY <1>1, SoundHas
<1>3. QED
  BY <1>1, <1>2 DEF Ready, Meant

LEMMA ConvertMeant ==
    ASSUME NEW of, NEW goal, Ready(of, goal), NEW e \in DOMAIN nodes, NEW d \in Nat,
           ConvertValue(e, d), ranOut' # TRUE,
           WishAt(of, frames, Len(frames), goal) = Wish(Meaning[d][of[e]], d)
    PROVE  Meant(of, values', frames', returned', fault', goal)
<1>1. PICK v : v = Unused(values)
  OBVIOUS
<1>2. PICK child : child = IF ChildCount(e) = 0 THEN e ELSE Children(e)[1]
  OBVIOUS
<1>3. PICK name : name = IF ChildCount(e) = 0 THEN "string" ELSE nodes[child].name
  OBVIOUS
<1>4. PICK text : text = IF name = "nil" THEN <<>> ELSE nodes[child].text
  OBVIOUS
<1>5. /\ WellCounted(values, frames, <<>>, None) /\ HeapOK(values) /\ IsTree(nodes)
      /\ frames \in Seq(AnyFrame)
      /\ ~fault /\ returned = None /\ releasing = <<>> /\ Built(of)
      /\ Meant(of, values, frames, returned, fault, goal)
      /\ Calling(of, values, frames, goal)
      /\ frames # <<>> => Busy(of, frames[Len(frames)])
  BY ReadyHas
<1>6. CASE ~Takes(e, d) /\ fault' = TRUE /\ UNCHANGED <<valueVars, ranOut, misused>>
  <2>1. Meaning[d][of[e]] = NoMeaning
    BY ONLY <1>5, <1>6, e \in DOMAIN nodes, d \in Nat, NothingTaken
  <2>2. WishAt(of, frames, Len(frames), goal).means = NoMeaning
    BY <2>1 DEF Wish
  <2>3. Hopeless(of, frames, goal)
    BY ONLY <1>5, <2>2, HopelessBelow
  <2>4. QED
    BY ONLY <1>5, <1>6, <2>3, FaultMeant
<1>7. ~BuildFails(name)
  BY DEF BuildFails, RunsOut
<1>8. ASSUME Takes(e, d)
      PROVE  /\ child \in DOMAIN nodes /\ name \in ValueKind /\ Type(name) \in ValueKind
             /\ text \in Seq(STRING)
             /\ name = "array" => Children(child)[1] \in DOMAIN nodes
             /\ d - 1 \in Nat
             /\ name = "array" =>
                    Meaning[d][of[e]] = WholeOf("array", of[Children(child)[1]], Meaning[d - 1])
             /\ name = "struct" =>
                    /\ Meaning[d][of[e]] = WholeOf("struct", of[child], Meaning[d - 1])
                    /\ nodes[child].name = "struct"
             /\ name \notin {"array", "struct"} =>
                    /\ Meaning[d][of[e]] = <<Type(name), text>>
                    /\ Type(name) \notin {"none", "array", "struct"}
  <2>1. d \in Int
    OBVIOUS
  <2>2. /\ child \in DOMAIN nodes /\ name \in ValueKind /\ Type(name) \in ValueKind
        /\ text \in Seq(STRING)
        /\ name = "array" => Children(child)[1] \in DOMAIN nodes
    BY ONLY <1>2, <1>3, <1>4, <1>5, <1>8, e \in DOMAIN nodes, TakenElement
  <2>3. /\ d - 1 \in Nat
        /\ name = "array" =>
               Meaning[d][of[e]] = WholeOf("array", of[Children(child)[1]], Meaning[d - 1])
        /\ name = "struct" => Meaning[d][of[e]] = WholeOf("struct", of[child], Meaning[d - 1])
        /\ name \notin {"array", "struct"} =>
               /\ Meaning[d][of[e]] = <<Type(name), text>>
               /\ Type(name) \notin {"none", "array", "struct"}
    <3>1. IsTree(nodes) /\ Built(of) /\ Takes(e, d)
      BY <1>5, <1>8
    <3>2. /\ child = IF ChildCount(e) = 0 THEN e ELSE Children(e)[1]
          /\ name = IF ChildCount(e) = 0 THEN "string" ELSE nodes[child].name
          /\ text = IF name = "nil" THEN <<>> ELSE nodes[child].text
      BY ONLY <1>2, <1>3, <1>4
    <3>3. QED
      BY ONLY SMTT(30), <3>1, <3>2, e \in DOMAIN nodes, d \in Nat, TakenMeans
  <2>4. name = "struct" => nodes[child].name = "struct"
    BY ONLY <1>3
  <2>5. QED
    BY ONLY <2>2, <2>3, <2>4
<1>9. ASSUME NEW fn \in {"array", "struct"}, NEW elem \in DOMAIN nodes, Takes(e, d),
             Meaning[d][of[e]] = WholeOf(fn, of[elem], Meaning[d - 1]),
             fn = "struct" => nodes[elem].name = "struct",
             values' = With(values, v, Cell(fn, <<>>)),
             frames' = Append(frames, Frame(fn, elem, v, d - 1)),
             UNCHANGED <<returned, releasing, flags>>
      PROVE  Meant(of, values', frames', returned', fault', goal)
  <2>1. fn \in ValueKind /\ <<>> \in Seq(STRING)
    BY DEF ValueKind
  <2>2. PICK heap2 : heap2 = values'
    OBVIOUS
  <2>3. heap2 = With(values, Unused(values), Cell(fn, <<>>))
    BY <1>1, <1>9, <2>2
  <2>4. NewCell(values, v, fn, <<>>, heap2)
    BY ONLY <1>1, <1>5, <2>1, <2>3, FreshValue
  <2>5. PICK f : f = Frame(fn, elem, v, d - 1)
    OBVIOUS
  <2>6. d - 1 \in Nat
    BY <1>8, <1>9
  <2>7. /\ f \in AnyFrame /\ f.fn = fn /\ f.elem = elem /\ f.made = v /\ f.key = None
        /\ f.at = 1 /\ f.max = d - 1
    <3>1. v \in Nat /\ elem \in Nat /\ d - 1 \in Int
      BY <1>5, <2>4, <2>6 DEF NewCell, IsTree
    <3>2. fn \in {"params", "array", "struct"}
      OBVIOUS
    <3>3. f.max = d - 1
      BY <2>5 DEF Frame
    <3>4. QED
      BY ONLY SMTT(30), <2>5, <3>1, <3>2, <3>3, FrameIs
  <2>8. /\ Len(of[elem].children) \in Nat /\ nodes[elem].name = of[elem].name
    BY ONLY <1>5, elem \in DOMAIN nodes, BuiltIs
  <2>9. /\ fn = IF f.fn = "struct" THEN "struct" ELSE "array"
        /\ f.fn = "params" => f.max = NestingLimit
        /\ f.fn # "array" => of[f.elem].name = Heading(f.fn)
        /\ Len(of[f.elem].children) \in Nat /\ f.max \in Nat
    BY <1>9, <2>6, <2>7, <2>8 DEF Heading
  <2>10. WishAt(of, frames, Len(frames), goal) = Wish(Target(of, f), f.max + 1)
    <3>1. Target(of, f) = Meaning[d][of[e]]
      BY ONLY <1>9, <2>7 DEF Target
    <3>2. f.max + 1 = d
      BY ONLY <2>7, d \in Nat
    <3>3. QED
      BY ONLY <3>1, <3>2, WishAt(of, frames, Len(frames), goal) = Wish(Meaning[d][of[e]], d)
  <2>11. Meant(of, heap2, Append(frames, f), None, FALSE, goal)
    BY ONLY <1>5, <2>4, <2>7, <2>9, <2>10, OpenMeant
  <2>12. returned' = None /\ fault' = fault /\ fault = FALSE
    <3>1. fault \in BOOLEAN
      BY DEF Ready, ConversionOK
    <3>2. QED
      BY <1>5, <1>9, <3>1 DEF flags
  <2>13. QED
    BY ONLY <1>9, <2>2, <2>5, <2>11, <2>12
<1>10. CASE /\ Takes(e, d) /\ name = "array"
            /\ values' = With(values, v, Cell(name, <<>>))
            /\ frames' = Append(frames, Frame(name, Children(child)[1], v, d - 1))
            /\ UNCHANGED <<returned, releasing, flags>>
  <2>1. PICK elem : elem = Children(child)[1]
    OBVIOUS
  <2>2. /\ elem \in DOMAIN nodes
        /\ Meaning[d][of[e]] = WholeOf("array", of[elem], Meaning[d - 1])
    BY <1>8, <1>10, <2>1
  <2>3. /\ values' = With(values, v, Cell("array", <<>>))
        /\ frames' = Append(frames, Frame("array", elem, v, d - 1))
    BY <1>10, <2>1
  <2>4. QED
    BY <1>9, <1>10, <2>2, <2>3
<1>11. CASE /\ Takes(e, d) /\ name = "struct"
            /\ values' = With(values, v, Cell(name, <<>>))
            /\ frames' = Append(frames, Frame(name, child, v, d - 1))
            /\ UNCHANGED <<returned, releasing, flags>>
  <2>1. /\ child \in DOMAIN nodes /\ nodes[child].name = "struct"
        /\ Meaning[d][of[e]] = WholeOf("struct", of[child], Meaning[d - 1])
    BY <1>8, <1>11
  <2>2. /\ values' = With(values, v, Cell("struct", <<>>))
        /\ frames' = Append(frames, Frame("struct", child, v, d - 1))
    BY <1>11
  <2>3. QED
    BY <1>9, <1>11, <2>1, <2>2
<1>12. CASE /\ Takes(e, d) /\ name \notin {"array", "struct"}
            /\ values' = With(values, v, Cell(Type(name), text))
            /\ returned' = v
            /\ UNCHANGED <<frames, releasing, flags>>
  <2>1. PICK kind : kind = Type(name)
    OBVIOUS
  <2>2. PICK heap2 : heap2 = values'
    OBVIOUS
  <2>3. /\ kind \in ValueKind /\ text \in Seq(STRING) /\ d - 1 \in Nat
        /\ Meaning[d][of[e]] = <<kind, text>>
        /\ kind \notin {"none", "array", "struct"}
    BY <1>8, <1>12, <2>1
  <2>4. heap2 = With(values, Unused(values), Cell(kind, text))
    BY <1>1, <1>12, <2>1, <2>2
  <2>5. NewCell(values, v, kind, text, heap2)
    BY ONLY <1>1, <1>5, <2>3, <2>4, FreshValue
  <2>6. WishAt(of, frames, Len(frames), goal) = Wish(<<kind, text>>, d)
    BY <2>3
  <2>7. Meant(of, heap2, frames, v, FALSE, goal)
    BY ONLY <1>5, <2>3, <2>5, <2>6, d \in Nat, ScalarMeant
  <2>8. fault' = FALSE
    <3>1. fault \in BOOLEAN
      BY DEF Ready, ConversionOK
    <3>2. QED
      BY <1>5, <1>12, <3>1 DEF flags
  <2>9. QED
    BY ONLY <1>12, <2>2, <2>7, <2>8
<1>13. QED
  BY <1>1, <1>2, <1>3, <1>4, <1>6, <1>7, <1>10, <1>11, <1>12 DEF ConvertValue

LEMMA ParamsMeant ==
    ASSUME NEW of, NEW goal, Ready(of, goal), frames = <<>>, NEW params \in DOMAIN nodes,
           ConvertParams(params), ranOut' # TRUE, nodes[params].name = "params",
           goal = Wish(WholeOf("params", of[params], Meaning[NestingLimit]), NestingLimit + 1)
    PROVE  Meant(of, values', frames', returned', fault', goal)
<1>1. /\ WellCounted(values, frames, <<>>, None) /\ HeapOK(values) /\ IsTree(nodes)
      /\ frames \in Seq(AnyFrame)
      /\ ~fault /\ returned = None /\ Built(of)
      /\ Calling(of, values, frames, goal)
      /\ frames # <<>> => Busy(of, frames[Len(frames)])
  BY ReadyHas
<1>2. PICK v : v = Unused(values)
  OBVIOUS
<1>3. PICK f : f = Frame("params", params, v, NestingLimit)
  OBVIOUS
<1>4. ~BuildFails("array")
  BY DEF BuildFails, RunsOut
<1>5. /\ values' = With(values, v, Cell("array", <<>>)) /\ frames' = <<f>>
      /\ UNCHANGED <<returned, releasing, flags>>
  BY <1>2, <1>3, <1>4 DEF ConvertParams
<1>6. PICK heap2 : heap2 = values'
  OBVIOUS
<1>7. NewCell(values, v, "array", <<>>, heap2)
  <2>1. "array" \in ValueKind /\ <<>> \in Seq(STRING)
    BY DEF ValueKind
  <2>2. heap2 = With(values, Unused(values), Cell("array", <<>>))
    BY <1>2, <1>5, <1>6
  <2>3. QED
    BY ONLY <1>1, <1>2, <2>1, <2>2, FreshValue
<1>8. /\ f \in AnyFrame /\ f.fn = "params" /\ f.elem = params /\ f.made = v /\ f.key = None
      /\ f.at = 1 /\ f.max = NestingLimit /\ f.max \in Nat
  <2>1. v \in Nat /\ params \in Nat /\ NestingLimit \in Nat
    BY <1>1, <1>7, LimitAssumption DEF NewCell, IsTree
  <2>2. f.max = NestingLimit
    BY <1>3 DEF Frame
  <2>3. PICK fn, max : fn = "params" /\ max = NestingLimit
    OBVIOUS
  <2>4. fn \in {"params", "array", "struct"} /\ max \in Int
    BY <2>1, <2>3
  <2>5. f = Frame(fn, params, v, max)
    BY <1>3, <2>3
  <2>6. /\ Frame(fn, params, v, max) \in AnyFrame
        /\ Frame(fn, params, v, max).fn = fn /\ Frame(fn, params, v, max).elem = params
        /\ Frame(fn, params, v, max).made = v /\ Frame(fn, params, v, max).key = None
        /\ Frame(fn, params, v, max).at = 1
    BY ONLY SMTT(30), <2>1, <2>4, FrameIs
  <2>7. QED
    BY ONLY <2>1, <2>2, <2>3, <2>5, <2>6
<1>9. Len(of[params].children) \in Nat /\ of[params].name = "params"
  BY <1>1, BuiltIs
<1>10. /\ "array" = IF f.fn = "struct" THEN "struct" ELSE "array"
       /\ f.fn = "params" => f.max = NestingLimit
       /\ f.fn # "array" => of[f.elem].name = Heading(f.fn)
       /\ Len(of[f.elem].children) \in Nat
  BY <1>8, <1>9 DEF Heading
<1>11. WishAt(of, frames, Len(frames), goal) = Wish(Target(of, f), f.max + 1)
  <2>1. Len(frames) = 0
    OBVIOUS
  <2>2. WishAt(of, frames, Len(frames), goal) = goal
    BY <2>1 DEF WishAt
  <2>3. QED
    BY <1>8, <2>2 DEF Target
<1>12. Meant(of, heap2, Append(frames, f), None, FALSE, goal)
  BY ONLY <1>1, <1>7, <1>8, <1>10, <1>11, OpenMeant
<1>13. Append(frames, f) = <<f>>
  OBVIOUS
<1>14. returned' = None /\ fault' = FALSE
  <2>1. fault \in BOOLEAN
    BY DEF Ready, ConversionOK
  <2>2. QED
    BY <1>1, <1>5, <2>1 DEF flags
<1>15. QED
  BY ONLY <1>5, <1>6, <1>12, <1>13, <1>14

-----------------------------------------------------------------------------
(* The actions of conversion.                                              *)

(* As long as memory has not run out.                                      *)
LEMMA MeantNow ==
    ASSUME IInv, MeaningInv, ~ranOut, pc = "convert"
    PROVE  \E of, goal : /\ Built(of) /\ GoalIs(goal) /\ goal.room \in Nat
                         /\ Meant(of, values, frames, returned, fault, goal)
<1>1. PICK of, goal : /\ Built(of) /\ GoalIs(goal)
                      /\ Meant(of, values, frames, returned, fault, goal)
  BY DEF MeaningInv
<1>2. goal.room \in Nat
  BY <1>1 DEF GoalIs
<1>3. QED
  BY <1>1, <1>2

(* The frame that goes on.                                                 *)
AtTop(of, goal) ==
    /\ Built(of) /\ GoalIs(goal)
    /\ Meant(of, values, frames, returned, fault, goal)

LEMMA AtTopHas ==
    ASSUME IInv, Converting, NEW of, NEW goal, AtTop(of, goal)
    PROVE  /\ Len(frames) \in Nat \ {0} /\ Top = frames[Len(frames)]
           /\ Calling(of, values, frames, goal)
           /\ Halfway(of, values, Top)
           /\ Hopeless(of, frames, goal) <=> Target(of, Top) = NoMeaning
           /\ WishAt(of, frames, Len(frames), goal)
                  = Wish(Meaning[Top.max][Slot(of, Top)], Top.max)
           /\ Top.max \in Nat /\ Top.at \in Nat \ {0} /\ Top.elem \in DOMAIN nodes
           /\ Top.fn \in {"params", "array", "struct"}
           /\ IsTree(nodes) /\ nodes' = nodes
           /\ Len(of[Top.elem].children) = ChildCount(Top.elem)
           /\ DOMAIN of[Top.elem].children = 1..ChildCount(Top.elem)
           /\ ChildCount(Top.elem) \in Nat
           /\ nodes[Top.elem].name = of[Top.elem].name
           /\ ~AllConverted =>
                  /\ Item \in DOMAIN nodes
                  /\ Top.at \in DOMAIN of[Top.elem].children
                  /\ of[Top.elem].children[Top.at] = of[Item]
<1>1. /\ frames # <<>> /\ frames \in Seq(AnyFrame) /\ Top = frames[Len(frames)]
      /\ Top \in AnyFrame /\ Top.elem \in DOMAIN nodes
      /\ IsTree(nodes) /\ nodes' = nodes
  BY TopIs
<1>2. Len(frames) \in Nat \ {0}
  BY <1>1
<1>3. Calling(of, values, frames, goal) /\ Built(of)
  BY DEF AtTop, Meant
<1>4. Halfway(of, values, Top)
  <2>1. Len(frames) \in 1..Len(frames)
    BY <1>2
  <2>2. QED
    BY <1>1, <1>3, <2>1 DEF Calling, Serves
<1>5. Hopeless(of, frames, goal) <=> Target(of, Top) = NoMeaning
  BY <1>1 DEF Hopeless
<1>6. WishAt(of, frames, Len(frames), goal)
          = Wish(Meaning[Top.max][Slot(of, Top)], Top.max)
  BY <1>1, <1>2 DEF WishAt
<1>7. Top.max \in Nat
  BY <1>4 DEF Halfway
<1>8. Top.at \in Nat \ {0} /\ Top.fn \in {"params", "array", "struct"}
  BY <1>1 DEF AnyFrame
<1>9. /\ Len(of[Top.elem].children) = ChildCount(Top.elem)
      /\ DOMAIN of[Top.elem].children = 1..ChildCount(Top.elem)
      /\ nodes[Top.elem].name = of[Top.elem].name
      /\ \A i \in 1..ChildCount(Top.elem) :
             Children(Top.elem)[i] \in DOMAIN nodes
             /\ of[Children(Top.elem)[i]] = of[Top.elem].children[i]
      /\ ChildCount(Top.elem) \in Nat
  BY ONLY <1>1, <1>3, BuiltIs
<1>10. ~AllConverted => /\ Item \in DOMAIN nodes /\ Top.at \in 1..ChildCount(Top.elem)
                        /\ of[Top.elem].children[Top.at] = of[Item]
  BY <1>9, ItemIs DEF Item
<1>11. QED
  BY ONLY <1>1, <1>2, <1>3, <1>4, <1>5, <1>6, <1>7, <1>8, <1>9, <1>10

(* What is said of the next state by one that goes on converting.          *)
LEMMA StepMeans ==
    ASSUME MeaningInv, pc = "convert", pc' \in {"convert", "ending"},
           UNCHANGED <<nodes, document, methodName>>, ~ranOut' => ~ranOut,
           \A of, goal : ~ranOut' /\ AtTop(of, goal) =>
               Meant(of, values', frames', returned', fault', goal)
    PROVE  MeaningInv'
<1>1. SUFFICES ASSUME ~ranOut'
               PROVE  MeaningInv'
  BY DEF MeaningInv
<1>2. PICK of, goal : AtTop(of, goal)
  BY <1>1 DEF MeaningInv, AtTop
<1>3. Built(of) /\ GoalIs(goal) /\ Meant(of, values', frames', returned', fault', goal)
  BY <1>1, <1>2 DEF AtTop
<1>4. QED
  BY ONLY <1>3, pc' \in {"convert", "ending"}, UNCHANGED <<nodes, document, methodName>>,
          MeaningStays

LEMMA ConvertingMeans ==
    ASSUME IInv, MeaningInv, Converting, ~ranOut' => ~ranOut,
           \A of, goal : ~ranOut' /\ AtTop(of, goal) =>
               Meant(of, values', frames', returned', fault', goal)
    PROVE  MeaningInv'
<1>1. /\ pc = "convert" /\ pc' \in {"convert", "ending"}
      /\ UNCHANGED <<nodes, document, methodName>>
  BY TopIs DEF outVars
<1>2. QED
  BY <1>1, StepMeans

LEMMA ObjectMeans ==
    ASSUME IInv, MeaningInv, Object
    PROVE  MeaningInv'
<1>1. Converting /\ returned = None /\ ~Fits /\ fault' = TRUE
      /\ UNCHANGED <<valueVars, ranOut, misused>>
  BY DEF Object
<1>2. ASSUME NEW of, NEW goal, AtTop(of, goal)
      PROVE  Meant(of, values', frames', returned', fault', goal)
  <2>1. /\ Halfway(of, values, Top)
        /\ Hopeless(of, frames, goal) <=> Target(of, Top) = NoMeaning
        /\ Top.fn \in {"params", "array", "struct"}
        /\ IsTree(nodes) /\ nodes[Top.elem].name = of[Top.elem].name
        /\ ~AllConverted =>
               /\ Item \in DOMAIN nodes
               /\ Top.at \in DOMAIN of[Top.elem].children
               /\ of[Top.elem].children[Top.at] = of[Item]
    BY <1>1, <1>2, AtTopHas
  <2>2. Built(of) /\ Meant(of, values, frames, returned, fault, goal)
    BY <1>2 DEF AtTop
  <2>3. CASE Top.fn = "array" /\ nodes[Top.elem].name # "data"
    <3>1. of[Top.elem].name # Heading(Top.fn)
      BY <2>1, <2>3 DEF Heading
    <3>2. Target(of, Top) = NoMeaning
      BY <3>1 DEF Target, WholeOf
    <3>3. QED
      BY ONLY <1>1, <2>1, <2>2, <3>2, FaultMeant
  <2>4. CASE ~AllConverted /\ ~ChildFits(Top.fn, of[Item])
    <3>1. Target(of, Top) = NoMeaning
      BY <2>1, <2>4, HopelessChild
    <3>2. QED
      BY ONLY <1>1, <2>1, <2>2, <3>1, FaultMeant
  <2>5. ASSUME ~AllConverted
        PROVE  /\ IsParam(Item) <=> ChildFits("params", of[Item])
               /\ ChildFits("struct", of[Item]) => IsMember(Item) /\ Named(Item, "value") # {}
    <3>1. Item \in DOMAIN nodes
      BY <2>1, <2>5
    <3>2. QED
      BY ONLY <2>1, <2>2, <3>1, ParamIs, MemberIs
  <2>6. QED
    BY <1>1, <2>3, <2>4, <2>5 DEF Fits
<1>3. QED
  BY ONLY <1>1, <1>2, IInv, MeaningInv, ConvertingMeans

LEMMA MakeKeyMeans ==
    ASSUME IInv, Converting, returned = None, Fits, ~AllConverted,
           Top.fn = "struct", Top.key = None, MakeKey,
           NEW of, NEW goal, AtTop(of, goal)
    PROVE  Meant(of, values', frames', returned', fault', goal)
<1>1. /\ ConversionOK /\ IsTree(nodes) /\ ~fault
      /\ frames # <<>> /\ releasing = <<>> /\ frames \in Seq(AnyFrame)
      /\ Top = frames[Len(frames)] /\ Top \in AnyFrame
  BY TopIs
<1>2. /\ Len(frames) \in Nat \ {0} /\ Top = frames[Len(frames)]
      /\ Calling(of, values, frames, goal)
      /\ Halfway(of, values, Top) /\ Item \in DOMAIN nodes
  BY AtTopHas
<1>3. PICK name : name = ChildByName(Item, "name")
  OBVIOUS
<1>4. IsMember(Item)
  BY DEF Fits
<1>5. PICK text : text = nodes[name].text
  OBVIOUS
<1>6. text \in Seq(STRING) /\ "string" \in ValueKind
  <2>1. Named(Item, "name") # {}
    BY <1>4 DEF IsMember
  <2>2. name \in DOMAIN nodes
    BY ONLY <1>1, <1>2, <1>3, <2>1, ChildByNameIn
  <2>3. QED
    BY <1>1, <1>5, <2>2, CountedChildren DEF ValueKind
<1>7. PICK k : k = Unused(values)
  OBVIOUS
<1>8. /\ values' = With(values, k, Cell("string", text))
      /\ frames' = [frames EXCEPT ![Len(frames)].key = k]
      /\ UNCHANGED <<returned, releasing, flags>>
  BY <1>3, <1>5, <1>7 DEF MakeKey
<1>9. PICK heap2 : heap2 = values'
  OBVIOUS
<1>10. WellCounted(values, frames, <<>>, None)
  BY <1>1 DEF ConversionOK
<1>11. HeapOK(values) /\ AllIn(DOMAIN values, frames, None)
  BY <1>10, SoundHas, SoundIn
<1>12. NewCell(values, k, "string", text, heap2)
  <2>1. heap2 = With(values, Unused(values), Cell("string", text))
    BY <1>7, <1>8, <1>9
  <2>2. QED
    BY ONLY <1>6, <1>7, <1>11, <2>1, FreshValue
<1>13. /\ SameIn(values, heap2, DOMAIN values)
       /\ heap2[k] = Cell("string", text)
  BY ONLY <1>11, <1>12, NewCellSays
<1>14. PICK g : g = [Top EXCEPT !.key = k]
  OBVIOUS
<1>15. /\ g.key = k /\ g.made = Top.made /\ g.fn = Top.fn
       /\ g.elem = Top.elem /\ g.at = Top.at /\ g.max = Top.max
  BY ONLY <1>1, <1>14 DEF AnyFrame
<1>16. PICK gs : gs = frames'
  OBVIOUS
<1>17. PICK n : n = Len(frames)
  OBVIOUS
<1>18. /\ Len(gs) = n /\ gs[n] = g /\ n \in Nat \ {0} /\ frames[n] = Top
       /\ \A i \in 1..(n - 1) : gs[i] = frames[i]
  BY <1>1, <1>2, <1>8, <1>14, <1>16, <1>17
<1>19. Kept(values, heap2, DOMAIN values, frames, gs, n - 1)
  <2>1. \A i \in 1..(n - 1) : i \in 1..Len(frames)
    BY <1>17, <1>18
  <2>2. QED
    BY <1>11, <1>13, <1>18, <2>1 DEF AllIn, Kept
<1>20. Halfway(of, heap2, Top)
  <2>1. /\ Top.made \in DOMAIN values
        /\ Top.key = None \/ Top.key \in DOMAIN values
    BY <1>2, <1>11 DEF AllIn
  <2>2. QED
    BY ONLY <1>2, <1>13, <2>1, HalfwaySame
<1>21. Halfway(of, heap2, g)
  <2>1. KeyMade(heap2, g)
    <3>1. Children(g.elem)[g.at] = Item
      BY <1>15 DEF Item
    <3>2. heap2[g.key].text = nodes[ChildByName(Item, "name")].text
      BY <1>3, <1>5, <1>13, <1>15 DEF Cell
    <3>3. QED
      BY <1>4, <3>1, <3>2 DEF KeyMade
  <2>2. QED
    BY ONLY <1>15, <1>20, <2>1 DEF Halfway
<1>22. Calling(of, heap2, gs, goal)
  BY ONLY <1>2, <1>15, <1>17, <1>18, <1>19, <1>21, CallingMoves
<1>23. returned' = None /\ fault' = FALSE
  <2>1. fault \in BOOLEAN
    BY <1>1 DEF ConversionOK
  <2>2. QED
    BY <1>1, <1>8, <2>1 DEF flags
<1>24. QED
  BY <1>9, <1>16, <1>22, <1>23 DEF Meant, Delivered

LEMMA NextItemMeans ==
    ASSUME IInv, MeaningInv, NextItem
    PROVE  MeaningInv'
<1>1. Converting /\ returned = None /\ Fits /\ ~AllConverted
  BY DEF NextItem
<1>2. ~ranOut' => ~ranOut
  BY DEF NextItem, ConvertValue, MakeKey, BuildFails, RunsOut, flags
<1>3. ASSUME NEW of, NEW goal, AtTop(of, goal), ~ranOut'
      PROVE  Meant(of, values', frames', returned', fault', goal)
  <2>1. /\ Top = frames[Len(frames)]
        /\ WishAt(of, frames, Len(frames), goal)
               = Wish(Meaning[Top.max][Slot(of, Top)], Top.max)
        /\ Halfway(of, values, Top) /\ Top.max \in Nat /\ IsTree(nodes)
        /\ Item \in DOMAIN nodes
        /\ Top.at \in DOMAIN of[Top.elem].children
        /\ of[Top.elem].children[Top.at] = of[Item]
    BY <1>1, <1>3, AtTopHas
  <2>2. Built(of) /\ GoalIs(goal) /\ Meant(of, values, frames, returned, fault, goal)
    BY <1>3 DEF AtTop
  <2>3. ConversionOK /\ ~fault /\ releasing = <<>>
    BY <1>1, TopIs
  <2>4. ASSUME ChildFits(Top.fn, of[Item]), NEW e \in DOMAIN nodes,
               of[e] = Inner(Top.fn, of[Item]), ConvertValue(e, Top.max)
        PROVE  Meant(of, values', frames', returned', fault', goal)
    <3>1. Ready(of, goal)
      BY <1>1, <2>1, <2>2, <2>3, <2>4 DEF Ready, Busy
    <3>2. Slot(of, Top) = of[e]
      BY <2>1, <2>4 DEF Slot
    <3>3. PICK d : d = Top.max
      OBVIOUS
    <3>4. /\ d \in Nat /\ ConvertValue(e, d) /\ ranOut' # TRUE
          /\ WishAt(of, frames, Len(frames), goal) = Wish(Meaning[d][of[e]], d)
      BY <1>3, <2>1, <2>4, <3>2, <3>3
    <3>5. QED
      BY ONLY <3>1, <3>4, e \in DOMAIN nodes, ConvertMeant
  <2>5. CASE Top.fn = "params" /\ ConvertValue(Children(Item)[1], NestingLimit)
    <3>1. IsParam(Item)
      BY <1>1, <2>5 DEF Fits
    <3>2. ChildFits("params", of[Item])
      BY ONLY <2>1, <2>2, <3>1, ParamIs
    <3>3. ChildCount(Item) = 1
      BY <3>1 DEF IsParam
    <3>4. \A i \in 1..ChildCount(Item) :
              Children(Item)[i] \in DOMAIN nodes /\ of[Children(Item)[i]] = of[Item].children[i]
      BY ONLY <2>1, <2>2, BuiltIs
    <3>5. Children(Item)[1] \in DOMAIN nodes /\ of[Children(Item)[1]] = Inner("params", of[Item])
      BY <3>3, <3>4 DEF Inner
    <3>6. Top.max = NestingLimit
      BY <2>1, <2>5 DEF Halfway
    <3>7. QED
      BY <2>4, <2>5, <3>2, <3>5, <3>6
  <2>6. CASE Top.fn = "array" /\ ConvertValue(Item, Top.max)
    <3>1. ChildFits("array", of[Item]) /\ of[Item] = Inner("array", of[Item])
      BY DEF ChildFits, Inner
    <3>2. QED
      BY <2>1, <2>4, <2>6, <3>1
  <2>7. CASE Top.fn = "struct" /\ Top.key = None /\ (MakeKey \/ BuildFails("string"))
    <3>1. MakeKey
      BY <1>3, <2>7 DEF BuildFails, RunsOut
    <3>2. QED
      BY ONLY <1>1, <1>3, <2>7, <3>1, IInv, MakeKeyMeans
  <2>8. CASE /\ Top.fn = "struct" /\ Top.key # None
             /\ ConvertValue(ChildByName(Item, "value"), Top.max)
    <3>1. Named(Item, "value") # {}
      BY <1>1, <2>8 DEF Fits
    <3>2. IsMember(Item)
      BY <2>1, <2>8 DEF Halfway, KeyMade, Item
    <3>3. /\ ChildFits("struct", of[Item])
          /\ ChildByName(Item, "value") \in DOMAIN nodes
          /\ of[ChildByName(Item, "value")] = Inner("struct", of[Item])
      BY ONLY <2>1, <2>2, <3>1, <3>2, MemberIs
    <3>4. QED
      BY <2>4, <2>8, <3>3
  <2>9. QED
    BY <2>5, <2>6, <2>7, <2>8 DEF NextItem
<1>4. QED
  BY ONLY <1>1, <1>2, <1>3, IInv, MeaningInv, ConvertingMeans

-----------------------------------------------------------------------------
(* What is returned becomes an item.                                       *)

(* The values but m.                                                       *)
Others(heap, m) == DOMAIN heap \ {m}

(* Nobody but the last frame refers to what it makes.                      *)
LEMMA TopAlone ==
    ASSUME NEW heap, NEW fs, NEW w, WellCounted(heap, fs, <<>>, w), fs # <<>>,
           NEW f, f = Last(fs), NEW m, m = f.made, NEW D, D = Others(heap, m)
    PROVE  /\ HeapOK(heap) /\ fs \in Seq(AnyFrame) /\ m \in DOMAIN heap
           /\ \A u \in DOMAIN heap : heap[u].items \in Seq(D)
           /\ \A i \in 1..(Len(fs) - 1) :
                  fs[i].made \in D /\ (fs[i].key = None \/ fs[i].key \in D)
           /\ f.key = None \/ f.key \in D
           /\ w = None \/ w \in D
           /\ FrameOK(heap, f, w # None) /\ f = fs[Len(fs)]
           /\ Len(fs) \in Nat \ {0}
<1>1. /\ HeapOK(heap) /\ fs \in Seq(AnyFrame)
      /\ Len(fs) \in Nat /\ DOMAIN fs = 1..Len(fs)
      /\ \A i \in DOMAIN fs : FrameOK(heap, fs[i], i < Len(fs) \/ w # None)
      /\ w \in DOMAIN heap \union {None}
      /\ \A v \in DOMAIN heap :
             heap[v].refs = PlaceCount(ItemsOf(heap), v) + Count(Mades(fs), v)
                            + Count(Keys(fs), v) + Count(<<>>, v) + OneIf(w = v)
  BY SoundHas
<1>2. /\ m \in DOMAIN heap /\ Last(fs).key \in DOMAIN heap \union {None}
      /\ PlaceCount(ItemsOf(heap), m) = 0
      /\ w # m /\ Last(fs).key # m
      /\ FrameOK(heap, Last(fs), w # None)
      /\ Len(fs) \in Nat \ {0} /\ Last(fs) = fs[Len(fs)]
  BY TopFills
<1> USE DEF Others
<1>3. ASSUME NEW u \in DOMAIN heap
      PROVE  heap[u].items \in Seq(D)
  <2>1. PICK items : items = heap[u].items
    OBVIOUS
  <2>2. items \in Seq(DOMAIN heap)
    BY <1>1, <2>1, CellsAre
  <2>3. m \notin ToSet(items)
    BY ONLY <1>1, <1>2, <2>1, u \in DOMAIN heap, UnheldAre
  <2>4. \A i \in 1..Len(items) : items[i] \in D
    <3>1. \A i \in 1..Len(items) : items[i] \in DOMAIN heap /\ i \in DOMAIN items
      BY <2>2
    <3>2. \A i \in DOMAIN items : items[i] # m
      BY <2>3 DEF ToSet
    <3>3. QED
      BY <3>1, <3>2
  <2>5. items \in Seq(D)
    <3>1. items = [i \in 1..Len(items) |-> items[i]] /\ Len(items) \in Nat
      BY <2>2
    <3>2. QED
      BY ONLY <2>4, <3>1
  <2>6. QED
    BY <2>1, <2>5
<1>4. ASSUME NEW i \in 1..(Len(fs) - 1)
      PROVE  fs[i].made \in D /\ (fs[i].key = None \/ fs[i].key \in D)
  <2>1. i \in DOMAIN fs /\ Len(fs) \in DOMAIN fs
    BY <1>1, <1>2
  <2>2. fs[i].made \in DOMAIN heap /\ fs[i].key \in DOMAIN heap \union {None}
    BY <1>1, <2>1 DEF FrameOK
  <2>3. fs[i].key # m
    BY <1>2, <2>1, MadeAlone
  <2>4. fs[i].made # m
    <3>1. /\ Count(Mades(fs), m) \in Nat /\ Count(Keys(fs), m) \in Nat
      BY <1>1, MadesIn
    <3>2. heap[m].refs = 1
      BY <1>2 DEF FrameOK
    <3>3. Count(<<>>, m) = 0 /\ OneIf(w = m) = 0
      <4>1. <<>> \in Seq(DOMAIN heap)
        OBVIOUS
      <4>2. Count(<<>>, m) = 0
        BY ONLY <1>1, <4>1, ReferParts
      <4>3. OneIf(w = m) = 0
        BY ONLY <1>2 DEF OneIf
      <4>4. QED
        BY <4>2, <4>3
    <3>4. Count(Mades(fs), m) <= 1
      <4>1. heap[m].refs = PlaceCount(ItemsOf(heap), m) + Count(Mades(fs), m)
                           + Count(Keys(fs), m) + Count(<<>>, m) + OneIf(w = m)
        BY <1>1, <1>2
      <4>2. QED
        BY ONLY <1>2, <3>1, <3>2, <3>3, <4>1
    <3>5. Count(Mades(fs), m) = Count(Mades(Front(fs)), m) + 1
      BY <1>1, MadesFront DEF OneIf
    <3>6. PICK gs : gs = Front(fs)
      OBVIOUS
    <3>7. gs \in Seq(AnyFrame) /\ i \in DOMAIN gs /\ gs[i] = fs[i]
      <4>1. /\ gs \in Seq(AnyFrame) /\ Len(gs) = Len(fs) - 1
            /\ \A j \in 1..(Len(fs) - 1) : gs[j] = fs[j]
        BY ONLY <1>1, <3>6, fs # <<>>, FrontIs
      <4>2. QED
        BY SMTT(30), <4>1
    <3>8. Count(Mades(gs), m) \in Nat
      BY <3>7, MadesIn
    <3>9. Count(Mades(gs), m) = 0
      BY ONLY <3>1, <3>4, <3>5, <3>6, <3>8
    <3>10. QED
      BY <3>7, <3>9, MadesIn
  <2>5. QED
    BY <2>2, <2>3, <2>4
<1>5. QED
  BY <1>1, <1>2, <1>3, <1>4

(* Other counts of references, and other items of m.                       *)
Restocked(heap, heap1, m, items, heap2) ==
    /\ HeapOK(heap1) /\ Alike(heap, heap1)
    /\ heap2 = [heap1 EXCEPT ![m].items = items]

LEMMA FillingIs ==
    ASSUME NEW heap, HeapOK(heap), NEW m \in DOMAIN heap, NEW D, D = Others(heap, m),
           \A u \in DOMAIN heap : heap[u].items \in Seq(D),
           NEW heap1, NEW items \in Seq(D), NEW heap2,
           Restocked(heap, heap1, m, items, heap2)
    PROVE  Filling(heap, heap2, D, m) /\ heap2[m].items = items
<1> USE DEF Others
<1>1. /\ DOMAIN heap1 = DOMAIN heap /\ DOMAIN heap2 = DOMAIN heap
      /\ \A u \in DOMAIN heap : /\ heap1[u].kind = heap[u].kind
                                /\ heap1[u].text = heap[u].text
                                /\ heap1[u].items = heap[u].items
  BY DEF Restocked, Alike
<1>2. heap1[m] = [kind |-> heap1[m].kind, text |-> heap1[m].text,
                  refs |-> heap1[m].refs, items |-> heap1[m].items]
  BY <1>1, CellsAre DEF Restocked
<1>3. /\ heap2[m].items = items /\ heap2[m].kind = heap1[m].kind
      /\ \A u \in D : heap2[u] = heap1[u]
  BY <1>1, <1>2 DEF Restocked
<1>4. SameIn(heap, heap2, D)
  BY <1>1, <1>3 DEF SameIn
<1>5. QED
  BY <1>1, <1>3, <1>4 DEF Filling

(* The frame that goes on to the next child.                               *)
MovesOn(fs, gs) ==
    LET n == Len(fs) IN
    /\ Len(gs) = n
    /\ \A i \in 1..(n - 1) : gs[i] = fs[i]
    /\ gs[n].fn = fs[n].fn /\ gs[n].elem = fs[n].elem
    /\ gs[n].max = fs[n].max /\ gs[n].made = fs[n].made
    /\ gs[n].at = fs[n].at + 1 /\ gs[n].key = None

LEMMA AdvanceMoves ==
    ASSUME IInv, Converting, Advance
    PROVE  /\ MovesOn(frames, frames')
           /\ returned' = None /\ UNCHANGED flags
<1>1. /\ frames # <<>> /\ frames \in Seq(AnyFrame)
      /\ Top = frames[Len(frames)] /\ Top \in AnyFrame
  BY TopIs
<1>2. PICK g : g = [Top EXCEPT !.at = @ + 1, !.key = None]
  OBVIOUS
<1>3. /\ g.fn = Top.fn /\ g.elem = Top.elem /\ g.made = Top.made /\ g.max = Top.max
      /\ g.key = None /\ g.at = Top.at + 1
  BY ONLY <1>1, <1>2 DEF AnyFrame
<1>4. frames' = [frames EXCEPT ![Len(frames)] = g]
  BY <1>1, <1>2 DEF Advance
<1>5. /\ Len(frames') = Len(frames) /\ frames'[Len(frames)] = g
      /\ \A i \in 1..(Len(frames) - 1) : frames'[i] = frames[i]
  BY ONLY <1>1, <1>4
<1>6. QED
  BY ONLY <1>1, <1>3, <1>5, Advance DEF MovesOn, Advance

(* What the last frame has made says what one more child means.            *)
LEMMA FilledMeant ==
    ASSUME NEW of, NEW heap, NEW fs, NEW w, NEW goal, WellCounted(heap, fs, <<>>, w), w # None,
           fs # <<>>, Calling(of, heap, fs, goal), Delivered(of, heap, fs, w, goal),
           NEW f, f = Last(fs),
           NEW heap2, Filling(heap, heap2, Others(heap, f.made), f.made),
           NEW gs, MovesOn(fs, gs),
           DOMAIN of[f.elem].children = 1..Len(of[f.elem].children),
           Len(of[f.elem].children) \in Nat, f.at \in Nat \ {0},
           Says(heap2, f.made, f.max + 1)
               = PartOf(f.fn, of[f.elem].children, f.at, Meaning[f.max]),
           f.fn = "struct" => KeysDiffer(heap2, f.made)
    PROVE  Meant(of, heap2, gs, None, FALSE, goal)
<1>1. PICK D : D = Others(heap, f.made)
  OBVIOUS
<1>2. PICK n : n = Len(fs)
  OBVIOUS
<1>3. /\ n \in Nat \ {0} /\ f = fs[n] /\ fs \in Seq(AnyFrame)
      /\ \A i \in 1..(n - 1) :
             fs[i].made \in D /\ (fs[i].key = None \/ fs[i].key \in D)
  <2>1. PICK m : m = f.made
    OBVIOUS
  <2>2. D = Others(heap, m)
    BY <1>1, <2>1
  <2>3. /\ fs \in Seq(AnyFrame) /\ f = fs[Len(fs)] /\ Len(fs) \in Nat \ {0}
        /\ \A i \in 1..(Len(fs) - 1) :
               fs[i].made \in D /\ (fs[i].key = None \/ fs[i].key \in D)
    BY ONLY <2>1, <2>2, WellCounted(heap, fs, <<>>, w), fs # <<>>, f = Last(fs), TopAlone
  <2>4. QED
    BY <1>2, <2>3
<1>4. /\ Len(gs) = n
      /\ \A i \in 1..(n - 1) : gs[i] = fs[i]
      /\ gs[n].fn = f.fn /\ gs[n].elem = f.elem
      /\ gs[n].max = f.max /\ gs[n].made = f.made
      /\ gs[n].at = f.at + 1 /\ gs[n].key = None
  BY <1>2, <1>3 DEF MovesOn
<1>5. SameIn(heap, heap2, D)
  BY <1>1 DEF Filling
<1>6. Kept(heap, heap2, D, fs, gs, n - 1)
  BY <1>3, <1>4, <1>5 DEF Kept
<1>7. Halfway(of, heap, f)
  <2>1. n \in 1..Len(fs)
    BY <1>2, <1>3
  <2>2. QED
    BY <1>3, <2>1 DEF Calling, Serves
<1>8. GoodChild(f.fn, of[f.elem].children[f.at], Meaning[f.max])
      /\ f.at \in 1..Len(of[f.elem].children)
  <2>1. Busy(of, f) /\ WishAt(of, fs, n, goal).means # NoMeaning
    BY <1>2, <1>3 DEF Delivered
  <2>2. WishAt(of, fs, n, goal).means = Meaning[f.max][Slot(of, f)]
    BY <1>3 DEF WishAt, Wish
  <2>3. QED
    BY <2>1, <2>2 DEF Busy, Slot, GoodChild
<1>9. Halfway(of, heap2, gs[n])
  <2>1. PICK g : g = gs[n]
    OBVIOUS
  <2>2. /\ g.fn = f.fn /\ g.elem = f.elem
        /\ g.max = f.max /\ g.made = f.made
        /\ g.at = f.at + 1 /\ g.key = None
    BY <1>4, <2>1
  <2>3. g.at - 1 = f.at /\ g.at <= Len(of[f.elem].children) + 1
    BY <1>8, <2>2
  <2>4. \A i \in 1..f.at : GoodChild(f.fn, of[f.elem].children[i], Meaning[f.max])
    <3>1. \A i \in 1..f.at : i \in 1..(f.at - 1) \/ i = f.at
      OBVIOUS
    <3>2. QED
      BY <1>7, <1>8, <3>1 DEF Halfway
  <2>5. KeyMade(heap2, g)
    BY <2>2 DEF KeyMade
  <2>6. /\ f.max \in Nat
        /\ f.fn = "params" => f.max = NestingLimit
        /\ f.fn # "array" => of[f.elem].name = Heading(f.fn)
    BY <1>7 DEF Halfway
  <2>7. Halfway(of, heap2, g)
    BY ONLY <2>2, <2>3, <2>4, <2>5, <2>6, f.fn = "struct" => KeysDiffer(heap2, f.made),
            Says(heap2, f.made, f.max + 1)
                = PartOf(f.fn, of[f.elem].children, f.at, Meaning[f.max])
       DEF Halfway
  <2>8. QED
    BY <2>1, <2>7
<1>10. gs[n].fn = fs[n].fn /\ gs[n].elem = fs[n].elem /\ gs[n].max = fs[n].max
  BY <1>3, <1>4
<1>11. Calling(of, heap2, gs, goal)
  BY ONLY SMTT(30), <1>2, <1>3, <1>4, <1>6, <1>9, <1>10, Calling(of, heap, fs, goal), CallingMoves
<1>12. QED
  BY <1>11 DEF Meant, Delivered

(* What is returned to the last frame, and where it has got to.            *)
LEMMA GivenIs ==
    ASSUME IInv, Converting, returned # None, NEW of, NEW goal, AtTop(of, goal)
    PROVE  /\ WellCounted(values, frames, <<>>, returned) /\ frames # <<>> /\ Top = Last(frames)
           /\ Calling(of, values, frames, goal) /\ Delivered(of, values, frames, returned, goal)
           /\ Len(of[Top.elem].children) \in Nat
           /\ DOMAIN of[Top.elem].children = 1..Len(of[Top.elem].children)
           /\ Top.at \in DOMAIN of[Top.elem].children
           /\ Top.at \in Nat \ {0} /\ Top.at - 1 \in Nat /\ (Top.at - 1) + 1 = Top.at
           /\ Top.max \in Nat /\ Top.fn \in {"params", "array", "struct"}
           /\ Says(values, Top.made, Top.max + 1)
                  = PartOf(Top.fn, of[Top.elem].children, Top.at - 1, Meaning[Top.max])
           /\ Says(values, returned, Top.max)
                  = Meaning[Top.max][Inner(Top.fn, of[Top.elem].children[Top.at])]
           /\ ChildFits(Top.fn, of[Top.elem].children[Top.at])
           /\ Halfway(of, values, Top)
           /\ fault = FALSE
<1>1. /\ Len(frames) \in Nat \ {0} /\ Top = frames[Len(frames)]
      /\ Calling(of, values, frames, goal)
      /\ Halfway(of, values, Top)
      /\ WishAt(of, frames, Len(frames), goal)
             = Wish(Meaning[Top.max][Slot(of, Top)], Top.max)
      /\ Top.max \in Nat /\ Top.at \in Nat \ {0}
      /\ Top.fn \in {"params", "array", "struct"}
      /\ Len(of[Top.elem].children) = ChildCount(Top.elem)
      /\ DOMAIN of[Top.elem].children = 1..ChildCount(Top.elem)
      /\ ChildCount(Top.elem) \in Nat
  BY AtTopHas
<1>2. /\ ConversionOK /\ frames # <<>> /\ releasing = <<>> /\ Top = Last(frames) /\ ~fault
  BY TopIs
<1>3. WellCounted(values, frames, <<>>, returned) /\ fault = FALSE
  BY <1>2 DEF ConversionOK
<1>4. Delivered(of, values, frames, returned, goal)
  BY DEF AtTop, Meant
<1>5. Busy(of, Top)
      /\ Says(values, returned, Top.max) = Meaning[Top.max][Slot(of, Top)]
  BY <1>1, <1>2, <1>4 DEF Delivered, Wish
<1>6. Says(values, Top.made, Top.max + 1)
          = PartOf(Top.fn, of[Top.elem].children, Top.at - 1, Meaning[Top.max])
  BY <1>1 DEF Halfway
<1>7. Top.at - 1 \in Nat /\ (Top.at - 1) + 1 = Top.at
  BY <1>1
<1>8. QED
  BY ONLY <1>1, <1>2, <1>3, <1>4, <1>5, <1>6, <1>7 DEF Busy, Slot

LEMMA AppendItemMeans ==
    ASSUME IInv, MeaningInv, AppendItem
    PROVE  MeaningInv'
<1>1. Converting /\ returned # None /\ Top.fn \in {"params", "array"}
  BY DEF AppendItem
<1>2. ~ranOut' => ~ranOut
  BY DEF AppendItem, NoRoom, RunsOut, Advance, flags
<1>3. ASSUME NEW of, NEW goal, AtTop(of, goal), ~ranOut'
      PROVE  Meant(of, values', frames', returned', fault', goal)
  <2>1. PICK f : f = Top
    OBVIOUS
  <2>2. PICK w : w = returned
    OBVIOUS
  <2>3. PICK m : m = f.made
    OBVIOUS
  <2>4. /\ WellCounted(values, frames, <<>>, w) /\ frames # <<>> /\ f = Last(frames)
        /\ Calling(of, values, frames, goal) /\ Delivered(of, values, frames, w, goal)
        /\ Len(of[f.elem].children) \in Nat
        /\ DOMAIN of[f.elem].children = 1..Len(of[f.elem].children)
        /\ f.at \in Nat \ {0} /\ f.at - 1 \in Nat /\ (f.at - 1) + 1 = f.at
        /\ f.max \in Nat
        /\ Says(values, f.made, f.max + 1)
               = PartOf(f.fn, of[f.elem].children, f.at - 1, Meaning[f.max])
        /\ Says(values, w, f.max)
               = Meaning[f.max][Inner(f.fn, of[f.elem].children[f.at])]
        /\ fault = FALSE
    BY ONLY <1>1, <1>3, <2>1, <2>2, IInv, GivenIs
  <2>5. PICK D : D = Others(values, m)
    OBVIOUS
  <2>6. /\ HeapOK(values) /\ m \in DOMAIN values
        /\ \A u \in DOMAIN values : values[u].items \in Seq(D)
        /\ w = None \/ w \in D
        /\ FrameOK(values, f, w # None)
    BY ONLY <2>3, <2>4, <2>5, TopAlone
  <2>7. w # None /\ f.fn # "struct"
    BY <1>1, <2>1, <2>2
  <2>8. /\ values' = [IncRef(values, w) EXCEPT ![m].items = Append(@, w)]
        /\ Advance
    BY <1>3, <2>1, <2>2, <2>3 DEF AppendItem, NoRoom, RunsOut
  <2>9. /\ MovesOn(frames, frames') /\ returned' = None /\ UNCHANGED flags
    BY ONLY <1>1, <2>8, IInv, AdvanceMoves
  <2>10. PICK heap1 : heap1 = IncRef(values, w)
    OBVIOUS
  <2>11. HeapOK(heap1) /\ Alike(values, heap1)
    <3>1. w \in DOMAIN values
      BY <2>5, <2>6, <2>7 DEF Others
    <3>2. QED
      BY ONLY <2>6, <2>10, <3>1, IncRefIs
  <2>12. PICK items : items = Append(values[m].items, w)
    OBVIOUS
  <2>13. items \in Seq(D)
    BY <2>6, <2>7, <2>12
  <2>14. PICK heap2 : heap2 = values'
    OBVIOUS
  <2>15. heap2 = [heap1 EXCEPT ![m].items = items]
    <3>1. heap1[m].items = values[m].items
      BY <2>6, <2>11 DEF Alike
    <3>2. heap2 = [heap1 EXCEPT ![m].items = Append(heap1[m].items, w)]
      BY ONLY <2>8, <2>10, <2>14
    <3>3. QED
      BY ONLY <2>12, <3>1, <3>2
  <2>16. Filling(values, heap2, D, m) /\ heap2[m].items = items
    <3>1. Restocked(values, heap1, m, items, heap2)
      BY ONLY <2>11, <2>15 DEF Restocked
    <3>2. QED
      BY ONLY <2>5, <2>6, <2>13, <3>1, FillingIs
  <2>17. values[m].kind = "array"
    BY <2>3, <2>6, <2>7 DEF FrameOK
  <2>18. Says(heap2, m, f.max + 1)
             = PartOf(f.fn, of[f.elem].children, f.at, Meaning[f.max])
    <3>1. PICK n : n = f.at - 1
      OBVIOUS
    <3>2. PICK children : children = of[f.elem].children
      OBVIOUS
    <3>3. PICK below : below = Meaning[f.max]
      OBVIOUS
    <3>4. PICK d : d = f.max
      OBVIOUS
    <3>5. PICK fn : fn = f.fn
      BY SMTT(30)
    <3>6. /\ n \in Nat /\ n + 1 = f.at /\ d \in Nat /\ fn # "struct" /\ w \in D
          /\ Says(values, m, d + 1) = PartOf(fn, children, n, below)
          /\ Says(values, w, d) = below[Inner(fn, children[n + 1])]
          /\ heap2[m].items = Append(values[m].items, w)
      BY <2>3, <2>4, <2>6, <2>7, <2>12, <2>16, <3>1, <3>2, <3>3, <3>4, <3>5
    <3>7. Says(heap2, m, d + 1) = PartOf(fn, children, n + 1, below)
      BY ONLY <2>16, <2>17, <3>6, ArrayMore
    <3>8. QED
      BY ONLY <3>2, <3>3, <3>4, <3>5, <3>6, <3>7
  <2>19. PICK gs : gs = frames'
    OBVIOUS
  <2>20. /\ Filling(values, heap2, Others(values, f.made), f.made) /\ MovesOn(frames, gs)
         /\ Says(heap2, f.made, f.max + 1)
                = PartOf(f.fn, of[f.elem].children, f.at, Meaning[f.max])
         /\ f.fn = "struct" => KeysDiffer(heap2, f.made)
    BY <2>3, <2>5, <2>7, <2>9, <2>16, <2>18, <2>19
  <2>21. Meant(of, heap2, gs, None, FALSE, goal)
    BY ONLY <2>4, <2>7, <2>20, FilledMeant
  <2>22. QED
    BY <2>4, <2>9, <2>14, <2>19, <2>21 DEF flags
<1>4. QED
  BY ONLY <1>1, <1>2, <1>3, IInv, MeaningInv, ConvertingMeans

-----------------------------------------------------------------------------
(* What is returned becomes a member.                                      *)

(* The key is that of the member that the frame is at.                     *)
LEMMA KeyIs ==
    ASSUME IInv, Converting, returned # None, Top.fn = "struct",
           NEW of, NEW goal, AtTop(of, goal), Top.key # None
    PROVE  values[Top.key].text = KeyOf(of[Top.elem].children[Top.at])
<1>1. ~AllConverted
  BY TopIs
<1>2. /\ Item \in DOMAIN nodes /\ of[Top.elem].children[Top.at] = of[Item]
      /\ IsTree(nodes) /\ Halfway(of, values, Top)
  BY <1>1, AtTopHas
<1>3. ChildFits("struct", of[Item])
  BY <1>2, GivenIs
<1>4. Built(of)
  BY DEF AtTop
<1>5. IsMember(Item) /\ Named(Item, "value") # {}
  BY ONLY <1>2, <1>3, <1>4, MemberIs
<1>6. nodes[ChildByName(Item, "name")].text = KeyOf(of[Item])
  BY ONLY <1>2, <1>4, <1>5, MemberIs
<1>7. values[Top.key].text = nodes[ChildByName(Item, "name")].text
  BY <1>2 DEF Halfway, KeyMade, Item
<1>8. QED
  BY <1>2, <1>6, <1>7

(* find_member looks at all the keys.                                      *)
LEMMA FoundMembers ==
    ASSUME NEW m, NEW k, NEW h \in Nat, NEW D, values[m].items \in Seq(D),
           Len(values[m].items) = 2 * h
    PROVE  /\ MembersNamed(m, k) = {} =>
                  \A p \in 1..h : KeysIn(values, m)[p] # values[k].text
           /\ \A i \in MembersNamed(m, k) :
                  \E q \in 1..h : /\ i = 2 * q - 1 /\ i + 1 = 2 * q
                                  /\ KeysIn(values, m)[q] = values[k].text
<1>1. PICK items : items = values[m].items
  OBVIOUS
<1>2. /\ items \in Seq(D) /\ Len(items) \div 2 = h
      /\ DOMAIN items = 1..(2 * h)
      /\ \A p \in 1..h : 2 * p - 1 \in 1..(2 * h)
  BY <1>1, PairedItems
<1>3. \A p \in 1..h : KeysIn(values, m)[p] = values[items[2 * p - 1]].text
  BY <1>1, <1>2 DEF KeysIn
<1>4. MembersNamed(m, k)
          = {i \in 1..(2 * h) : i % 2 = 1 /\ values[items[i]].text = values[k].text}
  BY <1>1, <1>2 DEF MembersNamed
<1>5. ASSUME MembersNamed(m, k) = {}, NEW p \in 1..h
      PROVE  KeysIn(values, m)[p] # values[k].text
  <2>1. (2 * p - 1) % 2 = 1
    OBVIOUS
  <2>2. QED
    BY <1>2, <1>3, <1>4, <1>5, <2>1
<1>6. ASSUME NEW i \in MembersNamed(m, k)
      PROVE  \E q \in 1..h : /\ i = 2 * q - 1 /\ i + 1 = 2 * q
                             /\ KeysIn(values, m)[q] = values[k].text
  <2>1. i \in 1..(2 * h) /\ i % 2 = 1 /\ values[items[i]].text = values[k].text
    BY <1>4
  <2>2. PICK q \in Nat : i = 2 * q - 1 /\ i + 1 = 2 * q /\ q \in 1..h
    <3>1. (i + 1) \div 2 \in Nat /\ i = 2 * ((i + 1) \div 2) - 1
          /\ (i + 1) \div 2 \in 1..h
      BY <2>1
    <3>2. QED
      BY <2>1, <3>1
  <2>3. KeysIn(values, m)[q] = values[k].text
    BY <1>3, <2>1, <2>2
  <2>4. QED
    BY <2>2, <2>3
<1>7. QED
  BY <1>5, <1>6

LEMMA SetMemberMeans ==
    ASSUME IInv, MeaningInv, SetMember
    PROVE  MeaningInv'
<1>1. Converting /\ returned # None /\ Top.fn = "struct"
  BY DEF SetMember
<1>2. ~ranOut' => ~ranOut
  BY DEF SetMember, NoRoom, RunsOut, Advance, flags
<1>3. ASSUME NEW of, NEW goal, AtTop(of, goal), ~ranOut'
      PROVE  Meant(of, values', frames', returned', fault', goal)
  <2>1. PICK f : f = Top
    OBVIOUS
  <2>2. PICK w : w = returned
    OBVIOUS
  <2>3. PICK m : m = f.made
    OBVIOUS
  <2>4. /\ WellCounted(values, frames, <<>>, w) /\ frames # <<>> /\ f = Last(frames)
        /\ Calling(of, values, frames, goal) /\ Delivered(of, values, frames, w, goal)
        /\ Len(of[f.elem].children) \in Nat
        /\ DOMAIN of[f.elem].children = 1..Len(of[f.elem].children)
        /\ f.at \in Nat \ {0} /\ f.at - 1 \in Nat /\ (f.at - 1) + 1 = f.at
        /\ f.max \in Nat
        /\ Says(values, f.made, f.max + 1)
               = PartOf(f.fn, of[f.elem].children, f.at - 1, Meaning[f.max])
        /\ Says(values, w, f.max)
               = Meaning[f.max][Inner(f.fn, of[f.elem].children[f.at])]
        /\ Halfway(of, values, f)
        /\ fault = FALSE
    BY ONLY <1>1, <1>3, <2>1, <2>2, IInv, GivenIs
  <2>5. PICK D : D = Others(values, m)
    OBVIOUS
  <2>6. /\ HeapOK(values) /\ m \in DOMAIN values
        /\ \A u \in DOMAIN values : values[u].items \in Seq(D)
        /\ w = None \/ w \in D
        /\ f.key = None \/ f.key \in D
        /\ FrameOK(values, f, w # None)
    BY ONLY <2>3, <2>4, <2>5, TopAlone
  <2>7. PICK k : k = f.key
    OBVIOUS
  <2>8. /\ w # None /\ f.fn = "struct" /\ k # None
        /\ values[m].kind = "struct"
    BY <1>1, <2>1, <2>2, <2>3, <2>6, <2>7 DEF FrameOK
  <2>9. w \in D /\ k \in D /\ w \in DOMAIN values /\ k \in DOMAIN values
    BY <2>5, <2>6, <2>7, <2>8 DEF Others
  <2>10. PICK h \in Nat : Len(values[m].items) = 2 * h
    BY <2>6, <2>8 DEF HeapOK
  <2>11. PICK n : n = f.at - 1
    OBVIOUS
  <2>12. PICK children : children = of[f.elem].children
    OBVIOUS
  <2>13. PICK below : below = Meaning[f.max]
    OBVIOUS
  <2>14. PICK d : d = f.max
    OBVIOUS
  <2>15. n \in Nat /\ n + 1 = f.at /\ d \in Nat
    BY <2>4, <2>11, <2>14
  <2>16. Joins(values, m, k, w, d, children, n, below)
    <3>1. values[k].text = KeyOf(children[n + 1])
      <4>1. Top.key # None
        BY <2>1, <2>7, <2>8
      <4>2. values[Top.key].text = KeyOf(of[Top.elem].children[Top.at])
        BY ONLY <1>1, <1>3, <4>1, IInv, KeyIs
      <4>3. QED
        BY <2>1, <2>7, <2>12, <2>15, <4>2
    <3>2. KeysDiffer(values, m)
      BY <2>3, <2>4, <2>8 DEF Halfway
    <3>3. QED
      BY <2>3, <2>4, <2>8, <2>11, <2>12, <2>13, <2>14, <2>15, <3>1, <3>2 DEF Joins
  <2>17. MembersNamed(Top.made, Top.key) = MembersNamed(m, k)
    BY <2>1, <2>3, <2>7
  <2>18. /\ MembersNamed(m, k) = {} =>
                \A p \in 1..h : KeysIn(values, m)[p] # values[k].text
         /\ \A i \in MembersNamed(m, k) :
                \E q \in 1..h : /\ i = 2 * q - 1 /\ i + 1 = 2 * q
                                /\ KeysIn(values, m)[q] = values[k].text
    <3>1. values[m].items \in Seq(D)
      BY <2>6
    <3>2. QED
      BY ONLY <2>10, <3>1, FoundMembers
  <2>19. PICK heap2 : heap2 = values'
    OBVIOUS
  <2>20. SUFFICES
           /\ Filling(values, heap2, D, m) /\ Advance
           /\ Says(heap2, m, d + 1) = PartOf("struct", children, n + 1, below)
           /\ KeysDiffer(heap2, m)
    <3>1. /\ MovesOn(frames, frames') /\ returned' = None /\ UNCHANGED flags
      BY ONLY <1>1, <2>20, IInv, AdvanceMoves
    <3>2. PICK gs : gs = frames'
      OBVIOUS
    <3>3. /\ Filling(values, heap2, Others(values, f.made), f.made) /\ MovesOn(frames, gs)
          /\ Says(heap2, f.made, f.max + 1)
                 = PartOf(f.fn, of[f.elem].children, f.at, Meaning[f.max])
          /\ f.fn = "struct" => KeysDiffer(heap2, f.made)
      BY <2>3, <2>5, <2>8, <2>12, <2>13, <2>14, <2>15, <2>20, <3>1, <3>2
    <3>4. Meant(of, heap2, gs, None, FALSE, goal)
      BY ONLY <2>4, <2>8, <3>3, FilledMeant
    <3>5. QED
      BY <2>4, <2>19, <3>1, <3>2, <3>4 DEF flags
  <2>21. CASE /\ MembersNamed(m, k) = {}
              /\ values' = [IncRef(IncRef(values, k), w)
                                EXCEPT ![m].items = @ \o <<k, w>>]
              /\ Advance
    <3>1. PICK heap1 : heap1 = IncRef(IncRef(values, k), w)
      OBVIOUS
    <3>2. HeapOK(heap1) /\ Alike(values, heap1)
      <4>1. PICK heap0 : heap0 = IncRef(values, k)
        OBVIOUS
      <4>2. HeapOK(heap0) /\ Alike(values, heap0)
        BY ONLY <2>6, <2>9, <4>1, IncRefIs
      <4>3. w \in DOMAIN heap0 /\ heap1 = IncRef(heap0, w)
        BY <2>9, <3>1, <4>1, <4>2 DEF Alike
      <4>4. HeapOK(heap1) /\ Alike(heap0, heap1)
        BY ONLY <4>2, <4>3, IncRefIs
      <4>5. QED
        BY <4>2, <4>4 DEF Alike
    <3>3. PICK items : items = values[m].items \o <<k, w>>
      OBVIOUS
    <3>4. items \in Seq(D)
      <4>1. <<k, w>> \in Seq(D)
        BY <2>9
      <4>2. QED
        BY <2>6, <3>3, <4>1
    <3>5. heap2 = [heap1 EXCEPT ![m].items = items]
      <4>1. heap1[m].items = values[m].items
        BY <2>6, <3>2 DEF Alike
      <4>2. heap2 = [heap1 EXCEPT ![m].items = heap1[m].items \o <<k, w>>]
        BY ONLY <2>19, <2>21, <3>1
      <4>3. QED
        BY ONLY <3>3, <4>1, <4>2
    <3>6. Filling(values, heap2, D, m) /\ heap2[m].items = items
      <4>1. Restocked(values, heap1, m, items, heap2)
        BY ONLY <3>2, <3>5 DEF Restocked
      <4>2. QED
        BY ONLY <2>5, <2>6, <3>4, <4>1, FillingIs
    <3>7. heap2[m].items = values[m].items \o <<k, w>>
      BY <3>3, <3>6
    <3>8. \A p \in 1..h : KeysIn(values, m)[p] # values[k].text
      BY <2>18, <2>21
    <3>9. /\ Says(heap2, m, d + 1) = PartOf("struct", children, n + 1, below)
          /\ KeysDiffer(heap2, m)
      BY ONLY ZenonT(40), <2>9, <2>10, <2>15, <2>16, <3>6, <3>7, <3>8, StructMore
    <3>10. QED
      BY <2>21, <3>6, <3>9
  <2>22. ASSUME NEW i \in MembersNamed(m, k),
                values' = [IncRef(values, w) EXCEPT ![m].items[i + 1] = w],
                Advance
         PROVE  /\ Filling(values, heap2, D, m) /\ Advance
                /\ Says(heap2, m, d + 1) = PartOf("struct", children, n + 1, below)
                /\ KeysDiffer(heap2, m)
    <3>1. PICK q \in 1..h : /\ i = 2 * q - 1 /\ i + 1 = 2 * q
                            /\ KeysIn(values, m)[q] = values[k].text
      BY <2>18
    <3>2. PICK heap1 : heap1 = IncRef(values, w)
      OBVIOUS
    <3>3. HeapOK(heap1) /\ Alike(values, heap1)
      BY ONLY <2>6, <2>9, <3>2, IncRefIs
    <3>4. PICK items : items = [values[m].items EXCEPT ![2 * q] = w]
      OBVIOUS
    <3>5. items \in Seq(D)
      <4>1. values[m].items \in Seq(D)
        BY <2>6
      <4>2. PICK s \in Seq(D) : s = values[m].items
        BY <4>1
      <4>3. [s EXCEPT ![2 * q] = w] \in Seq(D)
        <5>1. [x \in 1..Len(s) |-> IF x = 2 * q THEN w ELSE s[x]] \in Seq(D)
          BY ONLY <2>9, s \in Seq(D)
        <5>2. [s EXCEPT ![2 * q] = w]
                  = [x \in 1..Len(s) |-> IF x = 2 * q THEN w ELSE s[x]]
          BY ONLY s \in Seq(D)
        <5>3. QED
          BY ONLY <5>1, <5>2
      <4>4. QED
        BY ONLY <3>4, <4>2, <4>3
    <3>6. heap2 = [heap1 EXCEPT ![m].items = items]
      <4>1. heap1[m].items = values[m].items
        BY <2>6, <3>3 DEF Alike
      <4>2. heap2 = [heap1 EXCEPT ![m].items = [heap1[m].items EXCEPT ![2 * q] = w]]
        BY ONLY <2>19, <2>22, <3>1, <3>2
      <4>3. QED
        BY ONLY <3>4, <4>1, <4>2
    <3>7. Filling(values, heap2, D, m) /\ heap2[m].items = items
      <4>1. Restocked(values, heap1, m, items, heap2)
        BY ONLY <3>3, <3>6 DEF Restocked
      <4>2. QED
        BY ONLY <2>5, <2>6, <3>5, <4>1, FillingIs
    <3>8. heap2[m].items = [values[m].items EXCEPT ![2 * q] = w]
      BY <3>4, <3>7
    <3>9. /\ Says(heap2, m, d + 1) = PartOf("struct", children, n + 1, below)
          /\ KeysDiffer(heap2, m)
      BY ONLY <2>9, <2>10, <2>15, <2>16, <3>1, <3>7, <3>8, StructOther
    <3>10. QED
      BY <2>22, <3>7, <3>9
  <2>23. \/ /\ MembersNamed(m, k) = {}
            /\ values' = [IncRef(IncRef(values, k), w)
                              EXCEPT ![m].items = @ \o <<k, w>>]
            /\ Advance
         \/ \E i \in MembersNamed(m, k) :
                /\ values' = [IncRef(values, w) EXCEPT ![m].items[i + 1] = w]
                /\ Advance
    <3>1. ~NoRoom
      BY <1>3 DEF NoRoom, RunsOut
    <3>2. QED
      BY <2>1, <2>2, <2>3, <2>7, <2>17, <3>1 DEF SetMember
  <2>24. QED
    BY <2>21, <2>22, <2>23
<1>4. QED
  BY ONLY <1>1, <1>2, <1>3, IInv, MeaningInv, ConvertingMeans

-----------------------------------------------------------------------------
(* Frames end.                                                             *)

LEMMA ReturnMadeMeans ==
    ASSUME IInv, MeaningInv, ReturnMade
    PROVE  MeaningInv'
<1>1. /\ Converting /\ returned = None /\ Fits /\ AllConverted
      /\ returned' = Top.made /\ frames' = Front(frames)
      /\ UNCHANGED <<values, releasing, flags>>
  BY DEF ReturnMade
<1>2. ~ranOut' => ~ranOut
  BY <1>1 DEF flags
<1>3. ASSUME NEW of, NEW goal, AtTop(of, goal), ~ranOut'
      PROVE  Meant(of, values', frames', returned', fault', goal)
  <2>1. /\ Halfway(of, values, Top)
        /\ Top.at \in Nat \ {0} /\ Top.elem \in DOMAIN nodes
        /\ Top.fn \in {"params", "array", "struct"}
        /\ Len(of[Top.elem].children) = ChildCount(Top.elem)
        /\ DOMAIN of[Top.elem].children = 1..ChildCount(Top.elem)
        /\ ChildCount(Top.elem) \in Nat
        /\ nodes[Top.elem].name = of[Top.elem].name
        /\ Calling(of, values, frames, goal)
    BY <1>1, <1>3, AtTopHas
  <2>2. /\ frames # <<>> /\ frames \in Seq(AnyFrame) /\ Top = Last(frames) /\ ~fault
        /\ fault \in BOOLEAN
    BY <1>1, TopIs DEF ConversionOK
  <2>3. PICK gs : gs = Front(frames)
    OBVIOUS
  <2>4. /\ Calling(of, values, gs, goal)
        /\ WishAt(of, gs, Len(gs), goal) = Wish(Target(of, Top), Top.max + 1)
        /\ gs # <<>> => Busy(of, gs[Len(gs)])
    BY ONLY <2>1, <2>2, <2>3, CallingFront
  <2>5. Top.at = ChildCount(Top.elem) + 1 /\ Top.at - 1 = ChildCount(Top.elem)
    BY <1>1, <2>1 DEF AllConverted, Halfway
  <2>6. Target(of, Top)
            = PartOf(Top.fn, of[Top.elem].children, ChildCount(Top.elem), Meaning[Top.max])
    <3>1. of[Top.elem].name = Heading(Top.fn)
      BY <1>1, <2>1 DEF Halfway, Fits, Heading
    <3>2. \A i \in DOMAIN of[Top.elem].children :
              GoodChild(Top.fn, of[Top.elem].children[i], Meaning[Top.max])
      BY <2>1, <2>5 DEF Halfway
    <3>3. QED
      BY <2>1, <3>1, <3>2, WholeIs DEF Target
  <2>7. Target(of, Top) # NoMeaning
    BY <2>6, PartMeans
  <2>8. Says(values, Top.made, Top.max + 1) = Target(of, Top)
    BY <2>1, <2>5, <2>6 DEF Halfway
  <2>9. Delivered(of, values, gs, Top.made, goal)
    BY <2>4, <2>7, <2>8 DEF Delivered, Wish
  <2>10. Meant(of, values, gs, Top.made, FALSE, goal)
    BY <2>4, <2>9 DEF Meant
  <2>11. QED
    BY <1>1, <2>2, <2>3, <2>10 DEF flags
<1>4. QED
  BY ONLY <1>1, <1>2, <1>3, IInv, MeaningInv, ConvertingMeans

LEMMA UnwindMeans ==
    ASSUME IInv, MeaningInv, Unwind
    PROVE  MeaningInv'
<1>1. /\ pc = "convert" /\ pc' = pc /\ fault /\ frames # <<>>
      /\ frames' = Front(frames)
      /\ UNCHANGED <<document, values, returned, flags, outVars>> /\ nodes' = nodes
  BY DEF Unwind, treeVars
<1>2. ~ranOut' => ~ranOut
  BY <1>1 DEF flags
<1>3. returned = None /\ frames \in Seq(AnyFrame)
  <2>1. ConversionOK
    BY <1>1, ConversionHas
  <2>2. QED
    BY <1>1, <2>1, SoundHas DEF ConversionOK
<1>4. ASSUME NEW of, NEW goal, AtTop(of, goal), ~ranOut'
      PROVE  Meant(of, values', frames', returned', fault', goal)
  <2>1. Calling(of, values, frames, goal) /\ Hopeless(of, frames, goal)
    BY <1>1, <1>4 DEF AtTop, Meant
  <2>2. PICK gs : gs = Front(frames)
    OBVIOUS
  <2>3. PICK f : f = Last(frames)
    OBVIOUS
  <2>4. /\ Calling(of, values, gs, goal)
        /\ WishAt(of, gs, Len(gs), goal) = Wish(Target(of, f), f.max + 1)
        /\ gs # <<>> => Busy(of, gs[Len(gs)])
    BY ONLY <1>1, <1>3, <2>1, <2>2, <2>3, CallingFront
  <2>5. Target(of, f) = NoMeaning
    <3>1. f = frames[Len(frames)]
      BY ONLY <1>1, <1>3, <2>3, LastIs
    <3>2. QED
      BY <1>1, <2>1, <3>1 DEF Hopeless
  <2>6. WishAt(of, gs, Len(gs), goal).means = NoMeaning
    BY <2>4, <2>5 DEF Wish
  <2>7. gs \in Seq(AnyFrame)
    BY ONLY <1>1, <1>3, <2>2, FrontIs
  <2>8. Hopeless(of, gs, goal)
    BY ONLY <2>4, <2>6, <2>7, HopelessBelow
  <2>9. Meant(of, values, gs, None, fault, goal)
    BY <2>4, <2>8 DEF Meant, Delivered
  <2>10. QED
    BY <1>1, <1>3, <2>2, <2>9 DEF flags
<1>5. QED
  BY ONLY <1>1, <1>2, <1>4, MeaningInv, StepMeans DEF outVars

LEMMA ConvertedMeans ==
    ASSUME IInv, MeaningInv, Converted
    PROVE  MeaningInv'
<1>1. /\ pc = "convert" /\ pc' = "ending" /\ nodes' = nodes
      /\ UNCHANGED <<document, values, frames, returned, fault, ranOut, methodName>>
  BY DEF Converted, treeVars, valueVars, flags, outVars
<1>2. ASSUME NEW of, NEW goal, AtTop(of, goal)
      PROVE  Meant(of, values', frames', returned', fault', goal)
  BY <1>1, <1>2 DEF AtTop
<1>3. QED
  BY ONLY <1>1, <1>2, MeaningInv, StepMeans

-----------------------------------------------------------------------------
(* Values are released that nothing is said of.                            *)

LEMMA AnsweredSame ==
    ASSUME NEW D, SameIn(values, values', D),
           result.kind \in {"call", "response"} => result.value \in D,
           UNCHANGED <<document, result, methodName>>, Answered
    PROVE  Answered'
<1>1. PICK heap2 : heap2 = values'
  OBVIOUS
<1>2. \A n \in Nat : \A v \in D : Says(heap2, v, n) = Says(values, v, n)
  <2>1. SameIn(values, heap2, D)
    BY <1>1
  <2>2. QED
    BY ONLY <2>1, SaysSame
<1>3. NestingLimit \in Nat /\ NestingLimit + 1 \in Nat
  BY LimitAssumption
<1>4. result.kind \in {"call", "response"} =>
          /\ Says(heap2, result.value, NestingLimit) = Says(values, result.value, NestingLimit)
          /\ Says(heap2, result.value, NestingLimit + 1)
                 = Says(values, result.value, NestingLimit + 1)
  BY <1>2, <1>3
<1>5. QED
  BY ONLY <1>1, <1>4, Answered, UNCHANGED <<document, result, methodName>> DEF Answered

(* What of the heap there still is says the same.                          *)
LEMMA ReleaseSays ==
    ASSUME IInv, Release
    PROVE  \E D : /\ SameIn(values, values', D)
                  /\ D = DOMAIN values'
<1>1. PICK v : v = Head(releasing)
  OBVIOUS
<1>2. releasing # <<>> /\ WellCounted(values, frames, releasing, Outcome)
  BY DEF Release, IInv, ValuesInv
<1>3. HeapOK(values) /\ releasing \in Seq(DOMAIN values)
  BY <1>2, SoundHas
<1>4. v \in DOMAIN values
  BY <1>1, <1>2, <1>3
<1>5. PICK heap2 : heap2 = values'
  OBVIOUS
<1>6. values[v].refs \in Nat
  BY <1>3, <1>4, CellsAre
<1>7. CASE /\ values[v].refs > 1
           /\ values' = [values EXCEPT ![v].refs = @ - 1]
  <2>1. PICK refs : refs = values[v].refs - 1
    OBVIOUS
  <2>2. refs \in Nat \ {0}
    BY <1>6, <1>7, <2>1
  <2>3. heap2 = [values EXCEPT ![v].refs = refs]
    BY <1>5, <1>7, <2>1
  <2>4. Recounted(values, v, refs, heap2)
    BY ONLY <1>4, <2>2, <2>3 DEF Recounted
  <2>5. Alike(values, heap2)
    BY ONLY <1>3, <2>4, HeapRecounted
  <2>6. SameIn(values, heap2, DOMAIN values) /\ DOMAIN heap2 = DOMAIN values
    BY <1>3, <2>5, AlikeSays DEF Alike
  <2>7. QED
    BY <1>5, <2>6
<1>8. CASE /\ values[v].refs = 1
           /\ values' = Without(values, {v})
  <2>1. CellDropped(values, v, heap2)
    <3>1. PlaceCount(ItemsOf(values), v) = 0
      <4>1. values[v].refs = PlaceCount(ItemsOf(values), v) + Count(Mades(frames), v)
                             + Count(Keys(frames), v) + Count(releasing, v) + OneIf(Outcome = v)
        BY <1>2, <1>4, SoundHas
      <4>2. /\ PlaceCount(ItemsOf(values), v) \in Nat
            /\ Count(Mades(frames), v) \in Nat /\ Count(Keys(frames), v) \in Nat
            /\ Count(releasing, v) \in Nat /\ OneIf(Outcome = v) \in Nat
        <5>1. frames \in Seq(AnyFrame)
          BY <1>2, SoundHas
        <5>2. QED
          BY ONLY <1>3, <5>1, ReferParts
      <4>3. Count(releasing, v) # 0
        <5>1. 1 \in DOMAIN releasing /\ releasing[1] = v
          BY <1>1, <1>2, <1>3
        <5>2. QED
          BY ONLY <1>3, <5>1, CountIn
      <4>4. QED
        BY ONLY <1>8, <4>1, <4>2, <4>3
    <3>2. heap2 = Without(values, {v})
      BY <1>5, <1>8
    <3>3. QED
      BY ONLY <1>3, <1>4, <3>1, <3>2, HeapDropped
  <2>2. SameIn(values, heap2, DOMAIN heap2)
    BY <2>1, DroppedSays
  <2>3. QED
    BY <1>5, <2>2
<1>9. QED
  BY <1>1, <1>7, <1>8 DEF Release

LEMMA ReleaseMeans ==
    ASSUME IInv, MeaningInv, Release
    PROVE  MeaningInv'
<1>1. PICK D : SameIn(values, values', D) /\ D = DOMAIN values'
  BY ReleaseSays
<1>2. /\ releasing # <<>> /\ nodes' = nodes /\ reading' = reading
      /\ UNCHANGED <<document, pc, frames, returned, fault, ranOut, methodName, result>>
  BY DEF Release, treeVars, flags, outVars
<1>3. WellCounted(values', frames', releasing', Outcome') /\ ValuesInv
  BY ReleaseKeepsValues DEF ValuesInv, IInv
<1>4. pc \in {"convert", "done"}
  BY <1>2 DEF IInv, ValuesInv, TreeInv
<1>5. CASE pc = "convert"
  <2>1. Outcome' = returned /\ frames' = frames
    BY <1>2, <1>5 DEF Outcome
  <2>2. AllIn(D, frames, returned)
    <3>1. AllIn(DOMAIN values', frames', Outcome')
      <4>1. PICK heap2, fs2, rel2, out2 :
                heap2 = values' /\ fs2 = frames' /\ rel2 = releasing' /\ out2 = Outcome'
        OBVIOUS
      <4>2. WellCounted(heap2, fs2, rel2, out2)
        BY <1>3, <4>1
      <4>3. AllIn(DOMAIN heap2, fs2, out2)
        BY ONLY <4>2, SoundIn
      <4>4. QED
        BY <4>1, <4>3
    <3>2. QED
      BY <1>1, <2>1, <3>1
  <2>3. ASSUME NEW of, NEW goal, AtTop(of, goal)
        PROVE  Meant(of, values', frames', returned', fault', goal)
    <3>1. goal.room \in Nat /\ Meant(of, values, frames, returned, fault, goal)
      BY <2>3 DEF AtTop, GoalIs
    <3>2. PICK heap2 : heap2 = values'
      OBVIOUS
    <3>3. SameIn(values, heap2, D)
      BY <1>1, <3>2
    <3>4. Meant(of, heap2, frames, returned, fault, goal)
      BY ONLY <2>2, <3>1, <3>3, MeantSame
    <3>5. QED
      BY <1>2, <3>2, <3>4
  <2>4. QED
    BY ONLY <1>2, <1>5, <2>3, MeaningInv, StepMeans
<1>6. CASE pc = "done"
  <2>1. SUFFICES ASSUME ~ranOut', AllRead', ~Oversized'
                 PROVE  /\ Answered'
                        /\ result'.kind \in {"call", "response"} =>
                               result'.value \in DOMAIN values'
    BY <1>2, <1>6 DEF MeaningInv
  <2>2. /\ Answered
        /\ result.kind \in {"call", "response"} => result.value \in DOMAIN values
    <3>1. ~ranOut /\ AllRead /\ ~Oversized
      BY <1>2, <2>1 DEF AllRead, Oversized
    <3>2. QED
      BY <1>6, <3>1 DEF MeaningInv
  <2>3. result.kind \in {"call", "response"} => result.value \in D
    <3>1. SUFFICES ASSUME result.kind \in {"call", "response"}
                   PROVE  result.value \in D
      OBVIOUS
    <3>2. Outcome' = result.value
      BY <1>2, <1>6, <3>1 DEF Outcome
    <3>3. Outcome' \in DOMAIN values' \union {None}
      BY <1>3 DEF WellCounted
    <3>4. result.value # None
      <4>1. HeapOK(values)
        BY <1>3, SoundHas DEF ValuesInv
      <4>2. None \notin DOMAIN values
        BY <4>1, CellsAre
      <4>3. QED
        BY <2>2, <3>1, <4>2
    <3>5. QED
      BY <1>1, <3>2, <3>3, <3>4
  <2>4. Answered'
    BY ONLY <1>1, <1>2, <2>2, <2>3, AnsweredSame
  <2>5. QED
    BY <1>1, <1>2, <2>3, <2>4
<1>7. QED
  BY <1>4, <1>5, <1>6

-----------------------------------------------------------------------------
(* The root and the call's header.                                         *)

LEMMA ParamsAre ==
    ASSUME NEW element
    PROVE  WholeOf("params", element, Meaning[NestingLimit]) =
               IF IsParams(element) THEN ParamsOf(element) ELSE NoMeaning
<1>1. \A child : GoodChild("params", child, Meaning[NestingLimit]) <=>
                     /\ child.name = "param" /\ Len(child.children) = 1
                     /\ MeaningHere(child.children[1]) # NoMeaning
  BY Zenon DEF GoodChild, ChildFits, Inner, MeaningHere
<1>2. /\ element.name = Heading("params")
      /\ \A i \in DOMAIN element.children :
             GoodChild("params", element.children[i], Meaning[NestingLimit])
      <=> IsParams(element)
  BY <1>1 DEF IsParams, Heading
<1>3. ASSUME IsParams(element)
      PROVE  PartOf("params", element.children, Len(element.children), Meaning[NestingLimit])
                 = ParamsOf(element)
  <2>1. DOMAIN element.children = 1..Len(element.children)
    BY <1>3 DEF IsParams
  <2>2. \A child : Inner("params", child) = child.children[1]
    BY DEF Inner
  <2>3. QED
    BY <2>1, <2>2 DEF PartOf, ItemsMeant, ParamsOf, MeaningHere
<1>4. QED
  BY <1>2, <1>3 DEF WholeOf

LEMMA ChildByNameIs ==
    ASSUME IsTree(nodes), NEW e \in DOMAIN nodes, NEW name, Named(e, name) # {}
    PROVE  /\ ChildByName(e, name) \in DOMAIN nodes
           /\ nodes[ChildByName(e, name)].name = name
<1>1. ChildCount(e) \in Nat
  BY CountedChildren
<1>2. Named(e, name) \in SUBSET Nat
  BY <1>1 DEF Named
<1>3. \E i \in Named(e, name) : \A j \in Named(e, name) : i <= j
  BY <1>2, Least
<1>4. PICK i : i = CHOOSE k \in Named(e, name) : \A j \in Named(e, name) : k <= j
  OBVIOUS
<1>5. i \in Named(e, name)
  BY <1>3, <1>4, Zenon
<1>6. nodes[Children(e)[i]].name = name
  BY <1>5 DEF Named
<1>7. ChildByName(e, name) = Children(e)[i]
  BY <1>4 DEF ChildByName
<1>8. QED
  BY <1>6, <1>7, ChildByNameIn

LEMMA RootIs ==
    ASSUME IInv, pc \in {"tree", "convert", "ending"}, NEW of, Built(of)
    PROVE  /\ IsTree(nodes) /\ rootP = 1 /\ rootP \in DOMAIN nodes
           /\ of[rootP] = document.root /\ document.root \in Elements
           /\ nodes[rootP].name = document.root.name
           /\ ChildCount(rootP) \in Nat
           /\ Len(document.root.children) = ChildCount(rootP)
           /\ \A i \in 1..ChildCount(rootP) :
                  /\ Children(rootP)[i] \in DOMAIN nodes
                  /\ of[Children(rootP)[i]] = document.root.children[i]
<1>1. IsTree(nodes) /\ rootP = 1 /\ rootP \in DOMAIN nodes
  BY DEF IInv, TreeInv
<1>2. of[rootP] = document.root
  BY <1>1 DEF Built
<1>3. QED
  BY <1>1, <1>2, BuiltIs

LEMMA NameIs ==
    ASSUME IsTree(nodes), NEW of, Built(of), NEW e \in DOMAIN nodes,
           HasOne(of[e], "methodName"), NEW child, child = TheChild(of[e], "methodName"),
           NEW name, name = ChildByName(e, "methodName")
    PROVE  /\ Named(e, "methodName") # {}
           /\ IsMethodName(name) <=> IsLeaf(child) /\ Good(child)
           /\ nodes[name].text = child.text
<1>1. Named(e, "methodName") # {} /\ name \in DOMAIN nodes /\ of[name] = child
  BY HasOneMeans
<1>2. QED
  BY <1>1, BuiltIs DEF IsMethodName

(* What is not taken is not a call.                                        *)
LEMMA TakeMethodNameMeans ==
    ASSUME IInv, MeaningInv, TakeMethodName
    PROVE  MeaningInv'
<1>1. /\ pc = "tree" /\ document.purpose = "call" /\ methodName = NoName
      /\ UNCHANGED <<document, nodes, rootP, values, frames, returned, result>>
  BY DEF TakeMethodName, treeVars, valueVars
<1>2. PICK good : good = (/\ nodes[rootP].name = "methodCall"
                          /\ Named(rootP, "methodName") # {}
                          /\ IsMethodName(ChildByName(rootP, "methodName")))
  OBVIOUS
<1>3. SUFFICES ASSUME ~ranOut' PROVE MeaningInv'
  BY DEF MeaningInv
<1>4. CASE ~good /\ pc' = "ending" /\ fault' = TRUE /\ UNCHANGED methodName
  <2>1. PICK of : Built(of)
    BY <1>1 DEF IInv, TreeInv
  <2>2. /\ IsTree(nodes) /\ rootP \in DOMAIN nodes /\ of[rootP] = document.root
        /\ nodes[rootP].name = document.root.name
    BY <1>1, <2>1, RootIs
  <2>3. ~IsCall(document.root)
    <3>1. SUFFICES ASSUME IsCall(document.root) PROVE FALSE
      OBVIOUS
    <3>2. PICK child : child = TheChild(document.root, "methodName")
      OBVIOUS
    <3>3. /\ document.root.name = "methodCall" /\ HasOne(document.root, "methodName")
          /\ IsLeaf(child) /\ Good(child)
      BY <3>1, <3>2 DEF IsCall
    <3>4. /\ Named(rootP, "methodName") # {}
          /\ IsMethodName(ChildByName(rootP, "methodName"))
      BY <2>1, <2>2, <3>2, <3>3, NameIs
    <3>5. QED
      BY <1>2, <1>4, <2>2, <3>3, <3>4
  <2>4. PICK goal : goal = Wish(NoMeaning, 0)
    OBVIOUS
  <2>5. goal.means = NoMeaning /\ goal.room = 0
    BY <2>4 DEF Wish
  <2>6. GoalIs(goal)
    BY <1>1, <2>3, <2>5 DEF GoalIs, CallWanted
  <2>7. frames = <<>> /\ returned = None
    <3>1. /\ frames = <<>> /\ Outcome \in {None, returned}
          /\ pc # "done"
      BY <1>1 DEF IInv, ValuesInv, Outcome
    <3>2. returned = None
      BY <1>1, ConversionHas
    <3>3. QED
      BY <3>1, <3>2
  <2>8. Meant(of, values', frames', returned', fault', goal)
    BY <1>1, <2>5, <2>7 DEF Meant, Calling, Delivered, Hopeless
  <2>9. QED
    BY ONLY <1>1, <1>4, <2>1, <2>6, <2>8, MeaningStays
<1>5. CASE good /\ methodName' = nodes[ChildByName(rootP, "methodName")].text /\ pc' = pc
  <2>1. HeaderRead'
    BY <1>1, <1>2, <1>5 DEF HeaderRead, ChildByName, Named, Children, ChildCount, IsMethodName, TextOK
  <2>2. QED
    BY SMTT(30), <1>1, <1>5, <2>1 DEF MeaningInv
<1>6. QED
  BY <1>2, <1>3, <1>4, <1>5 DEF TakeMethodName, RunsOut
-----------------------------------------------------------------------------
(* Conversion starts.                                                      *)

LEMMA TreeReady ==
    ASSUME IInv, pc = "tree", NEW of, Built(of), NEW goal, GoalIs(goal)
    PROVE  Ready(of, goal) /\ frames = <<>> /\ returned = None
<1>1. /\ ConversionOK /\ IsTree(nodes)
      /\ frames = <<>> /\ releasing = <<>> /\ ~fault /\ returned = None
  BY ConversionHas
<1>2. Meant(of, values, frames, returned, fault, goal)
  BY <1>1 DEF Meant, Calling, Delivered
<1>3. QED
  BY <1>1, <1>2 DEF Ready

LEMMA RefusalMeant ==
    ASSUME NEW of, NEW heap, NEW failed, NEW room
    PROVE  Meant(of, heap, <<>>, None, failed, Wish(NoMeaning, room))
  BY DEF Meant, Calling, Delivered, Hopeless, Wish

(* The name of a method that there is one of is the call's.                *)
LEMMA HeaderHas ==
    ASSUME IInv, pc = "tree", document.purpose = "call", methodName # NoName, HeaderRead,
           NEW of, Built(of)
    PROVE  /\ document.root.name = "methodCall"
           /\ Named(rootP, "methodName") # {}
           /\ HasOne(document.root, "methodName") =>
                  /\ IsLeaf(TheChild(document.root, "methodName"))
                  /\ Good(TheChild(document.root, "methodName"))
                  /\ methodName = NameOf(document.root)
<1>1. /\ IsTree(nodes) /\ rootP \in DOMAIN nodes /\ of[rootP] = document.root
      /\ nodes[rootP].name = document.root.name
  BY RootIs
<1>2. PICK name : name = ChildByName(rootP, "methodName")
  OBVIOUS
<1>3. /\ nodes[rootP].name = "methodCall" /\ Named(rootP, "methodName") # {}
      /\ IsMethodName(name) /\ methodName = nodes[name].text
  BY <1>2 DEF HeaderRead
<1>4. SUFFICES ASSUME HasOne(document.root, "methodName")
               PROVE  /\ IsLeaf(TheChild(document.root, "methodName"))
                      /\ Good(TheChild(document.root, "methodName"))
                      /\ methodName = NameOf(document.root)
  BY <1>1, <1>3
<1>5. PICK child : child = TheChild(document.root, "methodName")
  OBVIOUS
<1>6. (IsMethodName(name) <=> IsLeaf(child) /\ Good(child)) /\ nodes[name].text = child.text
  BY <1>1, <1>2, <1>4, <1>5, NameIs
<1>7. QED
  BY <1>3, <1>5, <1>6 DEF NameOf

(* The parameters, as the goal of a call.                                  *)
LEMMA CallParams ==
    ASSUME IInv, pc = "tree", document.purpose = "call", methodName # NoName, HeaderRead,
           NEW of, Built(of), ChildCount(rootP) > 1, Named(rootP, "params") # {},
           NEW params, params = ChildByName(rootP, "params"),
           NEW means, means = WholeOf("params", of[params], Meaning[NestingLimit])
    PROVE  GoalIs(Wish(means, NestingLimit + 1))
<1>1. PICK root : root = document.root
  OBVIOUS
<1>2. /\ IsTree(nodes) /\ rootP \in DOMAIN nodes /\ of[rootP] = root
      /\ ChildCount(rootP) \in Nat /\ Len(root.children) = ChildCount(rootP)
  BY <1>1, RootIs
<1>3. /\ root.name = "methodCall" /\ Named(rootP, "methodName") # {}
      /\ HasOne(root, "methodName") =>
             /\ IsLeaf(TheChild(root, "methodName"))
             /\ Good(TheChild(root, "methodName"))
             /\ methodName = NameOf(root)
  BY <1>1, HeaderHas
<1>4. means = IF IsParams(of[params]) THEN ParamsOf(of[params]) ELSE NoMeaning
  BY ParamsAre
<1>5. ParamsOf(of[params]) # NoMeaning
  BY DEF ParamsOf, NoMeaning
<1>6. PICK goal : goal = Wish(means, NestingLimit + 1)
  OBVIOUS
<1>7. goal.means = means /\ goal.room = NestingLimit + 1
  BY <1>6 DEF Wish
<1>8. NestingLimit + 1 \in Nat
  BY LimitAssumption
<1>9. CASE ChildCount(rootP) = 2
  <2>1. HasOne(root, "params") /\ HasOne(root, "methodName")
    <3>1. PICK one, other : one = "params" /\ other = "methodName"
      OBVIOUS
    <3>2. one # other
      BY <3>1
    <3>3. HasOne(of[rootP], one) /\ HasOne(of[rootP], other)
      BY <1>2, <1>3, <1>9, <3>1, <3>2, OneOfTwo
    <3>4. QED
      BY <1>2, <3>1, <3>3
  <2>2. of[params] = TheChild(root, "params")
    BY <1>2, <2>1, HasOneMeans
  <2>3. IsCall(root) <=> IsParams(of[params])
    BY <1>2, <1>3, <1>9, <2>1, <2>2 DEF IsCall
  <2>4. ArgumentsOf(root) = ParamsOf(of[params])
    BY <1>2, <1>9, <2>2 DEF ArgumentsOf
  <2>5. CallWanted(goal)
    BY <1>1, <1>2, <1>3, <1>4, <1>5, <1>7, <1>9, <2>1, <2>3, <2>4 DEF CallWanted
  <2>6. QED
    BY <1>6, <1>7, <1>8, <2>5 DEF GoalIs
<1>10. CASE ChildCount(rootP) > 2
  <2>1. ~IsCall(root) /\ ~(Len(root.children) <= 2)
    BY <1>2, <1>10 DEF IsCall
  <2>2. CallWanted(goal)
    BY <1>1, <1>7, <2>1 DEF CallWanted
  <2>3. QED
    BY <1>6, <1>7, <1>8, <2>2 DEF GoalIs
<1>11. QED
  BY <1>2, <1>9, <1>10

LEMMA TakeParamsMeans ==
    ASSUME IInv, MeaningInv, TakeParams
    PROVE  MeaningInv'
<1>1. /\ pc = "tree" /\ pc' = "convert" /\ document.purpose = "call" /\ methodName # NoName
      /\ UNCHANGED <<document, nodes, methodName>>
  BY DEF TakeParams, treeVars, outVars
<1>2. SUFFICES ASSUME ~ranOut' PROVE MeaningInv'
  BY DEF MeaningInv
<1>3. ~ranOut
  BY <1>2 DEF TakeParams, ConvertParams, BuildFails, RunsOut, flags
<1>4. HeaderRead
  BY <1>1, <1>3 DEF MeaningInv
<1>5. PICK of : Built(of)
  BY <1>1 DEF IInv, TreeInv
<1>6. PICK root : root = document.root
  OBVIOUS
<1>7. /\ IsTree(nodes) /\ rootP \in DOMAIN nodes /\ of[rootP] = root
      /\ ChildCount(rootP) \in Nat /\ Len(root.children) = ChildCount(rootP)
  BY <1>1, <1>5, <1>6, RootIs
<1>8. /\ root.name = "methodCall" /\ Named(rootP, "methodName") # {}
      /\ HasOne(root, "methodName") =>
             /\ IsLeaf(TheChild(root, "methodName"))
             /\ Good(TheChild(root, "methodName"))
             /\ methodName = NameOf(root)
  BY <1>1, <1>4, <1>5, <1>6, HeaderHas
<1>9. frames = <<>> /\ returned = None /\ releasing = <<>> /\ ConversionOK /\ ~fault
  BY <1>1, ConversionHas
<1>10. ASSUME NEW goal, GoalIs(goal), Meant(of, values', frames', returned', fault', goal)
       PROVE  MeaningInv'
  BY ONLY <1>1, <1>5, <1>10, MeaningStays
<1>11. CASE /\ ChildCount(rootP) > 1 /\ Named(rootP, "params") # {}
            /\ ConvertParams(ChildByName(rootP, "params"))
  <2>1. PICK params : params = ChildByName(rootP, "params")
    OBVIOUS
  <2>2. params \in DOMAIN nodes /\ nodes[params].name = "params"
    BY <1>7, <1>11, <2>1, ChildByNameIs
  <2>3. PICK goal : goal = Wish(WholeOf("params", of[params], Meaning[NestingLimit]),
                                NestingLimit + 1)
    OBVIOUS
  <2>4. GoalIs(goal)
    BY <1>1, <1>4, <1>5, <1>11, <2>1, <2>3, CallParams
  <2>5. Ready(of, goal)
    BY <1>1, <1>5, <2>4, TreeReady
  <2>6. Meant(of, values', frames', returned', fault', goal)
    BY <1>2, <1>9, <1>11, <2>1, <2>2, <2>3, <2>5, ParamsMeant
  <2>7. QED
    BY <1>10, <2>4, <2>6
<1>12. CASE /\ ChildCount(rootP) > 1 /\ ~(Named(rootP, "params") # {})
            /\ fault' = TRUE /\ UNCHANGED valueVars
  <2>1. ~HasOne(root, "params")
    BY <1>5, <1>7, <1>12, HasOneMeans
  <2>2. ~IsCall(root)
    BY <1>7, <1>12, <2>1 DEF IsCall
  <2>3. PICK goal : goal = Wish(NoMeaning, 0)
    OBVIOUS
  <2>4. GoalIs(goal)
    BY <1>1, <1>6, <2>2, <2>3 DEF GoalIs, CallWanted, Wish
  <2>5. frames' = <<>> /\ returned' = None
    BY <1>9, <1>12 DEF valueVars
  <2>6. Meant(of, values', frames', returned', fault', goal)
    BY <2>3, <2>5, RefusalMeant
  <2>7. QED
    BY <1>10, <2>4, <2>6
<1>13. CASE /\ ~(ChildCount(rootP) > 1)
            /\ values' = With(values, Unused(values), Cell("array", <<>>))
            /\ returned' = Unused(values)
            /\ UNCHANGED <<frames, releasing, flags>>
  <2>1. ChildCount(rootP) = 1
    BY <1>7, <1>8, <1>13 DEF Named
  <2>2. HasOne(root, "methodName")
    BY <1>5, <1>7, <1>8, <2>1, OneOfOne
  <2>3. IsCall(root) /\ ArgumentsOf(root) = <<"array", <<>> >>
    BY <1>7, <1>8, <2>1, <2>2 DEF IsCall, ArgumentsOf
  <2>4. PICK goal : goal = Wish(<<"array", <<>> >>, NestingLimit + 1)
    OBVIOUS
  <2>5. /\ goal.means = <<"array", <<>> >> /\ goal.room = NestingLimit + 1
        /\ goal.means # NoMeaning
    BY <2>4 DEF Wish, NoMeaning
  <2>6. NestingLimit \in Nat /\ NestingLimit + 1 \in Nat
    BY LimitAssumption
  <2>7. GoalIs(goal)
    <3>1. CallWanted(goal)
      BY <1>6, <1>7, <1>8, <2>1, <2>2, <2>3, <2>5 DEF CallWanted
    <3>2. QED
      BY <1>1, <2>5, <2>6, <3>1 DEF GoalIs
  <2>8. PICK v : v = Unused(values)
    OBVIOUS
  <2>9. PICK heap2 : heap2 = values'
    OBVIOUS
  <2>10. HeapOK(values)
    BY <1>9, SoundHas DEF ConversionOK
  <2>11. NewCell(values, v, "array", <<>>, heap2)
    <3>1. "array" \in ValueKind /\ <<>> \in Seq(STRING)
      BY DEF ValueKind
    <3>2. heap2 = With(values, Unused(values), Cell("array", <<>>))
      BY <1>13, <2>9
    <3>3. QED
      BY ONLY <2>8, <2>10, <3>1, <3>2, FreshValue
  <2>12. v \in DOMAIN heap2 /\ heap2[v] = Cell("array", <<>>)
    BY ONLY <2>10, <2>11, NewCellSays
  <2>13. heap2[v].items = <<>> /\ heap2[v].kind = "array"
    BY <2>12 DEF Cell
  <2>14. Says(heap2, v, NestingLimit + 1) = <<"array", <<>> >>
    BY <2>6, <2>12, <2>13, SaysFresh
  <2>15. frames' = <<>> /\ returned' = v /\ fault' = FALSE
    <3>1. fault \in BOOLEAN
      BY <1>9 DEF ConversionOK
    <3>2. QED
      BY <1>9, <1>13, <2>8, <3>1 DEF flags
  <2>16. Meant(of, heap2, <<>>, v, FALSE, goal)
    BY <2>5, <2>14 DEF Meant, Calling, Delivered, WishAt
  <2>17. Meant(of, values', frames', returned', fault', goal)
    BY <2>9, <2>15, <2>16
  <2>18. QED
    BY <1>10, <2>7, <2>17
<1>14. QED
  BY <1>2, <1>11, <1>12, <1>13 DEF TakeParams, RunsOut
LEMMA FaultAsks ==
    ASSUME NEW root, root.children[1].name = "fault",
           MeaningHere(root.children[1].children[1]) = NoMeaning
    PROVE  ~IsResult(root) /\ ~IsFault(root)
<1>1. ~IsResult(root)
  BY DEF IsResult, IsParams
<1>2. NoMeaning[1] # "struct"
  BY DEF NoMeaning
<1>3. QED
  BY <1>1, <1>2 DEF IsFault

LEMMA TakeResponseMeans ==
    ASSUME IInv, MeaningInv, TakeResponse
    PROVE  MeaningInv'
<1>1. /\ pc = "tree" /\ pc' = "convert" /\ document.purpose = "response"
      /\ UNCHANGED <<document, nodes, methodName>>
  BY DEF TakeResponse, treeVars, outVars
<1>2. SUFFICES ASSUME ~ranOut' PROVE MeaningInv'
  BY DEF MeaningInv
<1>3. PICK of : Built(of)
  BY <1>1 DEF IInv, TreeInv
<1>4. PICK root, child, only : /\ root = document.root /\ child = root.children[1]
                               /\ only = OnlyChild
  OBVIOUS
<1>5. /\ IsTree(nodes) /\ rootP \in DOMAIN nodes /\ root \in Elements
      /\ nodes[rootP].name = root.name
      /\ ChildCount(rootP) \in Nat /\ Len(root.children) = ChildCount(rootP)
      /\ \A i \in 1..ChildCount(rootP) :
             /\ Children(rootP)[i] \in DOMAIN nodes
             /\ of[Children(rootP)[i]] = root.children[i]
  BY <1>1, <1>3, <1>4, RootIs
<1>6. ASSUME ChildCount(rootP) = 1
      PROVE  /\ only \in DOMAIN nodes /\ of[only] = child /\ nodes[only].name = child.name
             /\ Len(child.children) = ChildCount(only)
             /\ \A i \in 1..ChildCount(only) :
                    /\ Children(only)[i] \in DOMAIN nodes
                    /\ of[Children(only)[i]] = child.children[i]
  <2>1. only \in DOMAIN nodes /\ of[only] = child
    BY <1>4, <1>5, <1>6 DEF OnlyChild
  <2>2. QED
    BY <1>3, <1>5, <2>1, BuiltIs
<1>7. NestingLimit \in Nat /\ NestingLimit + 1 \in Nat
  BY LimitAssumption
<1>8. frames = <<>> /\ returned = None
  BY <1>1, ConversionHas
<1>9. ASSUME NEW goal, GoalIs(goal), Meant(of, values', frames', returned', fault', goal)
      PROVE  MeaningInv'
  BY ONLY <1>1, <1>3, <1>9, MeaningStays
<1>10. PICK says : says = IF nodes[rootP].name = "methodResponse" /\ ChildCount(rootP) = 1
                          THEN nodes[OnlyChild].name ELSE "nothing"
  OBVIOUS
<1>11. CASE says = "params" /\ ConvertParams(OnlyChild)
  <2>1. /\ root.name = "methodResponse" /\ ChildCount(rootP) = 1
        /\ nodes[only].name = "params" /\ only \in DOMAIN nodes
        /\ of[only] = child /\ child.name = "params"
    BY <1>4, <1>5, <1>6, <1>10, <1>11
  <2>2. PICK goal : goal = Wish(WholeOf("params", of[only], Meaning[NestingLimit]),
                                NestingLimit + 1)
    OBVIOUS
  <2>3. /\ goal.means = IF IsParams(child) THEN ParamsOf(child) ELSE NoMeaning
        /\ goal.room = NestingLimit + 1
    BY <2>1, <2>2, ParamsAre DEF Wish
  <2>4. GoalIs(goal)
    <3>1. ResponseWanted(goal)
      <4>1. CASE IsParams(child)
        <5>1. ParamsOf(child) # NoMeaning
          BY DEF ParamsOf, NoMeaning
        <5>2. QED
          BY <1>4, <1>5, <2>1, <2>3, <4>1, <5>1 DEF ResponseWanted
      <4>2. CASE ~IsParams(child)
        <5>1. ~IsResult(root) /\ ~IsFault(root)
          BY <1>4, <2>1, <4>2 DEF IsResult, IsFault
        <5>2. QED
          BY <1>4, <2>3, <4>2, <5>1 DEF ResponseWanted
      <4>3. QED
        BY <4>1, <4>2
    <3>2. QED
      BY <1>1, <1>7, <2>3, <3>1 DEF GoalIs
  <2>5. Ready(of, goal)
    BY <1>1, <1>3, <2>4, TreeReady
  <2>6. Meant(of, values', frames', returned', fault', goal)
    BY <1>2, <1>4, <1>8, <1>11, <2>1, <2>2, <2>5, ParamsMeant
  <2>7. QED
    BY <1>9, <2>4, <2>6
<1>12. CASE /\ says = "fault" /\ ChildCount(OnlyChild) = 1
            /\ ConvertValue(Children(OnlyChild)[1], NestingLimit)
  <2>1. /\ root.name = "methodResponse" /\ ChildCount(rootP) = 1
        /\ only \in DOMAIN nodes /\ of[only] = child /\ child.name = "fault"
    BY <1>4, <1>5, <1>6, <1>10, <1>12
  <2>2. PICK e : e = Children(only)[1]
    OBVIOUS
  <2>3. e \in DOMAIN nodes /\ of[e] = child.children[1] /\ Len(child.children) = 1
    BY <1>4, <1>6, <1>12, <2>1, <2>2
  <2>4. PICK goal : goal = Wish(Meaning[NestingLimit][of[e]], NestingLimit)
    OBVIOUS
  <2>5. goal.means = MeaningHere(child.children[1]) /\ goal.room = NestingLimit
    BY <2>3, <2>4 DEF Wish, MeaningHere
  <2>6. GoalIs(goal)
    <3>1. ResponseWanted(goal)
      <4>1. CASE goal.means = NoMeaning
        <5>1. ~IsResult(root) /\ ~IsFault(root)
          BY <1>4, <2>1, <2>5, <4>1, FaultAsks
        <5>2. QED
          BY <1>4, <4>1, <5>1 DEF ResponseWanted
      <4>2. CASE goal.means # NoMeaning
        BY <1>4, <1>5, <2>1, <2>3, <2>5, <4>2 DEF ResponseWanted
      <4>3. QED
        BY <4>1, <4>2
    <3>2. QED
      BY <1>1, <1>7, <2>5, <3>1 DEF GoalIs
  <2>7. Ready(of, goal)
    BY <1>1, <1>3, <2>6, TreeReady
  <2>8. WishAt(of, frames, Len(frames), goal) = Wish(Meaning[NestingLimit][of[e]], NestingLimit)
    <3>1. Len(frames) = 0
      BY <1>8
    <3>2. QED
      BY <2>4, <3>1 DEF WishAt
  <2>9. ConvertValue(e, NestingLimit)
    BY <1>4, <1>12, <2>2
  <2>10. Meant(of, values', frames', returned', fault', goal)
    BY <1>2, <1>7, <2>3, <2>7, <2>8, <2>9, ConvertMeant
  <2>11. QED
    BY <1>9, <2>6, <2>10
<1>13. CASE /\ ~(says = "params" \/ (says = "fault" /\ ChildCount(OnlyChild) = 1))
            /\ fault' = TRUE /\ UNCHANGED valueVars
  <2>1. ~IsResult(root) /\ ~IsFault(root)
    <3>1. SUFFICES ASSUME root.name = "methodResponse", ChildCount(rootP) = 1
                   PROVE  ~IsResult(root) /\ ~IsFault(root)
      BY <1>5 DEF IsResult, IsFault
    <3>2. /\ child.name = says
          /\ Len(child.children) = ChildCount(only)
      BY <1>4, <1>5, <1>6, <1>10, <3>1
    <3>3. QED
      BY <1>4, <1>13, <3>2 DEF IsResult, IsFault, IsParams
  <2>2. PICK goal : goal = Wish(NoMeaning, 0)
    OBVIOUS
  <2>3. GoalIs(goal)
    BY <1>1, <1>4, <2>1, <2>2 DEF GoalIs, ResponseWanted, Wish
  <2>4. frames' = <<>> /\ returned' = None
    BY <1>8, <1>13 DEF valueVars
  <2>5. Meant(of, values', frames', returned', fault', goal)
    BY <2>2, <2>4, RefusalMeant
  <2>6. QED
    BY <1>9, <2>3, <2>5
<1>14. QED
  BY <1>10, <1>11, <1>12, <1>13 DEF TakeResponse
-----------------------------------------------------------------------------
(* The end of a call.                                                      *)

LEMMA EndingSays ==
    ASSUME IInv, MeaningInv, pc = "ending", ~ranOut
    PROVE  \E of, goal :
               /\ Built(of) /\ GoalIs(goal)
               /\ fault => goal.means = NoMeaning
               /\ ~fault => /\ goal.means # NoMeaning
                            /\ Says(values, returned, goal.room) = goal.means
                            /\ returned \in DOMAIN values /\ HeapOK(values)
<1>1. PICK of, goal : /\ Built(of) /\ GoalIs(goal)
                      /\ Meant(of, values, frames, returned, fault, goal)
  BY DEF MeaningInv
<1>2. /\ frames = <<>> /\ WellCounted(values, <<>>, <<>>, returned)
      /\ ~fault => returned # None
  BY EndingHas
<1>3. HeapOK(values) /\ returned \in DOMAIN values \union {None}
  BY <1>2 DEF WellCounted
<1>4. fault => goal.means = NoMeaning
  BY <1>1, <1>2 DEF Meant, Hopeless
<1>5. ~fault => goal.means # NoMeaning /\ Says(values, returned, goal.room) = goal.means
  <2>1. WishAt(of, frames, Len(frames), goal) = goal
    BY <1>2 DEF WishAt
  <2>2. QED
    BY <1>1, <1>2, <2>1 DEF Meant, Delivered
<1>6. QED
  BY <1>1, <1>2, <1>3, <1>4, <1>5

LEMMA EndCallMeans ==
    ASSUME IInv, MeaningInv, EndCall
    PROVE  MeaningInv'
<1>1. PICK extra : extra = (~fault /\ ChildCount(rootP) > 2)
  OBVIOUS
<1>2. /\ pc = "ending" /\ pc' = "done" /\ document.purpose = "call"
      /\ UNCHANGED <<document, values, ranOut>>
      /\ fault' = (fault \/ extra)
      /\ methodName' = IF fault' THEN NoName ELSE methodName
      /\ result' = IF fault' THEN Refused ELSE [kind |-> "call", value |-> returned]
  BY <1>1 DEF EndCall, End
<1>3. SUFFICES ASSUME ~ranOut
               PROVE  /\ Answered'
                      /\ result'.kind \in {"call", "response"} => result'.value \in DOMAIN values
  BY <1>2 DEF MeaningInv
<1>4. PICK of, goal :
          /\ Built(of) /\ GoalIs(goal)
          /\ fault => goal.means = NoMeaning
          /\ ~fault => /\ goal.means # NoMeaning
                       /\ Says(values, returned, goal.room) = goal.means
                       /\ returned \in DOMAIN values /\ HeapOK(values)
  BY <1>2, <1>3, EndingSays
<1>5. Len(document.root.children) = ChildCount(rootP) /\ ChildCount(rootP) \in Nat
  BY <1>2, <1>4, RootIs
<1>6. /\ goal.means = NoMeaning => ~IsCall(document.root)
      /\ goal.means # NoMeaning =>
             /\ goal.room = NestingLimit + 1
             /\ IsCall(document.root) <=> ~(ChildCount(rootP) > 2)
             /\ IsCall(document.root) =>
                    methodName = NameOf(document.root) /\ goal.means = ArgumentsOf(document.root)
  <2>1. CallWanted(goal)
    BY <1>2, <1>4 DEF GoalIs
  <2>2. Len(document.root.children) <= 2 <=> ~(ChildCount(rootP) > 2)
    BY ONLY <1>5
  <2>3. QED
    BY ONLY <2>1, <2>2, Zenon DEF CallWanted
<1>7. CASE fault \/ extra
  <2>1. ~IsCall(document.root)
    BY ONLY <1>1, <1>4, <1>6, <1>7, Zenon
  <2>2. result' = Refused /\ result'.kind = "refused"
    BY <1>2, <1>7 DEF Refused
  <2>3. QED
    BY <1>2, <2>1, <2>2 DEF Answered
<1>8. CASE ~fault /\ ~extra
  <2>1. /\ IsCall(document.root) /\ goal.room = NestingLimit + 1
        /\ methodName = NameOf(document.root) /\ goal.means = ArgumentsOf(document.root)
    BY ONLY <1>1, <1>4, <1>6, <1>8, Zenon
  <2>2. ~fault'
    BY <1>2, <1>8
  <2>3. /\ methodName' = methodName
        /\ result' = [kind |-> "call", value |-> returned]
    BY <1>2, <2>2
  <2>4. result'.kind = "call" /\ result'.value = returned
    BY <2>3
  <2>5. Says(values, result'.value, NestingLimit + 1) = ArgumentsOf(document.root)
    BY <1>4, <1>8, <2>1, <2>4
  <2>6. QED
    BY <1>2, <1>4, <1>8, <2>1, <2>3, <2>4, <2>5 DEF Answered
<1>9. QED
  BY <1>7, <1>8

-----------------------------------------------------------------------------
(* The end of a response.                                                  *)

LEMMA StructHolds ==
    ASSUME NEW element \in Elements, NEW d \in Nat, Meaning[d][element][1] = "struct"
    PROVE  /\ d # 0
           /\ \A pair \in Meaning[d][element][2] : pair[2] # NoMeaning
<1>1. NoMeaning[1] # "struct"
  BY DEF NoMeaning
<1>2. d # 0
  BY <1>1, MeaningAt
<1>3. d - 1 \in Nat /\ (d - 1) + 1 = d
  BY <1>2
<1>4. PICK below : below = Meaning[d - 1]
  OBVIOUS
<1>5. Meaning[d][element] = MeaningOf(element, below)
  BY <1>3, <1>4, MeaningAt
<1>6. PICK inner : inner = element.children[1]
  OBVIOUS
<1>7. ScalarOf(inner)[1] # "struct" \/ ~GoodScalar(inner)
  BY DEF ScalarOf, GoodScalar, Type, Checked, Unchecked
<1>8. ArrayOf(inner.children[1].children, below)[1] = "array"
  BY DEF ArrayOf
<1>9. GoodStruct(inner, below) /\ MeaningOf(element, below) = StructOf(inner.children, below)
  BY <1>1, <1>5, <1>6, <1>7, <1>8 DEF MeaningOf
<1>10. \A i \in DOMAIN inner.children : below[TheChild(inner.children[i], "value")] # NoMeaning
  BY <1>9 DEF GoodStruct, GoodMember
<1>11. ASSUME NEW pair \in StructOf(inner.children, below)[2]
       PROVE  pair[2] # NoMeaning
  <2>1. PICK i \in DOMAIN inner.children :
            pair = <<KeyOf(inner.children[i]), below[TheChild(inner.children[i], "value")]>>
    BY <1>11 DEF StructOf
  <2>2. QED
    BY <1>10, <2>1
<1>12. QED
  BY <1>2, <1>5, <1>9, <1>11

(* What a value's kind is can be told from what it says.                   *)
LEMMA KindSaid ==
    ASSUME NEW heap, HeapOK(heap), NEW v \in DOMAIN heap, NEW n \in Nat, n # 0
    PROVE  Says(heap, v, n)[1] = heap[v].kind
<1>1. n - 1 \in Nat /\ (n - 1) + 1 = n
  OBVIOUS
<1>2. heap[v].items \in Seq(DOMAIN heap)
  BY CellsAre
<1>3. \E content : Says(heap, v, n) = <<heap[v].kind, content>>
  <2>1. PICK kind : kind = heap[v].kind
    OBVIOUS
  <2>2. \E content : Says(heap, v, (n - 1) + 1) = <<kind, content>>
    BY ZenonT(40), <1>1, <1>2, <2>1, SaysNext
  <2>3. QED
    BY <1>1, <2>1, <2>2
<1>4. QED
  BY <1>3

PairAt(h, f, g, key, kind) == \E p \in 1..h : f[p] = <<key>> /\ g[p][1] = kind

LEMMA PairsHave ==
    ASSUME NEW h, NEW f, NEW g, NEW value, value[2] = Pairs(f, g, h), NEW key, NEW kind
    PROVE  HasMemberOf(value, key, kind) <=> PairAt(h, f, g, key, kind)
<1> USE DEF PairAt
<1>1. ASSUME HasMemberOf(value, key, kind)
      PROVE  \E p \in 1..h : f[p] = <<key>> /\ g[p][1] = kind
  <2>1. PICK pair \in Pairs(f, g, h) : pair[1] = <<key>> /\ pair[2][1] = kind
    BY <1>1 DEF HasMemberOf
  <2>2. PICK p \in 1..h : pair = <<f[p], g[p]>>
    BY <2>1 DEF Pairs
  <2>3. pair[1] = f[p] /\ pair[2] = g[p]
    BY <2>2
  <2>4. QED
    BY <2>1, <2>3
<1>2. ASSUME NEW p \in 1..h, f[p] = <<key>>, g[p][1] = kind
      PROVE  HasMemberOf(value, key, kind)
  <2>1. PICK pair : pair = <<f[p], g[p]>>
    OBVIOUS
  <2>2. pair \in value[2]
    BY <2>1 DEF Pairs
  <2>3. pair[1] = f[p] /\ pair[2] = g[p]
    BY <2>1
  <2>4. QED
    BY <1>2, <2>2, <2>3 DEF HasMemberOf
<1>3. QED
  BY <1>1, <1>2

LEMMA MemberSaid ==
    ASSUME HeapOK(values), NEW v, v = returned, v \in DOMAIN values,
           values[v].kind = "struct", NEW n \in Nat,
           \A pair \in MembersSaid(values, v, n) : pair[2] # NoMeaning,
           NEW key, NEW kind, NEW value, value = <<"struct", MembersSaid(values, v, n)>>
    PROVE  HasMember(key, kind) <=> HasMemberOf(value, key, kind)
<1>1. PICK items : items = values[v].items
  OBVIOUS
<1>2. items \in Seq(DOMAIN values) /\ \E h \in Nat : Len(items) = 2 * h
  BY <1>1, CellsAre DEF HeapOK
<1>3. PICK h \in Nat : Len(items) = 2 * h
  BY <1>2
<1>4. /\ Len(items) \div 2 = h
      /\ DOMAIN items = 1..(2 * h)
      /\ \A p \in 1..h : /\ 2 * p - 1 \in 1..(2 * h) /\ 2 * p \in 1..(2 * h)
                         /\ items[2 * p - 1] \in DOMAIN values
                         /\ items[2 * p] \in DOMAIN values
  BY <1>2, <1>3, PairedItems
<1>5. MembersSaid(values, v, n) =
          {<<values[items[2 * p - 1]].text, Says(values, items[2 * p], n)>> : p \in 1..h}
  BY <1>1, <1>4 DEF MembersSaid
<1>6. ASSUME NEW p \in 1..h
      PROVE  Says(values, items[2 * p], n)[1] = values[items[2 * p]].kind
  <2>1. items[2 * p] \in DOMAIN values
    BY <1>4
  <2>2. PICK pair : pair = <<values[items[2 * p - 1]].text, Says(values, items[2 * p], n)>>
    OBVIOUS
  <2>3. pair \in MembersSaid(values, v, n)
    BY <1>5, <2>2
  <2>4. Says(values, items[2 * p], n) # NoMeaning
    BY <2>2, <2>3
  <2>5. n # 0
    BY <2>1, <2>4, SaysAt
  <2>6. QED
    BY <2>1, <2>5, KindSaid
<1>7. HasMember(key, kind) <=>
          \E p \in 1..h : /\ values[items[2 * p - 1]].text = <<key>>
                          /\ values[items[2 * p]].kind = kind
  <2>1. HasMember(key, kind) <=>
            \E i \in 1..(2 * h) : /\ i % 2 = 1
                                  /\ values[items[i]].text = <<key>>
                                  /\ values[items[i + 1]].kind = kind
    BY <1>1, <1>4 DEF HasMember
  <2>2. ASSUME NEW i \in 1..(2 * h), i % 2 = 1
        PROVE  \E p \in 1..h : i = 2 * p - 1 /\ i + 1 = 2 * p
    <3>1. (i + 1) \div 2 \in 1..h /\ i = 2 * ((i + 1) \div 2) - 1
          /\ i + 1 = 2 * ((i + 1) \div 2)
      BY <2>2
    <3>2. QED
      BY <3>1
  <2>3. ASSUME NEW p \in 1..h
        PROVE  \E i \in 1..(2 * h) : i % 2 = 1 /\ i = 2 * p - 1 /\ i + 1 = 2 * p
    OBVIOUS
  <2>4. QED
    BY <2>1, <2>2, <2>3
<1>8. HasMemberOf(value, key, kind) <=>
          \E p \in 1..h : /\ values[items[2 * p - 1]].text = <<key>>
                          /\ Says(values, items[2 * p], n)[1] = kind
  <2>1. PICK keys, said : /\ keys = [p \in 1..h |-> values[items[2 * p - 1]].text]
                          /\ said = [p \in 1..h |-> Says(values, items[2 * p], n)]
    OBVIOUS
  <2>2. value[2] = Pairs(keys, said, h)
    BY <1>5, <2>1 DEF Pairs
  <2>3. HasMemberOf(value, key, kind) <=>
            PairAt(h, keys, said, key, kind)
    BY ONLY <2>2, PairsHave
  <2>4. QED
    BY <2>1, <2>3 DEF PairAt
<1>9. QED
  BY <1>6, <1>7, <1>8
(* The array that <params> has become.                                     *)
LEMMA ParamsSaid ==
    ASSUME NEW heap, HeapOK(heap), NEW v \in DOMAIN heap, NEW child, IsParams(child),
           child \in Elements, Says(heap, v, NestingLimit + 1) = ParamsOf(child)
    PROVE  /\ heap[v].kind = "array"
           /\ Len(heap[v].items) = Len(child.children)
           /\ Len(heap[v].items) = 1 =>
                  /\ heap[v].items[1] \in DOMAIN heap
                  /\ Says(heap, heap[v].items[1], NestingLimit) = ParamsOf(child)[2][1]
<1>1. NestingLimit \in Nat /\ NestingLimit + 1 \in Nat /\ NestingLimit + 1 # 0
  BY LimitAssumption
<1>2. PICK items : items = heap[v].items
  OBVIOUS
<1>3. items \in Seq(DOMAIN heap)
  BY <1>2, CellsAre
<1>4. heap[v].kind = "array"
  <2>1. ParamsOf(child)[1] = "array"
    BY DEF ParamsOf
  <2>2. QED
    BY <1>1, <2>1, KindSaid
<1>5. Says(heap, v, NestingLimit + 1) = <<"array", ItemsSaid(heap, v, NestingLimit)>>
  BY <1>1, <1>2, <1>3, <1>4, SaysNext
<1>6. PICK told : told = ParamsOf(child)[2]
  OBVIOUS
<1>7. told = ItemsSaid(heap, v, NestingLimit)
  BY <1>5, <1>6
<1>8. DOMAIN told = DOMAIN items /\ \A i \in DOMAIN items : told[i] = Says(heap, items[i], NestingLimit)
  BY ONLY <1>2, <1>7 DEF ItemsSaid
<1>9. DOMAIN told = DOMAIN child.children
  BY ONLY <1>6 DEF ParamsOf
<1>10. Len(items) = Len(child.children)
  <2>1. DOMAIN items = 1..Len(items) /\ Len(items) \in Nat
    BY <1>3
  <2>2. DOMAIN child.children = 1..Len(child.children) /\ Len(child.children) \in Nat
    BY ElementIs
  <2>3. QED
    BY <1>8, <1>9, <2>1, <2>2, SameLength
<1>11. ASSUME Len(items) = 1
       PROVE  items[1] \in DOMAIN heap /\ Says(heap, items[1], NestingLimit) = told[1]
  <2>1. 1 \in DOMAIN items /\ items[1] \in DOMAIN heap
    BY <1>3, <1>11
  <2>2. QED
    BY SMTT(30), <1>8, <2>1
<1>12. QED
  BY <1>2, <1>4, <1>6, <1>10, <1>11

(* interpretFaultValue takes what is a fault.                              *)
LEMMA FaultSaid ==
    ASSUME HeapOK(values), returned \in DOMAIN values, NEW root, NEW child,
           child = root.children[1], root.name = "methodResponse", Len(root.children) = 1,
           child.name = "fault", Len(child.children) = 1, child.children[1] \in Elements,
           Says(values, returned, NestingLimit) = MeaningHere(child.children[1])
    PROVE  IsFault(root) <=> IsFaultValue
<1>1. PICK element, value : element = child.children[1] /\ value = MeaningHere(element)
  OBVIOUS
<1>2. /\ NestingLimit \in Nat /\ NestingLimit # 0
      /\ NestingLimit - 1 \in Nat /\ (NestingLimit - 1) + 1 = NestingLimit
  BY LimitAssumption
<1>3. PICK n : n = NestingLimit - 1
  OBVIOUS
<1>4. n \in Nat /\ n + 1 = NestingLimit
  BY <1>2, <1>3
<1>5. value[1] = values[returned].kind
  BY <1>1, <1>2, KindSaid
<1>6. IsFault(root) <=> /\ value[1] = "struct"
                        /\ HasMemberOf(value, "faultCode", "int")
                        /\ HasMemberOf(value, "faultString", "string")
  BY <1>1, Zenon DEF IsFault
<1>7. ASSUME value[1] = "struct", NEW key, NEW kind
      PROVE  HasMember(key, kind) <=> HasMemberOf(value, key, kind)
  <2>1. values[returned].items \in Seq(DOMAIN values)
    BY CellsAre
  <2>2. values[returned].kind = "struct"
    BY <1>5, <1>7
  <2>3. Says(values, returned, n + 1) = <<"struct", MembersSaid(values, returned, n)>>
    BY <1>4, <2>1, <2>2, SaysNext
  <2>4. value = <<"struct", MembersSaid(values, returned, n)>>
    BY <1>1, <1>4, <2>3
  <2>5. \A pair \in MembersSaid(values, returned, n) : pair[2] # NoMeaning
    <3>1. Meaning[NestingLimit][element] = value /\ element \in Elements
      BY <1>1 DEF MeaningHere
    <3>2. \A pair \in value[2] : pair[2] # NoMeaning
      BY <1>2, <1>7, <3>1, StructHolds
    <3>3. QED
      BY <2>4, <3>2
  <2>6. QED
    BY <1>4, <2>2, <2>4, <2>5, MemberSaid
<1>8. QED
  BY <1>5, <1>6, <1>7 DEF IsFaultValue

LEMMA EndResponseMeans ==
    ASSUME IInv, MeaningInv, EndResponse
    PROVE  MeaningInv'
<1>1. /\ pc = "ending" /\ pc' = "done" /\ document.purpose = "response"
      /\ UNCHANGED document
      /\ ~ranOut' => ~ranOut
  BY DEF EndResponse, End, RunsOut
<1>2. SUFFICES ASSUME ~ranOut'
               PROVE  /\ Answered'
                      /\ result'.kind \in {"call", "response"} => result'.value \in DOMAIN values'
  BY <1>1 DEF MeaningInv
<1>3. PICK of, goal :
          /\ Built(of) /\ GoalIs(goal)
          /\ fault => goal.means = NoMeaning
          /\ ~fault => /\ goal.means # NoMeaning
                       /\ Says(values, returned, goal.room) = goal.means
                       /\ returned \in DOMAIN values /\ HeapOK(values)
  BY <1>1, <1>2, EndingSays
<1>4. PICK root, child, only : /\ root = document.root /\ child = root.children[1]
                               /\ only = OnlyChild
  OBVIOUS
<1>5. /\ rootP \in DOMAIN nodes /\ root \in Elements /\ IsTree(nodes)
      /\ ChildCount(rootP) \in Nat /\ Len(root.children) = ChildCount(rootP)
      /\ \A i \in 1..ChildCount(rootP) :
             /\ Children(rootP)[i] \in DOMAIN nodes
             /\ of[Children(rootP)[i]] = root.children[i]
  BY <1>1, <1>3, <1>4, RootIs
<1>6. ResponseWanted(goal)
  BY <1>1, <1>3 DEF GoalIs
<1>7. PICK items, params : /\ items = values[returned].items
                           /\ params = (nodes[OnlyChild].name = "params")
  OBVIOUS
<1>8. \/ fault /\ Refuse
      \/ /\ ~fault /\ params /\ Len(items) = 1
         /\ values' = IncRef(values, items[1])
         /\ result' = [kind |-> "response", value |-> items[1]]
      \/ ~fault /\ params /\ Len(items) # 1 /\ Refuse
      \/ ~fault /\ ~params /\ ~IsFaultValue /\ Refuse
      \/ ~fault /\ ~params /\ IsFaultValue /\ result' = [kind |-> "fault"]
  BY <1>2, <1>7 DEF EndResponse, RunsOut
<1>9. ASSUME Refuse, ~IsResult(root), ~IsFault(root)
      PROVE  /\ Answered'
             /\ result'.kind \in {"call", "response"} => result'.value \in DOMAIN values'
  <2>1. result' = Refused /\ result'.kind = "refused"
    BY <1>9 DEF Refuse, Refused
  <2>2. QED
    BY <1>1, <1>4, <1>9, <2>1 DEF Answered
<1>10. CASE fault
  <2>1. ~IsResult(root) /\ ~IsFault(root)
    BY <1>3, <1>4, <1>6, <1>10 DEF ResponseWanted
  <2>2. QED
    BY <1>8, <1>9, <1>10, <2>1
<1>11. ASSUME ~fault
       PROVE  /\ root.name = "methodResponse" /\ Len(root.children) = 1
              /\ child \in Elements
              /\ params <=> child.name = "params"
              /\ \/ /\ child.name = "params" /\ goal.room = NestingLimit + 1
                    /\ IsParams(child) /\ goal.means = ParamsOf(child)
                 \/ /\ child.name = "fault" /\ goal.room = NestingLimit
                    /\ Len(child.children) = 1
                    /\ goal.means = MeaningHere(child.children[1])
  <2>1. /\ root.name = "methodResponse" /\ Len(root.children) = 1
        /\ \/ /\ child.name = "params" /\ goal.room = NestingLimit + 1
              /\ IsParams(child) /\ goal.means = ParamsOf(child)
           \/ /\ child.name = "fault" /\ goal.room = NestingLimit
              /\ Len(child.children) = 1
              /\ goal.means = MeaningHere(child.children[1])
    BY <1>3, <1>4, <1>6, <1>11 DEF ResponseWanted
  <2>2. only \in DOMAIN nodes /\ of[only] = child
    BY <1>4, <1>5, <2>1 DEF OnlyChild
  <2>3. nodes[only].name = child.name /\ child \in Elements
    BY <1>3, <1>5, <2>2, BuiltIs
  <2>4. QED
    BY <1>4, <1>7, <2>1, <2>3
<1>12. CASE ~fault /\ params
  <2>1. /\ returned \in DOMAIN values /\ HeapOK(values)
        /\ root.name = "methodResponse" /\ Len(root.children) = 1
        /\ child \in Elements /\ IsParams(child) /\ child.name = "params"
        /\ Says(values, returned, NestingLimit + 1) = ParamsOf(child)
    BY <1>3, <1>11, <1>12
  <2>2. /\ Len(items) = Len(child.children)
        /\ Len(items) = 1 => /\ items[1] \in DOMAIN values
                             /\ Says(values, items[1], NestingLimit) = ParamsOf(child)[2][1]
    BY <1>7, <2>1, ParamsSaid
  <2>3. ~IsFault(root)
    BY <1>4, <2>1 DEF IsFault
  <2>4. IsResult(root) <=> Len(items) = 1
    BY <1>4, <2>1, <2>2 DEF IsResult
  <2>5. CASE Len(items) # 1
    BY <1>8, <1>9, <1>12, <2>3, <2>4, <2>5
  <2>6. CASE Len(items) = 1
    <3>1. PICK w, heap2 : w = items[1] /\ heap2 = values'
      OBVIOUS
    <3>2. heap2 = IncRef(values, w) /\ result' = [kind |-> "response", value |-> w]
      BY <1>8, <1>12, <2>6, <3>1
    <3>3. result'.kind = "response" /\ result'.value = w
      BY <3>2
    <3>4. w \in DOMAIN values
      BY <2>2, <2>6, <3>1
    <3>5. Alike(values, heap2)
      BY <2>1, <3>2, <3>4, IncRefIs
    <3>6. SameIn(values, heap2, DOMAIN values) /\ DOMAIN heap2 = DOMAIN values
      BY <2>1, <3>5, AlikeSays DEF Alike
    <3>7. NestingLimit \in Nat
      BY LimitAssumption
    <3>8. Says(heap2, w, NestingLimit) = Says(values, w, NestingLimit)
      BY ONLY <3>4, <3>6, <3>7, SaysSame
    <3>9. ParamsOf(child)[2][1] = ResultOf(root)
      BY <1>4 DEF ResultOf
    <3>10. Says(values', result'.value, NestingLimit) = ResultOf(root)
      BY <2>2, <2>6, <3>1, <3>3, <3>8, <3>9
    <3>11. IsResult(root) /\ document'.root = root /\ document'.purpose = "response"
      BY <1>1, <1>4, <2>4, <2>6
    <3>12. Answered'
      BY ONLY <1>4, <2>3, <3>3, <3>10, <3>11 DEF Answered
    <3>13. QED
      BY <3>1, <3>3, <3>4, <3>6, <3>12
  <2>7. QED
    BY <2>5, <2>6
<1>13. CASE ~fault /\ ~params
  <2>1. /\ returned \in DOMAIN values /\ HeapOK(values)
        /\ root.name = "methodResponse" /\ Len(root.children) = 1
        /\ child \in Elements /\ child.name = "fault" /\ Len(child.children) = 1
        /\ Says(values, returned, NestingLimit) = MeaningHere(child.children[1])
    BY <1>3, <1>11, <1>13
  <2>2. child.children[1] \in Elements
    BY <2>1, ElementIs
  <2>3. IsFault(root) <=> IsFaultValue
    BY <1>4, <2>1, <2>2, FaultSaid
  <2>4. ~IsResult(root)
    BY <1>4, <2>1 DEF IsResult, IsParams
  <2>5. CASE ~IsFaultValue
    BY <1>8, <1>9, <1>13, <2>3, <2>4, <2>5
  <2>6. CASE IsFaultValue
    <3>1. result' = [kind |-> "fault"]
      BY <1>8, <1>13, <2>6
    <3>2. result'.kind = "fault"
      BY <3>1
    <3>3. QED
      BY <1>1, <1>4, <2>3, <2>4, <2>6, <3>2 DEF Answered
  <2>7. QED
    BY <2>5, <2>6
<1>14. QED
  BY <1>10, <1>12, <1>13
-----------------------------------------------------------------------------
(* Every step.                                                             *)

LEMMA ReadingMeans ==
    ASSUME IInv, \/ TooLarge \/ CreateParser \/ StartElement \/ EndElement
                 \/ CharacterData \/ NotXml
    PROVE  MeaningInv'
<1>1. \/ ranOut' = TRUE
      \/ pc' = "expat"
      \/ pc' = "done" /\ ~AllRead /\ reading' = reading
      \/ pc' = "done" /\ Oversized /\ document' = document
  BY DEF TooLarge, CreateParser, StartElement, EndElement, CharacterData, NotXml, Expat,
         GiveUp, RunsOut
<1>2. QED
  BY SMTT(30), <1>1 DEF MeaningInv, AllRead, Oversized

LEMMA EndOfXmlMeans ==
    ASSUME IInv, EndOfXml
    PROVE  MeaningInv'
<1>1. CASE barfed
  <2>1. ranOut' = ranOut /\ ranOut
    BY <1>1 DEF EndOfXml, IInv, TreeInv
  <2>2. QED
    BY <2>1 DEF MeaningInv
<1>2. CASE ~barfed
  <2>1. pc' = "tree" /\ methodName' = NoName
    BY <1>2 DEF EndOfXml, outVars, IInv, ValuesInv
  <2>2. HeaderRead'
    BY <2>1 DEF HeaderRead
  <2>3. QED
    BY <2>1, <2>2 DEF MeaningInv
<1>3. QED
  BY <1>1, <1>2

LEMMA StutterMeans ==
    ASSUME MeaningInv, UNCHANGED vars
    PROVE  MeaningInv'
<1>1. /\ UNCHANGED <<document, pc, reading, nodes, rootP, values, frames, returned, fault,
                     ranOut, methodName, result>>
  BY DEF vars, treeVars, valueVars, flags, outVars
<1>2. SUFFICES ASSUME ~ranOut PROVE MeaningInv'
  BY <1>1 DEF MeaningInv
<1>3. CASE pc \in {"convert", "ending"}
  <2>1. PICK of, goal : /\ Built(of) /\ GoalIs(goal)
                        /\ Meant(of, values, frames, returned, fault, goal)
    BY <1>2, <1>3 DEF MeaningInv
  <2>2. Meant(of, values', frames', returned', fault', goal) /\ pc' \in {"convert", "ending"}
    BY <1>1, <1>3, <2>1
  <2>3. QED
    BY ONLY <1>1, <2>1, <2>2, MeaningStays
<1>4. CASE pc = "tree"
  <2>1. HeaderRead
    BY SMTT(30), <1>2, <1>4 DEF MeaningInv
  <2>2. HeaderRead'
    BY ZenonT(30), <1>1, <2>1
       DEF HeaderRead, ChildByName, Named, Children, ChildCount, IsMethodName, TextOK
  <2>3. QED
    BY <1>1, <1>4, <2>2 DEF MeaningInv
<1>5. CASE pc \notin {"convert", "ending", "tree"}
  <2>1. Answered => Answered'
    BY <1>1 DEF Answered
  <2>2. QED
    BY <1>1, <1>2, <1>5, <2>1 DEF MeaningInv, AllRead, Oversized
<1>6. QED
  BY <1>3, <1>4, <1>5

LEMMA StepKeepsMeaning ==
    ASSUME IInv, MeaningInv, [Next]_vars
    PROVE  MeaningInv'
<1>1. CASE \/ TooLarge \/ CreateParser \/ StartElement \/ EndElement
           \/ CharacterData \/ NotXml
  BY <1>1, ReadingMeans
<1>2. CASE EndOfXml
  BY <1>2, EndOfXmlMeans
<1>3. CASE Object
  BY <1>3, ObjectMeans
<1>4. CASE NextItem
  BY <1>4, NextItemMeans
<1>5. CASE AppendItem
  BY <1>5, AppendItemMeans
<1>6. CASE SetMember
  BY <1>6, SetMemberMeans
<1>7. CASE ReturnMade
  BY <1>7, ReturnMadeMeans
<1>8. CASE Unwind
  BY <1>8, UnwindMeans
<1>9. CASE Converted
  BY <1>9, ConvertedMeans
<1>10. CASE Release
  BY <1>10, ReleaseMeans
<1>11. CASE TakeMethodName
  BY <1>11, TakeMethodNameMeans
<1>12. CASE TakeParams
  BY <1>12, TakeParamsMeans
<1>13. CASE EndCall
  BY <1>13, EndCallMeans
<1>14. CASE TakeResponse
  BY <1>14, TakeResponseMeans
<1>15. CASE EndResponse
  BY <1>15, EndResponseMeans
<1>16. CASE Terminated \/ UNCHANGED vars
  BY <1>16, StutterMeans DEF Terminated
<1>17. QED
  BY <1>1, <1>2, <1>3, <1>4, <1>5, <1>6, <1>7, <1>8, <1>9, <1>10, <1>11, <1>12, <1>13,
     <1>14, <1>15, <1>16 DEF Next

-----------------------------------------------------------------------------
(* What is not read, or not for want of memory, is refused.                *)

RefusalInv ==
    /\ pc = "start" => ~ranOut
    /\ pc # "start" => \/ pc = "done" /\ fault
                       \/ ~Oversized /\ (pc = "expat" \/ AllRead)
    /\ ranOut => \/ pc = "expat" /\ barfed
                 \/ pc # "expat" /\ fault

LEMMA RefusalSame ==
    ASSUME RefusalInv, UNCHANGED <<document, pc, reading, barfed, fault, ranOut>>
    PROVE  RefusalInv'
  BY DEF RefusalInv, Oversized, AllRead

(* After the document has been read.                                       *)
LEMMA RefusalStays ==
    ASSUME RefusalInv, pc \notin {"start", "expat"}, pc' \notin {"start", "expat"},
           pc = "done" => pc' = "done", UNCHANGED <<document, reading>>,
           fault => fault', ranOut' => ranOut \/ fault'
    PROVE  RefusalInv'
<1>1. AllRead' = AllRead /\ Oversized' = Oversized
  BY DEF AllRead, Oversized
<1>2. QED
  BY <1>1 DEF RefusalInv

LEMMA ReadingRefuses ==
    ASSUME IInv, RefusalInv,
           \/ TooLarge \/ CreateParser \/ StartElement \/ EndElement
           \/ CharacterData \/ NotXml \/ EndOfXml
    PROVE  RefusalInv'
<1>1. CASE TooLarge
  BY <1>1 DEF TooLarge, GiveUp, RefusalInv
<1>2. CASE CreateParser
  <2>1. /\ pc = "start" /\ ~Oversized /\ document' = document
        /\ \/ pc' = "done" /\ fault'
           \/ pc' = "expat" /\ ranOut' = ranOut
    BY <1>2 DEF CreateParser, GiveUp
  <2>2. QED
    BY <2>1 DEF RefusalInv, Oversized
<1>3. CASE StartElement \/ EndElement \/ CharacterData
  <2>1. pc = "expat" /\ pc' = "expat" /\ document' = document
    BY ZenonT(40), <1>3 DEF StartElement, EndElement, CharacterData, Expat
  <2>2. barfed' = TRUE \/ (barfed' = barfed /\ ranOut' = ranOut)
    BY <1>3 DEF StartElement, EndElement, CharacterData, Ignored, HandlerFails
  <2>3. QED
    BY SMTT(40), <2>1, <2>2 DEF RefusalInv, Oversized
<1>4. CASE NotXml
  BY <1>4 DEF NotXml, GiveUp, RefusalInv
<1>5. CASE EndOfXml
  <2>1. /\ pc = "expat" /\ AllRead /\ UNCHANGED <<document, reading, ranOut>>
        /\ \/ pc' = "done" /\ fault'
           \/ ~barfed /\ pc' = "tree"
    BY <1>5 DEF EndOfXml, GiveUp, treeVars
  <2>2. QED
    BY <2>1 DEF RefusalInv, Oversized, AllRead
<1>6. QED
  BY <1>1, <1>2, <1>3, <1>4, <1>5

LEMMA ConvertingRefuses ==
    ASSUME RefusalInv, \/ Object \/ NextItem \/ AppendItem \/ SetMember \/ ReturnMade
    PROVE  RefusalInv'
<1>1. pc = "convert" /\ pc' = "convert" /\ ~fault /\ UNCHANGED <<document, reading>>
  <2>1. Converting
    BY DEF Object, NextItem, AppendItem, SetMember, ReturnMade
  <2>2. QED
    BY SMTT(30), <2>1 DEF Converting, treeVars
<1>2. ranOut' => ranOut \/ fault'
  <2>1. CASE Object
    BY SMTT(30), <2>1 DEF Object
  <2>2. CASE NextItem
    BY <2>2 DEF NextItem, ConvertValue, MakeKey, BuildFails, flags
  <2>3. CASE AppendItem
    BY <2>3 DEF AppendItem, NoRoom, Advance, flags
  <2>4. CASE SetMember
    BY <2>4 DEF SetMember, NoRoom, Advance, flags
  <2>5. CASE ReturnMade
    BY <2>5 DEF ReturnMade, flags
  <2>6. QED
    BY <2>1, <2>2, <2>3, <2>4, <2>5
<1>3. QED
  BY ONLY <1>1, <1>2, RefusalInv, RefusalStays

LEMMA StepKeepsRefusal ==
    ASSUME IInv, RefusalInv, [Next]_vars
    PROVE  RefusalInv'
<1>1. CASE \/ TooLarge \/ CreateParser \/ StartElement \/ EndElement
           \/ CharacterData \/ NotXml \/ EndOfXml
  BY <1>1, ReadingRefuses
<1>2. CASE Object \/ NextItem \/ AppendItem \/ SetMember \/ ReturnMade
  BY <1>2, ConvertingRefuses
<1>3. CASE Unwind \/ Release \/ Terminated \/ UNCHANGED vars
  <2>1. UNCHANGED <<document, pc, reading, barfed, fault, ranOut>>
    BY <1>3 DEF Unwind, Release, Terminated, vars, treeVars, flags
  <2>2. QED
    BY <2>1, RefusalSame
<1>4. CASE Converted
  <2>1. /\ pc = "convert" /\ pc' = "ending"
        /\ UNCHANGED <<document, reading, fault, ranOut>>
    BY <1>4 DEF Converted, treeVars, flags
  <2>2. QED
    BY <2>1, RefusalStays
<1>5. CASE TakeMethodName \/ TakeParams \/ TakeResponse
  <2>1. pc = "tree" /\ pc' \in {"tree", "convert", "ending"} /\ UNCHANGED <<document, reading>>
    BY <1>5 DEF TakeMethodName, TakeParams, TakeResponse, treeVars
  <2>2. ~fault
    BY <2>1 DEF IInv, ValuesInv
  <2>3. ranOut' => ranOut \/ fault'
    <3>1. CASE TakeMethodName
      BY <3>1 DEF TakeMethodName
    <3>2. CASE TakeParams
      BY <3>2 DEF TakeParams, ConvertParams, BuildFails, flags
    <3>3. CASE TakeResponse
      BY <3>3 DEF TakeResponse, ConvertParams, ConvertValue, BuildFails, flags
    <3>4. QED
      BY <1>5, <3>1, <3>2, <3>3
  <2>4. QED
    BY <2>1, <2>2, <2>3, RefusalStays
<1>6. CASE EndCall \/ EndResponse
  <2>1. pc = "ending" /\ pc' = "done" /\ UNCHANGED <<document, reading>>
    BY <1>6 DEF EndCall, EndResponse, End
  <2>2. (fault => fault') /\ (ranOut' => ranOut \/ fault')
    <3>1. CASE EndCall
      <4>1. ranOut' = ranOut /\ (fault => fault')
        BY <3>1 DEF EndCall
      <4>2. QED
        BY <4>1
    <3>2. CASE EndResponse
      <4>1. fault' = TRUE \/ (fault' = fault /\ ranOut' = ranOut)
        BY <3>2, Zenon DEF EndResponse, Refuse
      <4>2. QED
        BY <4>1
    <3>3. QED
      BY <1>6, <3>1, <3>2
  <2>3. QED
    BY <2>1, <2>2, RefusalStays
<1>7. QED
  BY <1>1, <1>2, <1>3, <1>4, <1>5, <1>6 DEF Next

LEMMA MeansFollows ==
    ASSUME IInv, MeaningInv, RefusalInv
    PROVE  MeansTheDocument
<1> SUFFICES ASSUME Over PROVE MeansTheDocument
  BY DEF MeansTheDocument
<1>1. pc = "done"
  BY DEF Over
<1>2. PICK read : read = (~Oversized /\ AllRead /\ ~ranOut)
  OBVIOUS
<1>3. CASE read
  <2>1. Answered
    BY <1>1, <1>2, <1>3 DEF MeaningInv
  <2>2. QED
    BY <1>2, <1>3, <2>1, Zenon DEF Answered, MeansTheDocument
<1>4. CASE ~read
  <2>1. fault
    BY <1>1, <1>2, <1>4, Zenon DEF RefusalInv
  <2>2. result = Refused
    BY <1>1, <2>1 DEF IInv, ValuesInv
  <2>3. QED
    BY <1>2, <1>4, <2>2, Zenon DEF MeansTheDocument
<1>5. QED
  BY <1>3, <1>4

(* A document is accepted if and only if it is no larger than the limit,   *)
(* is XML and in the grammar, and memory does not run out, and then what   *)
(* comes out is what it means: for any documents, however wide and deep,   *)
(* and any limits on their size and nesting.                               *)
THEOREM MeansWhatItSays == Spec => []MeansTheDocument
<1>1. Init => MeaningInv /\ RefusalInv
  BY DEF Init, MeaningInv, RefusalInv
<1>2. IInv /\ MeaningInv /\ [Next]_vars => MeaningInv'
  BY StepKeepsMeaning
<1>3. IInv /\ RefusalInv /\ [Next]_vars => RefusalInv'
  BY StepKeepsRefusal
<1>4. IInv /\ MeaningInv /\ RefusalInv => MeansTheDocument
  BY MeansFollows
<1>5. QED
  BY <1>1, <1>2, <1>3, <1>4, Invariance, PTL DEF Spec
=============================================================================
