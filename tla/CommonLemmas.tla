---------------------------- MODULE CommonLemmas ----------------------------
(***************************************************************************)
(* Facts that the proofs about several components need.  The first part    *)
(* is about sequences: induction over a set of numbers, what FlattenSeq    *)
(* makes of a sequence of sequences, and how often something occurs in a   *)
(* sequence, or among what the values of a heap hold (ReferenceCounts).    *)
(*                                                                         *)
(* The second part is about heaps of values as xmlrpc_parse.c makes them:  *)
(* what a heap is like in which every value has exactly the references of  *)
(* the values that hold it, of the conversions under way (frames), of what *)
(* is being released and of the outcome, and how each change of a heap     *)
(* keeps it so.                                                            *)
(***************************************************************************)
EXTENDS Integers, SequencesExt, ReferenceCounts, SequenceTheorems,
        FiniteSetTheorems, WellFoundedInduction, TLAPS

(* Induction, for a set that is given as such.                             *)
LEMMA NatSetInduction ==
    ASSUME NEW T, 0 \in T, \A n \in Nat : n \in T => n + 1 \in T
    PROVE  Nat \subseteq T
<1> DEFINE U == Nat \ T
           less == OpToRel(<, Nat)
<1> SUFFICES ASSUME U # {} PROVE FALSE
  OBVIOUS
<1>1. \A i, j \in Nat : <<j, i>> \notin less => i <= j
  BY DEF OpToRel
<1>2. IsWellFoundedOn(less, Nat)
  BY NatLessThanWellFounded
<1> HIDE DEF less
<1>3. PICK m \in U : \A j \in U : <<j, m>> \notin less
  <2>1. U \subseteq Nat
    OBVIOUS
  <2> HIDE DEF U
  <2>2. QED
    BY <1>2, <2>1, WFMin, Zenon
<1>4. m \in Nat /\ m \notin T /\ \A j \in U : m <= j
  BY <1>1, <1>3
<1>5. m # 0 /\ m - 1 \in Nat /\ ~(m <= m - 1)
  BY <1>4
<1>6. m - 1 \in T
  BY <1>4, <1>5
<1>7. (m - 1) + 1 \in T
  BY <1>5, <1>6
<1>8. QED
  BY <1>4, <1>7

(***************************************************************************)
(* Joined(s, n, f): f[i] is what the first i sequences of s make, as in    *)
(* the definition of FlattenSeq.                                           *)
(***************************************************************************)
Joined(s, n, f) ==
    f = [i \in 1..n |-> IF i = 1 THEN s[i] ELSE f[i - 1] \o s[i]]

(* There is at most one such function, whatever its domain.                *)
LEMMA JoinedUnique ==
    ASSUME NEW s, NEW n \in Nat, NEW k \in 0..n, NEW f, NEW g,
           Joined(s, n, f), Joined(s, k, g)
    PROVE  \A i \in 1..k : g[i] = f[i]
<1> DEFINE T == {i \in Nat : i \in 1..k => g[i] = f[i]}
<1>1. \A i \in 1..n : f[i] = IF i = 1 THEN s[i] ELSE f[i - 1] \o s[i]
  BY Zenon DEF Joined
<1>2. \A i \in 1..k : g[i] = IF i = 1 THEN s[i] ELSE g[i - 1] \o s[i]
  BY Zenon DEF Joined
<1>3. 0 \in T
  OBVIOUS
<1>4. ASSUME NEW i \in Nat, i \in T PROVE i + 1 \in T
  <2> SUFFICES ASSUME i + 1 \in 1..k PROVE g[i + 1] = f[i + 1]
    OBVIOUS
  <2>1. /\ i + 1 \in 1..n /\ (i + 1) - 1 = i
        /\ f[i + 1] = IF i + 1 = 1 THEN s[i + 1] ELSE f[(i + 1) - 1] \o s[i + 1]
        /\ g[i + 1] = IF i + 1 = 1 THEN s[i + 1] ELSE g[(i + 1) - 1] \o s[i + 1]
    BY <1>1, <1>2
  <2>2. CASE i = 0
    BY <2>1, <2>2
  <2>3. CASE i # 0
    <3>1. i \in 1..k
      BY <2>3
    <3>2. g[i] = f[i]
      BY <1>4, <3>1
    <3>3. QED
      BY <2>1, <2>3, <3>2
  <2>4. QED
    BY <2>2, <2>3
<1> HIDE DEF T
<1>5. Nat \subseteq T
  BY <1>3, <1>4, NatSetInduction, Zenon
<1>6. QED
  BY <1>5 DEF T

(* There is one.                                                           *)
LEMMA JoinedExists ==
    ASSUME NEW S, NEW s, NEW n \in Nat, \A i \in 1..n : s[i] \in Seq(S)
    PROVE  \E f \in [1..n -> Seq(S)] : Joined(s, n, f)
<1> DEFINE T == {m \in Nat : m \in 0..n =>
                     \E f \in [1..m -> Seq(S)] : Joined(s, m, f)}
<1>1. 0 \in T
  <2>1. [i \in 1..0 |-> <<>>] \in [1..0 -> Seq(S)]
    OBVIOUS
  <2>2. Joined(s, 0, [i \in 1..0 |-> <<>>])
    BY DEF Joined
  <2>3. QED
    BY <2>1, <2>2
<1>2. ASSUME NEW m \in Nat, m \in T PROVE m + 1 \in T
  <2> SUFFICES ASSUME m + 1 \in 0..n
               PROVE  \E f \in [1..(m + 1) -> Seq(S)] : Joined(s, m + 1, f)
    OBVIOUS
  <2>1. PICK f \in [1..m -> Seq(S)] : Joined(s, m, f)
    BY <1>2
  <2>2. \A i \in 1..m : f[i] = IF i = 1 THEN s[i] ELSE f[i - 1] \o s[i]
    BY <2>1, Zenon DEF Joined
  <2> DEFINE g == [i \in 1..(m + 1) |->
                      IF i <= m THEN f[i]
                      ELSE IF i = 1 THEN s[i] ELSE f[i - 1] \o s[i]]
  <2>3. ASSUME NEW i \in 1..(m + 1)
        PROVE  /\ g[i] \in Seq(S)
               /\ g[i] = IF i = 1 THEN s[i] ELSE g[i - 1] \o s[i]
    <3>1. CASE i <= m
      <4>1. i \in 1..m /\ g[i] = f[i]
        BY <3>1
      <4>2. i # 1 => i - 1 \in 1..m /\ g[i - 1] = f[i - 1]
        BY <3>1
      <4>3. QED
        BY <2>2, <4>1, <4>2
    <3>2. CASE i = 1 /\ m = 0
      BY <3>2
    <3>3. CASE i = m + 1 /\ m # 0
      <4>1. i - 1 \in 1..m /\ i # 1 /\ ~(i <= m)
        BY <3>3
      <4>2. g[i - 1] = f[i - 1] /\ f[i - 1] \in Seq(S)
        BY <4>1
      <4>3. g[i] = f[i - 1] \o s[i]
        BY <4>1
      <4>4. s[i] \in Seq(S)
        BY <3>3
      <4>5. f[i - 1] \o s[i] \in Seq(S)
        BY <4>2, <4>4, ConcatProperties
      <4>6. QED
        BY <4>1, <4>2, <4>3, <4>5
    <3>4. QED
      BY <3>1, <3>2, <3>3
  <2>4. g \in [1..(m + 1) -> Seq(S)]
    BY <2>3
  <2>5. Joined(s, m + 1, g)
    <3>1. g = [i \in 1..(m + 1) |-> g[i]]
      OBVIOUS
    <3> HIDE DEF g
    <3>2. QED
      BY <2>3, <3>1, Zenon DEF Joined
  <2>6. QED
    BY <2>4, <2>5
<1> HIDE DEF T
<1>3. Nat \subseteq T
  BY <1>1, <1>2, NatSetInduction, Zenon
<1>4. QED
  BY <1>3 DEF T

(* The definition of FlattenSeq is one of such a function.                 *)
LEMMA FlattenJoins ==
    ASSUME NEW S, NEW s \in Seq(Seq(S)), s # <<>>
    PROVE  \E f \in [1..Len(s) -> Seq(S)] :
               Joined(s, Len(s), f) /\ FlattenSeq(s) = f[Len(s)]
<1> DEFINE n == Len(s)
           flatten == CHOOSE f : f = [i \in 1..n |->
                          IF i = 1 THEN s[i] ELSE f[i - 1] \o s[i]]
<1>1. n \in Nat /\ n # 0 /\ \A i \in 1..n : s[i] \in Seq(S)
  OBVIOUS
<1>2. PICK f \in [1..n -> Seq(S)] : Joined(s, n, f)
  <2> HIDE DEF n
  <2>1. QED
    BY <1>1, JoinedExists
<1>3. FlattenSeq(s) = flatten[n]
  BY <1>1, Zenon DEF FlattenSeq
<1>4. Joined(s, n, flatten)
  BY <1>2, Zenon DEF Joined
<1> HIDE DEF flatten
<1>5. \A i \in 1..n : flatten[i] = f[i]
  BY <1>1, <1>2, <1>4, JoinedUnique
<1>6. n \in 1..n
  BY <1>1
<1>7. QED
  BY <1>2, <1>3, <1>5, <1>6

(* FlattenSeq(SubSeq(s, 1, k)) is what the first k sequences of s make.     *)
Prefix(s, k) == FlattenSeq(SubSeq(s, 1, k))

(* They grow by one sequence at a time, up to the whole.                   *)
LEMMA FlattenPrefixes ==
    ASSUME NEW S, NEW s \in Seq(Seq(S))
    PROVE  /\ Prefix(s, 0) = <<>>
           /\ \A k \in 0..Len(s) : Prefix(s, k) \in Seq(S)
           /\ \A k \in 1..Len(s) : Prefix(s, k) = Prefix(s, k - 1) \o s[k]
           /\ Prefix(s, Len(s)) = FlattenSeq(s)
<1>1. Len(s) \in Nat /\ \A i \in 1..Len(s) : s[i] \in Seq(S)
  OBVIOUS
<1>2. Prefix(s, 0) = <<>>
  <2>1. SubSeq(s, 1, 0) = <<>>
    OBVIOUS
  <2>2. Len(<<>>) = 0
    OBVIOUS
  <2>3. QED
    BY <2>1, <2>2, Zenon DEF Prefix, FlattenSeq
<1>3. Prefix(s, Len(s)) = FlattenSeq(s)
  BY SubSeqFull DEF Prefix
<1>4. PICK f : f \in [1..Len(s) -> Seq(S)] /\ Joined(s, Len(s), f)
  BY <1>1, JoinedExists
<1>5. \A i \in 1..Len(s) : f[i] = IF i = 1 THEN s[i] ELSE f[i - 1] \o s[i]
  BY <1>4, Zenon DEF Joined
<1>6. ASSUME NEW k \in 1..Len(s) PROVE Prefix(s, k) = f[k]
  <2> DEFINE t == SubSeq(s, 1, k)
  <2>1. k \in Nat /\ k # 0 /\ k \in 0..Len(s)
    OBVIOUS
  <2>2. t \in Seq(Seq(S)) /\ Len(t) = k /\ \A i \in 1..k : t[i] = s[i]
    BY <1>1
  <2> HIDE DEF t
  <2>3. t # <<>>
    BY <2>1, <2>2
  <2>4. PICK g : Joined(t, k, g) /\ FlattenSeq(t) = g[k]
    BY <2>2, <2>3, FlattenJoins
  <2>5. Joined(s, k, g)
    <3>1. [i \in 1..k |-> IF i = 1 THEN t[i] ELSE g[i - 1] \o t[i]]
            = [i \in 1..k |-> IF i = 1 THEN s[i] ELSE g[i - 1] \o s[i]]
      BY <2>2
    <3>2. QED
      BY <2>4, <3>1, Zenon DEF Joined
  <2>6. g[k] = f[k]
    <3> DEFINE n == Len(s)
    <3>0. n \in Nat /\ k \in 0..n /\ Joined(s, n, f) /\ Joined(s, k, g)
      BY <1>1, <1>4, <2>1, <2>5
    <3> HIDE DEF n
    <3>1. \A i \in 1..k : g[i] = f[i]
      BY <3>0, JoinedUnique
    <3>2. k \in 1..k
      BY <2>1
    <3>3. QED
      BY <3>1, <3>2
  <2>7. QED
    BY <2>4, <2>6 DEF Prefix, t
<1>7. ASSUME NEW k \in 1..Len(s)
      PROVE  Prefix(s, k) = Prefix(s, k - 1) \o s[k]
  <2>1. CASE k = 1
    <3>1. Prefix(s, k) = s[k]
      BY <1>5, <1>6, <2>1
    <3>2. s[k] = <<>> \o s[k]
      BY <1>1, ConcatEmptySeq
    <3>3. QED
      BY <1>2, <2>1, <3>1, <3>2
  <2>2. CASE k # 1
    <3>1. k - 1 \in 1..Len(s)
      BY <2>2
    <3>2. QED
      BY <1>5, <1>6, <2>2, <3>1
  <2>3. QED
    BY <2>1, <2>2
<1>8. ASSUME NEW k \in 0..Len(s) PROVE Prefix(s, k) \in Seq(S)
  <2>1. CASE k = 0
    <3>1. <<>> \in Seq(S)
      OBVIOUS
    <3>2. QED
      BY <1>2, <2>1, <3>1, Zenon
  <2>2. CASE k # 0
    <3>1. k \in 1..Len(s)
      BY <2>2
    <3>2. f[k] \in Seq(S)
      BY <1>4, <3>1
    <3>3. QED
      BY <1>6, <3>1, <3>2, Zenon
  <2>3. QED
    BY <2>1, <2>2
<1>9. QED
  BY <1>2, <1>3, <1>7, <1>8

(***************************************************************************)
(* Where the k-th sequence of s is in the flattened one: right after the   *)
(* ones before it.                                                         *)
(***************************************************************************)
LEMMA FlattenPlaces ==
    ASSUME NEW S, NEW s \in Seq(Seq(S)), NEW k \in 1..Len(s)
    PROVE  /\ Len(Prefix(s, k)) = Len(Prefix(s, k - 1)) + Len(s[k])
           /\ Len(Prefix(s, k)) <= Len(FlattenSeq(s))
           /\ \A j \in 1..Len(s[k]) :
                  FlattenSeq(s)[Len(Prefix(s, k - 1)) + j] = s[k][j]
<1>1. /\ \A i \in 0..Len(s) : Prefix(s, i) \in Seq(S)
      /\ \A i \in 1..Len(s) : Prefix(s, i) = Prefix(s, i - 1) \o s[i]
      /\ Prefix(s, Len(s)) = FlattenSeq(s)
  BY FlattenPrefixes
<1>2. /\ s[k] \in Seq(S) /\ Prefix(s, k - 1) \in Seq(S)
      /\ k - 1 \in 0..Len(s) /\ Len(s) \in Nat
  BY <1>1
<1>3. /\ Len(Prefix(s, k)) = Len(Prefix(s, k - 1)) + Len(s[k])
      /\ \A j \in 1..Len(s[k]) :
             Prefix(s, k)[Len(Prefix(s, k - 1)) + j] = s[k][j]
  <2>1. Prefix(s, k) = Prefix(s, k - 1) \o s[k]
    BY <1>1
  <2> DEFINE a == Prefix(s, k - 1)
             b == s[k]
  <2>2. a \in Seq(S) /\ b \in Seq(S) /\ Len(a) \in Nat /\ Len(b) \in Nat
    BY <1>2
  <2> HIDE DEF a, b
  <2>3. /\ Len(a \o b) = Len(a) + Len(b)
        /\ \A j \in 1..Len(b) : (a \o b)[Len(a) + j] = b[j]
    BY <2>2
  <2>4. QED
    BY <2>1, <2>3 DEF a, b
<1> DEFINE Keeps(m) == /\ Len(Prefix(s, k)) <= Len(Prefix(s, m))
                       /\ \A j \in 1..Len(Prefix(s, k)) :
                              Prefix(s, m)[j] = Prefix(s, k)[j]
           T == {m \in Nat : m \in k..Len(s) => Keeps(m)}
<1>4. 0 \in T
  OBVIOUS
<1>5. ASSUME NEW m \in Nat, m \in T PROVE m + 1 \in T
  <2> SUFFICES ASSUME m + 1 \in k..Len(s) PROVE Keeps(m + 1)
    OBVIOUS
  <2>1. CASE m + 1 = k
    <3>1. Len(Prefix(s, k)) \in Nat
      BY <1>1
    <3>2. QED
      BY <2>1, <3>1
  <2>2. CASE m + 1 # k
    <3>1. m \in k..Len(s) /\ m \in 0..Len(s) /\ m + 1 \in 1..Len(s)
          /\ k \in 0..Len(s) /\ (m + 1) - 1 = m
      BY <2>2
    <3>2. Keeps(m)
      BY <1>5, <3>1
    <3> DEFINE a == Prefix(s, m)
               b == s[m + 1]
               c == Prefix(s, k)
    <3>3. a \in Seq(S) /\ b \in Seq(S) /\ c \in Seq(S)
          /\ Prefix(s, m + 1) = a \o b
      <4>1. b \in Seq(S)
        BY <3>1
      <4>2. Prefix(s, m + 1) = Prefix(s, (m + 1) - 1) \o s[m + 1]
        BY <1>1, <3>1, Zenon
      <4>3. QED
        BY <1>1, <3>1, <4>1, <4>2, Zenon
    <3>4. Len(c) <= Len(a) /\ \A j \in 1..Len(c) : a[j] = c[j]
      BY <3>2
    <3> HIDE DEF a, b, c
    <3>5. Len(c) <= Len(a \o b) /\ \A j \in 1..Len(c) : (a \o b)[j] = c[j]
      BY <3>3, <3>4
    <3>6. QED
      BY <3>3, <3>5 DEF c
  <2>3. QED
    BY <2>1, <2>2
<1> HIDE DEF T
<1>6. Nat \subseteq T
  BY <1>4, <1>5, NatSetInduction, Zenon
<1>7. Keeps(Len(s))
  BY <1>2, <1>6 DEF T
<1>8. \A j \in 1..Len(s[k]) :
          Len(Prefix(s, k - 1)) + j \in 1..Len(Prefix(s, k))
  <2>1. Len(Prefix(s, k - 1)) \in Nat /\ Len(s[k]) \in Nat
    BY <1>2
  <2>2. QED
    BY <1>3, <2>1
<1>9. QED
  BY <1>1, <1>3, <1>7, <1>8

(* What is one longer and otherwise the same.                              *)
LEMMA AppendIs ==
    ASSUME NEW S, NEW q \in Seq(S), NEW r \in Seq(S), NEW b \in S,
           Len(r) = Len(q) + 1, r[Len(r)] = b, \A k \in 1..Len(q) : r[k] = q[k]
    PROVE  Append(q, b) = r
<1> DEFINE p == Append(q, b)
<1>1. /\ p \in Seq(S) /\ Len(p) = Len(q) + 1 /\ p[Len(q) + 1] = b
      /\ \A k \in 1..Len(q) : p[k] = q[k]
  BY AppendProperties
<1> HIDE DEF p
<1>2. Len(q) \in Nat
  OBVIOUS
<1>3. \A k \in 1..Len(p) : p[k] = r[k]
  <2>1. \A k \in 1..Len(p) : k \in 1..Len(q) \/ k = Len(q) + 1
    BY <1>1, <1>2
  <2>2. QED
    BY <1>1, <2>1
<1>4. p = r
  BY <1>1, <1>3, SeqEqual
<1>5. QED
  BY <1>4 DEF p

(* Appending to short sequences.                                           *)
LEMMA Appends ==
    /\ \A a, b : Append(<<a>>, b) = <<a, b>>
    /\ \A a, b, c : Append(<<a, b>>, c) = <<a, b, c>>
    /\ \A a, b, c, d : Append(<<a, b, c>>, d) = <<a, b, c, d>>
<1>1. ASSUME NEW a, NEW b
      PROVE  Append(<<a>>, b) = <<a, b>>
  <2> DEFINE S == {a, b}
             q == <<a>>
             r == <<a, b>>
  <2>1. q \in Seq(S) /\ r \in Seq(S) /\ b \in S
    OBVIOUS
  <2>2. /\ Len(q) = 1 /\ Len(r) = 2
        /\ q[1] = a
        /\ r[1] = a /\ r[2] = b
    OBVIOUS
  <2> HIDE DEF S, q, r
  <2>3. /\ Len(r) = Len(q) + 1 /\ r[Len(r)] = b
        /\ \A k \in 1..Len(q) : r[k] = q[k]
    BY <2>2
  <2>4. Append(q, b) = r
    BY ONLY <2>1, <2>3, AppendIs
  <2>5. QED
    BY <2>4 DEF q, r
<1>2. ASSUME NEW a, NEW b, NEW c
      PROVE  Append(<<a, b>>, c) = <<a, b, c>>
  <2> DEFINE S == {a, b, c}
             q == <<a, b>>
             r == <<a, b, c>>
  <2>1. q \in Seq(S) /\ r \in Seq(S) /\ c \in S
    OBVIOUS
  <2>2. /\ Len(q) = 2 /\ Len(r) = 3
        /\ q[1] = a /\ q[2] = b
        /\ r[1] = a /\ r[2] = b /\ r[3] = c
    OBVIOUS
  <2> HIDE DEF S, q, r
  <2>3. /\ Len(r) = Len(q) + 1 /\ r[Len(r)] = c
        /\ \A k \in 1..Len(q) : r[k] = q[k]
    BY <2>2
  <2>4. Append(q, c) = r
    BY ONLY <2>1, <2>3, AppendIs
  <2>5. QED
    BY <2>4 DEF q, r
<1>3. ASSUME NEW a, NEW b, NEW c, NEW d
      PROVE  Append(<<a, b, c>>, d) = <<a, b, c, d>>
  <2> DEFINE S == {a, b, c, d}
             q == <<a, b, c>>
             r == <<a, b, c, d>>
  <2>1. q \in Seq(S) /\ r \in Seq(S) /\ d \in S
    OBVIOUS
  <2>2. /\ Len(q) = 3 /\ Len(r) = 4
        /\ q[1] = a /\ q[2] = b /\ q[3] = c
        /\ r[1] = a /\ r[2] = b /\ r[3] = c /\ r[4] = d
    OBVIOUS
  <2> HIDE DEF S, q, r
  <2>3. /\ Len(r) = Len(q) + 1 /\ r[Len(r)] = d
        /\ \A k \in 1..Len(q) : r[k] = q[k]
    BY <2>2
  <2>4. Append(q, d) = r
    BY ONLY <2>1, <2>3, AppendIs
  <2>5. QED
    BY <2>4 DEF q, r
<1>4. QED
  BY <1>1, <1>2, <1>3
-----------------------------------------------------------------------------
(* Counting.                                                               *)

LEMMA PlacesAre ==
    ASSUME NEW k, NEW v
    PROVE  /\ \A p \in Places(k, v) :
                  /\ p = <<p[1], p[2]>> /\ p[1] \in DOMAIN k
                  /\ p[2] \in DOMAIN k[p[1]] /\ k[p[1]][p[2]] = v
           /\ \A a \in DOMAIN k : \A i \in DOMAIN k[a] :
                  k[a][i] = v => <<a, i>> \in Places(k, v)
<1>1. ASSUME NEW p \in Places(k, v)
      PROVE  /\ p = <<p[1], p[2]>> /\ p[1] \in DOMAIN k
             /\ p[2] \in DOMAIN k[p[1]] /\ k[p[1]][p[2]] = v
  <2>1. /\ p \in UNION {{a} \X DOMAIN k[a] : a \in DOMAIN k}
        /\ k[p[1]][p[2]] = v
    BY DEF Places
  <2>2. PICK a \in DOMAIN k : p \in {a} \X DOMAIN k[a]
    BY <2>1
  <2>3. p = <<p[1], p[2]>> /\ p[1] = a /\ p[2] \in DOMAIN k[a]
    BY <2>2
  <2>4. QED
    BY <2>1, <2>3
<1>2. ASSUME NEW a \in DOMAIN k, NEW i \in DOMAIN k[a], k[a][i] = v
      PROVE  <<a, i>> \in Places(k, v)
  <2>1. <<a, i>> \in {a} \X DOMAIN k[a]
    OBVIOUS
  <2>2. <<a, i>> \in UNION {{b} \X DOMAIN k[b] : b \in DOMAIN k}
    BY <2>1
  <2>3. <<a, i>>[1] = a /\ <<a, i>>[2] = i
    OBVIOUS
  <2>4. QED
    BY <1>2, <2>2, <2>3 DEF Places
<1>3. QED
  BY <1>1, <1>2

HoldsSeqs(k, V) ==
    IsFiniteSet(DOMAIN k) /\ \A a \in DOMAIN k : k[a] \in Seq(V)

LEMMA PlacesFiniteIn ==
    ASSUME NEW V, NEW k, HoldsSeqs(k, V), NEW v
    PROVE  IsFiniteSet(Places(k, v)) /\ Cardinality(Places(k, v)) \in Nat
<1> DEFINE Row(a) == {a} \X DOMAIN k[a]
           Rows == {Row(a) : a \in DOMAIN k}
           f == [a \in DOMAIN k |-> Row(a)]
<1>1. f \in Surjection(DOMAIN k, Rows)
  BY DEF Surjection
<1>2. IsFiniteSet(Rows)
  <2> HIDE DEF f, Rows
  <2>1. QED
    BY <1>1, FS_Surjection DEF HoldsSeqs
<1>3. \A T \in Rows : IsFiniteSet(T)
  <2> SUFFICES ASSUME NEW a \in DOMAIN k PROVE IsFiniteSet(Row(a))
    OBVIOUS
  <2>1. k[a] \in Seq(V)
    BY DEF HoldsSeqs
  <2>2. Len(k[a]) \in Nat /\ DOMAIN k[a] = 1..Len(k[a])
    BY <2>1
  <2>3. IsFiniteSet(DOMAIN k[a])
    BY <2>2, FS_Interval
  <2>4. IsFiniteSet({a})
    BY FS_Singleton
  <2>5. QED
    BY <2>3, <2>4, FS_Product
<1>4. IsFiniteSet(UNION Rows)
  <2> HIDE DEF Rows
  <2>1. QED
    BY <1>2, <1>3, FS_UNION
<1>5. Places(k, v) \in SUBSET (UNION Rows)
  BY DEF Places
<1>6. IsFiniteSet(Places(k, v))
  <2> HIDE DEF Rows
  <2>1. QED
    BY <1>4, <1>5, FS_Subset
<1>7. QED
  BY <1>6, FS_CardinalityType

(* An occurrence more or less.                                             *)
OneIf(b) == IF b THEN 1 ELSE 0

LEMMA OnePlace ==
    ASSUME NEW P, NEW Q, NEW p, IsFiniteSet(P), P \ {p} = Q \ {p}
    PROVE  /\ IsFiniteSet(Q)
           /\ Cardinality(P) \in Nat /\ Cardinality(Q) \in Nat
           /\ Cardinality(Q) + OneIf(p \in P) = Cardinality(P) + OneIf(p \in Q)
<1> DEFINE R == P \ {p}
<1>1. IsFiniteSet(R) /\ Cardinality(R) \in Nat
  BY FS_RemoveElement, FS_CardinalityType
<1>2. /\ p \in P => P = R \union {p}
      /\ p \notin P => P = R
      /\ p \in Q => Q = R \union {p}
      /\ p \notin Q => Q = R
      /\ p \notin R
  OBVIOUS
<1> HIDE DEF R
<1>3. /\ IsFiniteSet(R \union {p})
      /\ Cardinality(R \union {p}) = Cardinality(R) + 1
  BY <1>1, <1>2, FS_AddElement
<1>4. /\ Cardinality(P) = Cardinality(R) + OneIf(p \in P)
      /\ Cardinality(Q) = Cardinality(R) + OneIf(p \in Q)
      /\ IsFiniteSet(Q)
  BY <1>1, <1>2, <1>3 DEF OneIf
<1>5. OneIf(p \in P) \in Nat /\ OneIf(p \in Q) \in Nat
  BY DEF OneIf
<1> HIDE DEF OneIf
<1>6. QED
  BY <1>1, <1>4, <1>5

LEMMA CountIn ==
    ASSUME NEW V, NEW s \in Seq(V), NEW v
    PROVE  /\ IsFiniteSet({i \in DOMAIN s : s[i] = v})
           /\ Count(s, v) \in Nat
           /\ Count(s, v) = 0 <=> \A i \in DOMAIN s : s[i] # v
<1> DEFINE C == {i \in DOMAIN s : s[i] = v}
<1>1. Len(s) \in Nat /\ DOMAIN s = 1..Len(s)
  OBVIOUS
<1>2. IsFiniteSet(1..Len(s))
  BY <1>1, FS_Interval
<1>3. C \in SUBSET (1..Len(s))
  BY <1>1
<1>4. Count(s, v) = Cardinality(C)
  BY DEF Count
<1>5. C = {} <=> \A i \in DOMAIN s : s[i] # v
  OBVIOUS
<1> HIDE DEF C
<1>6. IsFiniteSet(C)
  BY <1>2, <1>3, FS_Subset
<1>7. Cardinality(C) \in Nat /\ (Cardinality(C) = 0 <=> C = {})
  BY <1>6, FS_CardinalityType, FS_EmptySet
<1>8. QED
  BY <1>4, <1>5, <1>6, <1>7 DEF C

LEMMA CountAppend ==
    ASSUME NEW V, NEW s \in Seq(V), NEW a \in V, NEW v
    PROVE  Count(Append(s, a), v) = Count(s, v) + OneIf(a = v)
<1> DEFINE t == Append(s, a)
           n == Len(s)
           C == {i \in DOMAIN s : s[i] = v}
           D == {i \in DOMAIN t : t[i] = v}
<1>1. /\ n \in Nat /\ DOMAIN s = 1..n /\ DOMAIN t = 1..(n + 1)
      /\ t[n + 1] = a /\ \A i \in 1..n : t[i] = s[i]
  OBVIOUS
<1> HIDE DEF t, n
<1>2. C \ {n + 1} = D \ {n + 1}
  BY <1>1
<1>3. /\ n + 1 \notin C
      /\ n + 1 \in D <=> a = v
  BY <1>1
<1>4. IsFiniteSet(C)
  BY CountIn
<1>5. Count(s, v) = Cardinality(C) /\ Count(t, v) = Cardinality(D)
  BY DEF Count
<1> HIDE DEF C, D
<1>6. Cardinality(D) + OneIf(n + 1 \in C) = Cardinality(C) + OneIf(n + 1 \in D)
      /\ Cardinality(D) \in Nat
  BY <1>2, <1>4, OnePlace
<1>7. OneIf(n + 1 \in C) = 0 /\ OneIf(n + 1 \in D) = OneIf(a = v)
  BY <1>3 DEF OneIf
<1>8. QED
  BY <1>5, <1>6, <1>7 DEF t

(* One place holds something else.                                           *)
LEMMA CountChange ==
    ASSUME NEW V, NEW s \in Seq(V), NEW t, NEW i \in DOMAIN s, NEW v,
           DOMAIN t = DOMAIN s, \A j \in DOMAIN s : j # i => t[j] = s[j]
    PROVE  Count(t, v) + OneIf(s[i] = v) = Count(s, v) + OneIf(t[i] = v)
<1> DEFINE C == {j \in DOMAIN s : s[j] = v}
           D == {j \in DOMAIN t : t[j] = v}
<1>1. C \ {i} = D \ {i}
  OBVIOUS
<1>2. (i \in C <=> s[i] = v) /\ (i \in D <=> t[i] = v)
  OBVIOUS
<1>3. IsFiniteSet(C)
  BY CountIn
<1>4. Count(s, v) = Cardinality(C) /\ Count(t, v) = Cardinality(D)
  BY DEF Count
<1> HIDE DEF C, D
<1>5. Cardinality(D) + OneIf(i \in C) = Cardinality(C) + OneIf(i \in D)
  BY <1>1, <1>3, OnePlace
<1>6. OneIf(i \in C) = OneIf(s[i] = v) /\ OneIf(i \in D) = OneIf(t[i] = v)
  BY <1>2 DEF OneIf
<1>7. QED
  BY <1>4, <1>5, <1>6

LEMMA CountConcat ==
    ASSUME NEW V, NEW s \in Seq(V), NEW t \in Seq(V), NEW v
    PROVE  Count(s \o t, v) = Count(s, v) + Count(t, v)
<1> DEFINE u == s \o t
           m == Len(s)
           n == Len(t)
           C == {i \in DOMAIN s : s[i] = v}
           D == {i \in DOMAIN t : t[i] = v}
           E == {i \in DOMAIN u : u[i] = v}
           F == {i \in (m + 1)..(m + n) : u[i] = v}
           f == [i \in D |-> m + i]
<1>1. /\ m \in Nat /\ n \in Nat /\ DOMAIN s = 1..m /\ DOMAIN t = 1..n
      /\ DOMAIN u = 1..(m + n)
      /\ \A i \in 1..m : u[i] = s[i]
      /\ \A i \in 1..n : u[m + i] = t[i]
  BY ConcatProperties
<1>2. IsFiniteSet(C) /\ IsFiniteSet(D)
  BY CountIn
<1>3. /\ Count(s, v) = Cardinality(C) /\ Count(t, v) = Cardinality(D)
      /\ Count(u, v) = Cardinality(E)
  BY DEF Count
<1> HIDE DEF u, m, n
<1>4. f \in Bijection(D, F)
  <2>1. f \in [D -> F]
    <3> SUFFICES ASSUME NEW i \in D PROVE m + i \in F
      OBVIOUS
    <3>1. i \in 1..n /\ t[i] = v
      BY <1>1
    <3>2. m + i \in (m + 1)..(m + n) /\ u[m + i] = v
      BY <1>1, <3>1
    <3>3. QED
      BY <3>2
  <2>2. \A i, j \in D : f[i] = f[j] => i = j
    <3> SUFFICES ASSUME NEW i \in D, NEW j \in D, m + i = m + j PROVE i = j
      OBVIOUS
    <3>1. i \in 1..n /\ j \in 1..n
      BY <1>1
    <3>2. QED
      BY <1>1, <3>1
  <2>3. \A j \in F : \E i \in D : f[i] = j
    <3> SUFFICES ASSUME NEW j \in F PROVE \E i \in D : f[i] = j
      OBVIOUS
    <3>1. j - m \in 1..n /\ j = m + (j - m)
      BY <1>1
    <3>2. j - m \in D
      BY <1>1, <3>1
    <3>3. QED
      BY <3>1, <3>2
  <2>4. QED
    BY <2>1, <2>2, <2>3 DEF Bijection, Injection, Surjection, IsInjective
<1>5. E = C \union F /\ C \cap F = {}
  <2>1. \A i \in E : i \in C \/ i \in F
    BY <1>1
  <2>2. \A i \in C : i \in E /\ i \notin F
    BY <1>1
  <2>3. \A i \in F : i \in E
    BY <1>1
  <2>4. QED
    BY <2>1, <2>2, <2>3
<1>6. ExistsBijection(D, F)
  BY <1>4 DEF ExistsBijection
<1> HIDE DEF C, D, E, F, f
<1>7. IsFiniteSet(F) /\ Cardinality(F) = Cardinality(D)
  BY <1>2, <1>6, FS_Bijection
<1>8. Cardinality(E) = Cardinality(C) + Cardinality(F) - Cardinality({})
  BY <1>2, <1>5, <1>7, FS_Union
<1>9. Cardinality({}) = 0 /\ Cardinality(C) \in Nat /\ Cardinality(D) \in Nat
  BY <1>2, FS_EmptySet, FS_CardinalityType
<1>10. QED
  BY <1>3, <1>7, <1>8, <1>9 DEF u

LEMMA CountShort ==
    /\ \A v : Count(<<>>, v) = 0
    /\ \A a, v : Count(<<a>>, v) = OneIf(a = v)
    /\ \A a, b, v : Count(<<a, b>>, v) = OneIf(a = v) + OneIf(b = v)
<1>1. ASSUME NEW v PROVE Count(<<>>, v) = 0
  <2>1. <<>> \in Seq({}) /\ DOMAIN <<>> = {}
    OBVIOUS
  <2>2. QED
    BY <2>1, CountIn
<1>2. ASSUME NEW a, NEW v PROVE Count(<<a>>, v) = OneIf(a = v)
  <2> DEFINE S == {a}
             e == <<>>
  <2>0. Append(e, a) = <<a>>
    OBVIOUS
  <2>1. e \in Seq(S) /\ a \in S
    OBVIOUS
  <2>2. Count(e, v) = 0
    BY <1>1
  <2> HIDE DEF S, e
  <2>3. Count(Append(e, a), v) = Count(e, v) + OneIf(a = v)
    BY ONLY <2>1, CountAppend
  <2>4. OneIf(a = v) \in Nat
    BY DEF OneIf
  <2>5. QED
    BY <2>0, <2>2, <2>3, <2>4
<1>3. ASSUME NEW a, NEW b, NEW v PROVE Count(<<a, b>>, v) = OneIf(a = v) + OneIf(b = v)
  <2> DEFINE S == {a, b}
             e == <<a>>
  <2>0. Append(e, b) = <<a, b>>
    BY Appends
  <2>1. e \in Seq(S) /\ b \in S
    OBVIOUS
  <2>2. Count(e, v) = OneIf(a = v)
    BY <1>2
  <2> HIDE DEF S, e
  <2>3. Count(Append(e, b), v) = Count(e, v) + OneIf(b = v)
    BY ONLY <2>1, CountAppend
  <2>4. QED
    BY <2>0, <2>2, <2>3
<1>4. QED
  BY <1>1, <1>2, <1>3

LEMMA CountHead ==
    ASSUME NEW V, NEW s \in Seq(V), s # <<>>, NEW v
    PROVE  Count(s, v) = OneIf(Head(s) = v) + Count(Tail(s), v)
<1> DEFINE h == <<Head(s)>>
<1>1. Head(s) \in V /\ Tail(s) \in Seq(V) /\ h \in Seq(V)
  OBVIOUS
<1>2. h \o Tail(s) = s
  OBVIOUS
<1>3. Count(h \o Tail(s), v) = Count(h, v) + Count(Tail(s), v)
  BY <1>1, CountConcat
<1>4. Count(h, v) = OneIf(Head(s) = v)
  BY CountShort
<1>5. QED
  BY <1>2, <1>3, <1>4

LEMMA CountFront ==
    ASSUME NEW V, NEW s \in Seq(V), s # <<>>, NEW v
    PROVE  Count(s, v) = Count(Front(s), v) + OneIf(Last(s) = v)
<1>1. Front(s) \in Seq(V) /\ Last(s) \in V
  BY DEF Front, Last
<1>2. Append(Front(s), Last(s)) = s
  BY DEF Front, Last
<1>3. Count(Append(Front(s), Last(s)), v) = Count(Front(s), v) + OneIf(Last(s) = v)
  BY <1>1, CountAppend
<1>4. QED
  BY <1>2, <1>3

(* How often a value is held.                                              *)
PlaceCount(k, x) == Cardinality(Places(k, x))

LEMMA PlaceCountIn ==
    ASSUME NEW V, NEW k, HoldsSeqs(k, V), NEW x
    PROVE  /\ PlaceCount(k, x) \in Nat
           /\ PlaceCount(k, x) = 0 <=>
                  \A a \in DOMAIN k : \A i \in DOMAIN k[a] : k[a][i] # x
<1>1. IsFiniteSet(Places(k, x)) /\ PlaceCount(k, x) \in Nat
  BY PlacesFiniteIn DEF PlaceCount
<1>2. PlaceCount(k, x) = 0 <=> Places(k, x) = {}
  BY <1>1, FS_EmptySet DEF PlaceCount
<1>3. Places(k, x) = {} <=>
          \A a \in DOMAIN k : \A i \in DOMAIN k[a] : k[a][i] # x
  <2>1. ASSUME NEW p \in Places(k, x)
        PROVE  \E a \in DOMAIN k : \E i \in DOMAIN k[a] : k[a][i] = x
    <3>1. p[1] \in DOMAIN k /\ p[2] \in DOMAIN k[p[1]] /\ k[p[1]][p[2]] = x
      BY PlacesAre
    <3>2. QED
      BY <3>1
  <2>2. ASSUME NEW a \in DOMAIN k, NEW i \in DOMAIN k[a], k[a][i] = x
        PROVE  Places(k, x) # {}
    BY <2>2, PlacesAre
  <2>3. QED
    BY <2>1, <2>2
<1>4. QED
  BY <1>1, <1>2, <1>3

(* A value that holds nothing is new.                                      *)
LEMMA PlaceCountNew ==
    ASSUME NEW k, NEW k2, NEW a, a \notin DOMAIN k, NEW x,
           DOMAIN k2 = DOMAIN k \union {a}, k2[a] = <<>>,
           \A u \in DOMAIN k : k2[u] = k[u]
    PROVE  PlaceCount(k2, x) = PlaceCount(k, x)
<1>1. \A p : p \in Places(k2, x) => p \in Places(k, x)
  <2> SUFFICES ASSUME NEW p \in Places(k2, x) PROVE p \in Places(k, x)
    OBVIOUS
  <2>1. /\ p = <<p[1], p[2]>> /\ p[1] \in DOMAIN k2
        /\ p[2] \in DOMAIN k2[p[1]] /\ k2[p[1]][p[2]] = x
    BY PlacesAre
  <2>2. p[1] # a
    BY <2>1
  <2>3. p[1] \in DOMAIN k /\ k2[p[1]] = k[p[1]]
    BY <2>1, <2>2
  <2>4. QED
    BY <2>1, <2>3, PlacesAre
<1>2. \A p : p \in Places(k, x) => p \in Places(k2, x)
  <2> SUFFICES ASSUME NEW p \in Places(k, x) PROVE p \in Places(k2, x)
    OBVIOUS
  <2>1. /\ p = <<p[1], p[2]>> /\ p[1] \in DOMAIN k
        /\ p[2] \in DOMAIN k[p[1]] /\ k[p[1]][p[2]] = x
    BY PlacesAre
  <2>2. p[1] \in DOMAIN k2 /\ k2[p[1]] = k[p[1]]
    BY <2>1
  <2>3. QED
    BY <2>1, <2>2, PlacesAre
<1>3. Places(k, x) = Places(k2, x)
  BY <1>1, <1>2
<1>4. QED
  BY <1>3 DEF PlaceCount

(* The i-th place of a is another, or is there in one of the two only.     *)
LEMMA PlaceCountChange ==
    ASSUME NEW V, NEW k, HoldsSeqs(k, V), NEW k2, NEW x,
           NEW a \in DOMAIN k, NEW i,
           DOMAIN k2 = DOMAIN k,
           \A u \in DOMAIN k : u # a => k2[u] = k[u],
           DOMAIN k2[a] \ {i} = DOMAIN k[a] \ {i},
           \A j \in DOMAIN k[a] : j # i => k2[a][j] = k[a][j]
    PROVE  /\ PlaceCount(k2, x) \in Nat
           /\ PlaceCount(k2, x) + OneIf(i \in DOMAIN k[a] /\ k[a][i] = x)
                  = PlaceCount(k, x) + OneIf(i \in DOMAIN k2[a] /\ k2[a][i] = x)
<1> DEFINE p == <<a, i>>
<1>0. p[1] = a /\ p[2] = i
  OBVIOUS
<1>1. ASSUME NEW q, q # p
      PROVE  q \in Places(k, x) <=> q \in Places(k2, x)
  <2>1. ASSUME q \in Places(k, x) PROVE q \in Places(k2, x)
    <3>1. /\ q = <<q[1], q[2]>> /\ q[1] \in DOMAIN k
          /\ q[2] \in DOMAIN k[q[1]] /\ k[q[1]][q[2]] = x
      BY <2>1, PlacesAre
    <3>2. q[1] = a => q[2] # i
      BY <1>1, <3>1
    <3>3. q[1] \in DOMAIN k2 /\ q[2] \in DOMAIN k2[q[1]] /\ k2[q[1]][q[2]] = x
      BY <3>1, <3>2
    <3>4. QED
      BY <3>1, <3>3, PlacesAre
  <2>2. ASSUME q \in Places(k2, x) PROVE q \in Places(k, x)
    <3>1. /\ q = <<q[1], q[2]>> /\ q[1] \in DOMAIN k2
          /\ q[2] \in DOMAIN k2[q[1]] /\ k2[q[1]][q[2]] = x
      BY <2>2, PlacesAre
    <3>2. q[1] = a => q[2] # i
      BY <1>1, <3>1
    <3>3. q[1] \in DOMAIN k /\ q[2] \in DOMAIN k[q[1]] /\ k[q[1]][q[2]] = x
      BY <3>1, <3>2
    <3>4. QED
      BY <3>1, <3>3, PlacesAre
  <2>3. QED
    BY <2>1, <2>2
<1>2. /\ p \in Places(k, x) <=> i \in DOMAIN k[a] /\ k[a][i] = x
      /\ p \in Places(k2, x) <=> i \in DOMAIN k2[a] /\ k2[a][i] = x
  BY <1>0, PlacesAre
<1> HIDE DEF p
<1>3. Places(k, x) \ {p} = Places(k2, x) \ {p}
  BY <1>1
<1>4. IsFiniteSet(Places(k, x))
  BY PlacesFiniteIn
<1>5. /\ Cardinality(Places(k2, x)) \in Nat
      /\ Cardinality(Places(k2, x)) + OneIf(p \in Places(k, x))
             = Cardinality(Places(k, x)) + OneIf(p \in Places(k2, x))
  BY <1>3, <1>4, OnePlace
<1>6. QED
  BY <1>2, <1>5 DEF PlaceCount, OneIf

LEMMA PlaceCountAppend ==
    ASSUME NEW V, NEW k, HoldsSeqs(k, V), NEW k2, NEW x,
           NEW a \in DOMAIN k, NEW w \in V,
           DOMAIN k2 = DOMAIN k, k2[a] = Append(k[a], w),
           \A u \in DOMAIN k : u # a => k2[u] = k[u]
    PROVE  HoldsSeqs(k2, V) /\ PlaceCount(k2, x) = PlaceCount(k, x) + OneIf(w = x)
<1> DEFINE i == Len(k[a]) + 1
<1>1. k[a] \in Seq(V)
  BY DEF HoldsSeqs
<1>2. /\ i \in Nat /\ DOMAIN k[a] = 1..(i - 1) /\ DOMAIN k2[a] = 1..i
      /\ k2[a][i] = w /\ \A j \in 1..(i - 1) : k2[a][j] = k[a][j]
      /\ k2[a] \in Seq(V)
  BY <1>1
<1> HIDE DEF i
<1>3. /\ DOMAIN k2[a] \ {i} = DOMAIN k[a] \ {i}
      /\ i \notin DOMAIN k[a] /\ i \in DOMAIN k2[a]
  BY <1>2
<1>4. /\ PlaceCount(k2, x) \in Nat
      /\ PlaceCount(k2, x) + OneIf(i \in DOMAIN k[a] /\ k[a][i] = x)
             = PlaceCount(k, x) + OneIf(i \in DOMAIN k2[a] /\ k2[a][i] = x)
  BY <1>2, <1>3, PlaceCountChange
<1>5. PlaceCount(k2, x) + 0 = PlaceCount(k, x) + OneIf(w = x)
  BY <1>2, <1>3, <1>4 DEF OneIf
<1>6. HoldsSeqs(k2, V)
  BY <1>2 DEF HoldsSeqs
<1>7. QED
  BY <1>4, <1>5, <1>6

(* A value is gone, with all it held.                                      *)
LEMMA PlaceCountDrop ==
    ASSUME NEW V, NEW k, HoldsSeqs(k, V), NEW v \in DOMAIN k, NEW k2, NEW x,
           DOMAIN k2 = DOMAIN k \ {v}, \A u \in DOMAIN k2 : k2[u] = k[u]
    PROVE  /\ HoldsSeqs(k2, V)
           /\ PlaceCount(k, x) = PlaceCount(k2, x) + Count(k[v], x)
<1> DEFINE I == {i \in DOMAIN k[v] : k[v][i] = x}
           Q == {v} \X I
<1>1. k[v] \in Seq(V) /\ IsFiniteSet(DOMAIN k)
  BY DEF HoldsSeqs
<1>2. HoldsSeqs(k2, V)
  BY <1>1, FS_RemoveElement DEF HoldsSeqs
<1>3. IsFiniteSet(I) /\ Cardinality(I) \in Nat /\ Count(k[v], x) = Cardinality(I)
  <2>1. IsFiniteSet(I) /\ Count(k[v], x) \in Nat
    BY <1>1, CountIn
  <2>2. Count(k[v], x) = Cardinality(I)
    BY DEF Count
  <2>3. QED
    BY <2>1, <2>2
<1>4. ASSUME NEW q \in Places(k2, x)
      PROVE  q \in Places(k, x) /\ q \notin Q
  <2>1. /\ q = <<q[1], q[2]>> /\ q[1] \in DOMAIN k2
        /\ q[2] \in DOMAIN k2[q[1]] /\ k2[q[1]][q[2]] = x
    BY PlacesAre
  <2>2. q[1] \in DOMAIN k /\ q[1] # v /\ k2[q[1]] = k[q[1]]
    BY <2>1
  <2>3. QED
    BY <2>1, <2>2, PlacesAre
<1>5. ASSUME NEW q \in Places(k, x)
      PROVE  q \in Places(k2, x) \/ q \in Q
  <2>1. /\ q = <<q[1], q[2]>> /\ q[1] \in DOMAIN k
        /\ q[2] \in DOMAIN k[q[1]] /\ k[q[1]][q[2]] = x
    BY PlacesAre
  <2>2. CASE q[1] = v
    BY <2>1, <2>2
  <2>3. CASE q[1] # v
    BY <2>1, <2>3, PlacesAre
  <2>4. QED
    BY <2>2, <2>3
<1>6. ASSUME NEW q \in Q
      PROVE  q \in Places(k, x)
  <2>1. q = <<v, q[2]>> /\ q[2] \in DOMAIN k[v] /\ k[v][q[2]] = x
    OBVIOUS
  <2>2. QED
    BY <2>1, PlacesAre
<1>7. IsFiniteSet(Q) /\ Cardinality(Q) = Cardinality(I)
  <2>1. IsFiniteSet({v}) /\ Cardinality({v}) = 1
    BY FS_Singleton
  <2> HIDE DEF I
  <2>2. IsFiniteSet(Q) /\ Cardinality(Q) = 1 * Cardinality(I)
    BY <1>3, <2>1, FS_Product
  <2> HIDE DEF Q
  <2>3. QED
    BY <1>3, <2>2
<1> HIDE DEF I, Q
<1>8. Places(k, x) = Places(k2, x) \union Q /\ Places(k2, x) \cap Q = {}
  <2>1. \A q : q \in Places(k, x) <=> q \in Places(k2, x) \/ q \in Q
    BY <1>4, <1>5, <1>6
  <2>2. Places(k, x) = Places(k2, x) \union Q
    BY <2>1
  <2>3. QED
    BY <2>2, <1>4
<1>9. IsFiniteSet(Places(k2, x)) /\ Cardinality(Places(k2, x)) \in Nat
  BY <1>2, PlacesFiniteIn, FS_CardinalityType
<1>10. Cardinality(Places(k, x))
           = Cardinality(Places(k2, x)) + Cardinality(Q) - Cardinality({})
  BY <1>7, <1>8, <1>9, FS_Union
<1>11. Cardinality({}) = 0
  BY FS_EmptySet
<1>12. QED
  BY <1>2, <1>3, <1>7, <1>9, <1>10, <1>11 DEF PlaceCount

LEMMA FrontIs ==
    ASSUME NEW V, NEW s \in Seq(V), s # <<>>
    PROVE  /\ Front(s) \in Seq(V) /\ Len(s) \in Nat \ {0}
           /\ Len(Front(s)) = Len(s) - 1
           /\ \A i \in 1..(Len(s) - 1) : Front(s)[i] = s[i]
<1>1. Len(s) \in Nat \ {0}
  OBVIOUS
<1>2. PICK m \in Int : m = Len(s) - 1 /\ 1 \in Int
  BY <1>1
<1>3. \A i \in 1..m : i \in 1..Len(s) /\ i \in 1..(m - 1 + 1) /\ 1 + i - 1 = i
  BY <1>1, <1>2
<1>4. \A i \in 1..m : s[i] \in V
  BY <1>3
<1>5. /\ SubSeq(s, 1, m) \in Seq(V)
      /\ Len(SubSeq(s, 1, m)) = IF 1 <= m THEN m - 1 + 1 ELSE 0
      /\ \A i \in 1..(m - 1 + 1) : SubSeq(s, 1, m)[i] = s[1 + i - 1]
  BY ONLY <1>2, <1>4, SubSeqProperties
<1>6. Front(s) = SubSeq(s, 1, m)
  BY <1>2 DEF Front
<1>7. (IF 1 <= m THEN m - 1 + 1 ELSE 0) = m
  BY <1>1, <1>2
<1>8. QED
  BY <1>1, <1>2, <1>3, <1>5, <1>6, <1>7

-----------------------------------------------------------------------------
(* The heap of values.                                                     *)

ValueKind == STRING \union {"array", "struct", "string", "int"}

ValueCell(heap) ==
    [kind : ValueKind, text : Seq(STRING), refs : Nat \ {0},
     items : Seq(DOMAIN heap)]

AnyFrame ==
    [fn : {"params", "array", "struct"}, elem : Nat, at : Nat \ {0},
     made : Nat, key : Nat, max : Int]

ItemsOf(heap) == [v \in DOMAIN heap |-> heap[v].items]
Mades(fs) == [i \in DOMAIN fs |-> fs[i].made]
Keys(fs)  == [i \in DOMAIN fs |-> fs[i].key]

(* The references to v, when out is the outcome so far.                    *)
Refer(heap, fs, rel, out, v) ==
    PlaceCount(ItemsOf(heap), v) + Count(Mades(fs), v) + Count(Keys(fs), v)
    + Count(rel, v) + OneIf(out = v)

(* Of any values, one is held by none of them.                             *)
Acyclic(heap) ==
    \A S \in SUBSET DOMAIN heap : S # {} =>
        \E v \in S : \A u \in S : v \notin ToSet(heap[u].items)

HeapOK(heap) ==
    /\ IsFiniteSet(DOMAIN heap) /\ DOMAIN heap \subseteq Nat \ {0}
    /\ heap \in [DOMAIN heap -> ValueCell(heap)]
    /\ \A v \in DOMAIN heap :
           heap[v].kind = "struct" => \E n \in Nat : Len(heap[v].items) = 2 * n
    /\ Acyclic(heap)

(* Nobody else refers to what a frame makes; a struct's frame has a key    *)
(* while the member's value is made.                                       *)
FrameOK(heap, f, waiting) ==
    /\ f.made \in DOMAIN heap /\ f.key \in DOMAIN heap \union {None}
    /\ heap[f.made].kind = IF f.fn = "struct" THEN "struct" ELSE "array"
    /\ heap[f.made].refs = 1
    /\ f.fn # "struct" => f.key = None
    /\ f.fn = "struct" /\ waiting => f.key # None

FramesOK(heap, fs, out) ==
    /\ fs \in Seq(AnyFrame)
    /\ \A i \in DOMAIN fs : FrameOK(heap, fs[i], i < Len(fs) \/ out # None)

WellCounted(heap, fs, rel, out) ==
    /\ HeapOK(heap)
    /\ FramesOK(heap, fs, out)
    /\ rel \in Seq(DOMAIN heap)
    /\ out \in DOMAIN heap \union {None}
    /\ \A v \in DOMAIN heap : heap[v].refs = Refer(heap, fs, rel, out, v)

-----------------------------------------------------------------------------
(* What frames and values hold, counted.                                   *)

LEMMA MadesIn ==
    ASSUME NEW fs \in Seq(AnyFrame), NEW v
    PROVE  /\ Mades(fs) \in Seq(Nat) /\ Len(Mades(fs)) = Len(fs)
           /\ DOMAIN Mades(fs) = DOMAIN fs
           /\ \A i \in DOMAIN fs : Mades(fs)[i] = fs[i].made
           /\ Keys(fs) \in Seq(Nat) /\ Len(Keys(fs)) = Len(fs)
           /\ DOMAIN Keys(fs) = DOMAIN fs
           /\ \A i \in DOMAIN fs : Keys(fs)[i] = fs[i].key
           /\ Count(Mades(fs), v) \in Nat /\ Count(Keys(fs), v) \in Nat
           /\ Count(Mades(fs), v) = 0 <=> \A i \in DOMAIN fs : fs[i].made # v
           /\ Count(Keys(fs), v) = 0 <=> \A i \in DOMAIN fs : fs[i].key # v
<1>1. Len(fs) \in Nat /\ DOMAIN fs = 1..Len(fs) /\ \A i \in DOMAIN fs : fs[i] \in AnyFrame
  OBVIOUS
<1>2. /\ DOMAIN Mades(fs) = DOMAIN fs
      /\ \A i \in DOMAIN fs : Mades(fs)[i] = fs[i].made
      /\ DOMAIN Keys(fs) = DOMAIN fs
      /\ \A i \in DOMAIN fs : Keys(fs)[i] = fs[i].key
  BY DEF Mades, Keys
<1>3. Mades(fs) \in Seq(Nat)
  <2>1. \A i \in DOMAIN fs : fs[i].made \in Nat
    BY <1>1 DEF AnyFrame
  <2>2. QED
    BY <1>1, <2>1 DEF Mades
<1>4. Keys(fs) \in Seq(Nat)
  <2>1. \A i \in DOMAIN fs : fs[i].key \in Nat
    BY <1>1 DEF AnyFrame
  <2>2. QED
    BY <1>1, <2>1 DEF Keys
<1>5. Len(Mades(fs)) = Len(fs) /\ Len(Keys(fs)) = Len(fs)
  BY <1>1, <1>2, <1>3, <1>4
<1>6. /\ Count(Mades(fs), v) \in Nat
      /\ Count(Mades(fs), v) = 0 <=> \A i \in DOMAIN Mades(fs) : Mades(fs)[i] # v
  BY ONLY <1>3, CountIn
<1>7. /\ Count(Keys(fs), v) \in Nat
      /\ Count(Keys(fs), v) = 0 <=> \A i \in DOMAIN Keys(fs) : Keys(fs)[i] # v
  BY ONLY <1>4, CountIn
<1>8. QED
  BY ONLY <1>2, <1>3, <1>4, <1>5, <1>6, <1>7

LEMMA MadesAppend ==
    ASSUME NEW fs \in Seq(AnyFrame), NEW f \in AnyFrame, NEW v
    PROVE  /\ Count(Mades(Append(fs, f)), v) = Count(Mades(fs), v) + OneIf(f.made = v)
           /\ Count(Keys(Append(fs, f)), v) = Count(Keys(fs), v) + OneIf(f.key = v)
<1>1. PICK gs : gs = Append(fs, f)
  OBVIOUS
<1>2. PICK n : n = Len(fs)
  OBVIOUS
<1>3. /\ gs \in Seq(AnyFrame) /\ Len(gs) = n + 1 /\ gs[n + 1] = f
      /\ \A i \in 1..n : gs[i] = fs[i]
  BY <1>1, <1>2, AppendProperties
<1>4. n \in Nat /\ DOMAIN fs = 1..n /\ DOMAIN gs = 1..(n + 1)
      /\ n + 1 \in 1..(n + 1) /\ \A i \in 1..n : i \in 1..(n + 1)
  BY <1>2, <1>3
<1>5. /\ Mades(fs) \in Seq(Nat) /\ Len(Mades(fs)) = n
      /\ \A i \in 1..n : Mades(fs)[i] = fs[i].made
      /\ Keys(fs) \in Seq(Nat) /\ Len(Keys(fs)) = n
      /\ \A i \in 1..n : Keys(fs)[i] = fs[i].key
  BY <1>2, <1>4, MadesIn, SMTT(30)
<1>6. /\ Mades(gs) \in Seq(Nat) /\ Len(Mades(gs)) = n + 1
      /\ \A i \in 1..(n + 1) : Mades(gs)[i] = gs[i].made
      /\ Keys(gs) \in Seq(Nat) /\ Len(Keys(gs)) = n + 1
      /\ \A i \in 1..(n + 1) : Keys(gs)[i] = gs[i].key
  BY <1>3, <1>4, MadesIn, SMTT(30)
<1>7. f.made \in Nat /\ f.key \in Nat
  BY DEF AnyFrame
<1>8. Append(Mades(fs), f.made) = Mades(gs)
  <2>1. /\ Len(Mades(gs)) = Len(Mades(fs)) + 1
        /\ Mades(gs)[Len(Mades(gs))] = f.made
        /\ \A k \in 1..Len(Mades(fs)) : Mades(gs)[k] = Mades(fs)[k]
    BY <1>3, <1>4, <1>5, <1>6
  <2>2. QED
    BY ONLY <1>5, <1>6, <1>7, <2>1, AppendIs
<1>9. Append(Keys(fs), f.key) = Keys(gs)
  <2>1. /\ Len(Keys(gs)) = Len(Keys(fs)) + 1
        /\ Keys(gs)[Len(Keys(gs))] = f.key
        /\ \A k \in 1..Len(Keys(fs)) : Keys(gs)[k] = Keys(fs)[k]
    BY <1>3, <1>4, <1>5, <1>6
  <2>2. QED
    BY ONLY <1>5, <1>6, <1>7, <2>1, AppendIs
<1>10. Count(Append(Mades(fs), f.made), v) = Count(Mades(fs), v) + OneIf(f.made = v)
  BY ONLY <1>5, <1>7, CountAppend
<1>11. Count(Append(Keys(fs), f.key), v) = Count(Keys(fs), v) + OneIf(f.key = v)
  BY ONLY <1>5, <1>7, CountAppend
<1>12. QED
  BY ONLY <1>1, <1>8, <1>9, <1>10, <1>11

LEMMA LastIs ==
    ASSUME NEW V, NEW s \in Seq(V), s # <<>>
    PROVE  /\ Last(s) = s[Len(s)] /\ Last(s) \in V
           /\ Append(Front(s), Last(s)) = s
           /\ Front(s) \in Seq(V) /\ Len(s) \in 1..Len(s) /\ Len(s) \in DOMAIN s
  BY DEF Last, Front

LEMMA MadesFront ==
    ASSUME NEW fs \in Seq(AnyFrame), fs # <<>>, NEW v
    PROVE  /\ Count(Mades(fs), v) = Count(Mades(Front(fs)), v) + OneIf(Last(fs).made = v)
           /\ Count(Keys(fs), v) = Count(Keys(Front(fs)), v) + OneIf(Last(fs).key = v)
<1>1. Front(fs) \in Seq(AnyFrame) /\ Last(fs) \in AnyFrame
  BY LastIs
<1>2. Append(Front(fs), Last(fs)) = fs
  BY LastIs
<1>3. /\ Count(Mades(Append(Front(fs), Last(fs))), v)
             = Count(Mades(Front(fs)), v) + OneIf(Last(fs).made = v)
      /\ Count(Keys(Append(Front(fs), Last(fs))), v)
             = Count(Keys(Front(fs)), v) + OneIf(Last(fs).key = v)
  BY ONLY <1>1, MadesAppend
<1>4. QED
  BY ONLY <1>2, <1>3

(* The top frame takes or gives up a key.                                  *)
LEMMA MadesLast ==
    ASSUME NEW fs \in Seq(AnyFrame), fs # <<>>, NEW gs \in Seq(AnyFrame),
           Len(gs) = Len(fs), \A i \in 1..Len(fs) : i # Len(fs) => gs[i] = fs[i],
           gs[Len(fs)].made = fs[Len(fs)].made, NEW v
    PROVE  /\ Count(Mades(gs), v) = Count(Mades(fs), v)
           /\ Count(Keys(gs), v) + OneIf(Last(fs).key = v)
                  = Count(Keys(fs), v) + OneIf(gs[Len(fs)].key = v)
<1>1. PICK n : n = Len(fs)
  BY SMTT(30)
<1>2. n \in Nat \ {0} /\ DOMAIN fs = 1..n /\ DOMAIN gs = 1..n /\ n \in 1..n
      /\ Last(fs) = fs[n]
  <2>1. Len(fs) \in Nat /\ Len(fs) # 0 /\ DOMAIN fs = 1..Len(fs) /\ DOMAIN gs = 1..Len(gs)
    OBVIOUS
  <2>2. Len(fs) \in 1..Len(fs) /\ Last(fs) = fs[Len(fs)]
    BY ONLY fs \in Seq(AnyFrame), fs # <<>>, LastIs
  <2>3. QED
    BY <1>1, <2>1, <2>2
<1>3. /\ Mades(fs) \in Seq(Nat) /\ Keys(fs) \in Seq(Nat)
      /\ DOMAIN Mades(fs) = 1..n /\ DOMAIN Keys(fs) = 1..n
      /\ \A i \in 1..n : Mades(fs)[i] = fs[i].made
      /\ \A i \in 1..n : Keys(fs)[i] = fs[i].key
      /\ Count(Mades(fs), v) \in Nat
  BY <1>2, MadesIn, ZenonT(30)
<1>4. /\ Mades(gs) \in Seq(Nat) /\ Keys(gs) \in Seq(Nat)
      /\ DOMAIN Mades(gs) = 1..n /\ DOMAIN Keys(gs) = 1..n
      /\ \A i \in 1..n : Mades(gs)[i] = gs[i].made
      /\ \A i \in 1..n : Keys(gs)[i] = gs[i].key
      /\ Count(Mades(gs), v) \in Nat
  BY <1>2, MadesIn, SMTT(30)
<1>5. \A i \in 1..n : Mades(gs)[i] = Mades(fs)[i]
  BY <1>1, <1>3, <1>4
<1>6. \A i \in 1..n : i # n => Keys(gs)[i] = Keys(fs)[i]
  BY <1>1, <1>3, <1>4
<1>7. Count(Mades(gs), v) + OneIf(Mades(fs)[n] = v) = Count(Mades(fs), v) + OneIf(Mades(gs)[n] = v)
  <2>1. n \in DOMAIN Mades(fs) /\ DOMAIN Mades(gs) = DOMAIN Mades(fs)
        /\ \A j \in DOMAIN Mades(fs) : j # n => Mades(gs)[j] = Mades(fs)[j]
    BY ONLY <1>2, <1>3, <1>4, <1>5
  <2>2. Mades(fs) \in Seq(Nat)
    BY <1>3
  <2>3. QED
    BY ONLY <2>1, <2>2, CountChange
<1>8. Count(Keys(gs), v) + OneIf(Keys(fs)[n] = v) = Count(Keys(fs), v) + OneIf(Keys(gs)[n] = v)
  <2>1. n \in DOMAIN Keys(fs) /\ DOMAIN Keys(gs) = DOMAIN Keys(fs)
        /\ \A j \in DOMAIN Keys(fs) : j # n => Keys(gs)[j] = Keys(fs)[j]
    BY ONLY <1>2, <1>3, <1>4, <1>6
  <2>2. Keys(fs) \in Seq(Nat)
    BY <1>3
  <2>3. QED
    BY ONLY <2>1, <2>2, CountChange
<1>9. Mades(fs)[n] = Mades(gs)[n] /\ Keys(fs)[n] = Last(fs).key /\ Keys(gs)[n] = gs[n].key
  BY <1>2, <1>3, <1>4, <1>5
<1>10. Count(Mades(gs), v) = Count(Mades(fs), v)
  <2>1. OneIf(Mades(fs)[n] = v) = OneIf(Mades(gs)[n] = v) /\ OneIf(Mades(fs)[n] = v) \in Nat
    BY <1>9 DEF OneIf
  <2>2. QED
    BY <1>3, <1>4, <1>7, <2>1
<1>11. QED
  BY <1>1, <1>8, <1>9, <1>10
-----------------------------------------------------------------------------
(* How heaps of values change.                                             *)

LEMMA CellsAre ==
    ASSUME NEW heap, HeapOK(heap)
    PROVE  /\ IsFiniteSet(DOMAIN heap) /\ DOMAIN heap \subseteq Nat \ {0}
           /\ None \notin DOMAIN heap
           /\ HoldsSeqs(ItemsOf(heap), DOMAIN heap)
           /\ DOMAIN ItemsOf(heap) = DOMAIN heap
           /\ \A v \in DOMAIN heap :
                  /\ ItemsOf(heap)[v] = heap[v].items
                  /\ heap[v].items \in Seq(DOMAIN heap)
                  /\ heap[v].refs \in Nat \ {0}
                  /\ heap[v].kind \in ValueKind /\ heap[v].text \in Seq(STRING)
                  /\ heap[v] = [kind |-> heap[v].kind, text |-> heap[v].text,
                                refs |-> heap[v].refs, items |-> heap[v].items]
<1>1. /\ IsFiniteSet(DOMAIN heap) /\ DOMAIN heap \subseteq Nat \ {0}
      /\ heap \in [DOMAIN heap -> ValueCell(heap)]
  BY DEF HeapOK
<1>2. ASSUME NEW v \in DOMAIN heap
      PROVE  /\ heap[v].items \in Seq(DOMAIN heap)
             /\ heap[v].refs \in Nat \ {0}
             /\ heap[v].kind \in ValueKind /\ heap[v].text \in Seq(STRING)
             /\ heap[v] = [kind |-> heap[v].kind, text |-> heap[v].text,
                           refs |-> heap[v].refs, items |-> heap[v].items]
  <2>1. heap[v] \in ValueCell(heap)
    BY <1>1
  <2>2. QED
    BY <2>1 DEF ValueCell
<1>3. DOMAIN ItemsOf(heap) = DOMAIN heap /\ \A v \in DOMAIN heap : ItemsOf(heap)[v] = heap[v].items
  BY DEF ItemsOf
<1>4. HoldsSeqs(ItemsOf(heap), DOMAIN heap)
  BY <1>1, <1>2, <1>3 DEF HoldsSeqs
<1>5. None \notin DOMAIN heap
  BY <1>1 DEF None
<1>6. QED
  BY <1>1, <1>2, <1>3, <1>4, <1>5

LEMMA HeapIs ==
    ASSUME NEW heap, IsFiniteSet(DOMAIN heap), DOMAIN heap \subseteq Nat \ {0},
           NEW D, D = DOMAIN heap,
           heap \in [D -> [kind : ValueKind, text : Seq(STRING),
                           refs : Nat \ {0}, items : Seq(D)]],
           \A v \in DOMAIN heap :
               heap[v].kind = "struct" => \E n \in Nat : Len(heap[v].items) = 2 * n,
           Acyclic(heap)
    PROVE  HeapOK(heap)
  BY DEF HeapOK, ValueCell

LEMMA UnheldAre ==
    ASSUME NEW heap, HeapOK(heap), NEW v, PlaceCount(ItemsOf(heap), v) = 0
    PROVE  \A u \in DOMAIN heap : v \notin ToSet(heap[u].items)
<1>1. \A a \in DOMAIN ItemsOf(heap) : \A i \in DOMAIN ItemsOf(heap)[a] :
          ItemsOf(heap)[a][i] # v
  BY CellsAre, PlaceCountIn
<1>2. QED
  BY <1>1, CellsAre DEF ToSet

(* A new one.                                                              *)
NewCell(heap, v, kind, text, heap2) ==
    /\ v \notin DOMAIN heap /\ v \in Nat \ {0}
    /\ kind \in ValueKind /\ text \in Seq(STRING)
    /\ heap2 = With(heap, v, Cell(kind, text))

Gained(heap, v, kind, text, heap2) ==
    /\ HeapOK(heap2)
    /\ DOMAIN heap2 = DOMAIN heap \union {v} /\ v # None
    /\ heap2[v] = Cell(kind, text)
    /\ \A u \in DOMAIN heap : heap2[u] = heap[u] /\ u # v
    /\ \A x : PlaceCount(ItemsOf(heap2), x) = PlaceCount(ItemsOf(heap), x)

LEMMA HeapNew ==
    ASSUME NEW heap, HeapOK(heap), NEW v, NEW kind, NEW text, NEW heap2,
           NewCell(heap, v, kind, text, heap2)
    PROVE  Gained(heap, v, kind, text, heap2)
<1>1. /\ v \notin DOMAIN heap /\ v \in Nat \ {0}
      /\ kind \in ValueKind /\ text \in Seq(STRING)
      /\ heap2 = With(heap, v, Cell(kind, text))
  BY DEF NewCell
<1>2. PICK D : D = DOMAIN heap \union {v}
  OBVIOUS
<1>3. /\ DOMAIN heap2 = D
      /\ heap2[v] = Cell(kind, text)
      /\ \A u \in DOMAIN heap : heap2[u] = heap[u] /\ u # v
      /\ heap2 = [u \in D |-> heap2[u]]
  BY <1>1, <1>2 DEF With
<1>4. IsFiniteSet(DOMAIN heap2) /\ DOMAIN heap2 \subseteq Nat \ {0}
  BY <1>1, <1>2, <1>3, CellsAre, FS_AddElement
<1>5. heap2[v] \in [kind : ValueKind, text : Seq(STRING), refs : Nat \ {0}, items : Seq(D)]
  <2>1. heap2[v] = [kind |-> kind, text |-> text, refs |-> 1, items |-> <<>>]
    BY <1>3 DEF Cell
  <2>2. <<>> \in Seq(D) /\ 1 \in Nat \ {0}
    OBVIOUS
  <2>3. kind \in ValueKind /\ text \in Seq(STRING)
    BY <1>1
  <2>4. QED
    BY ONLY <2>1, <2>2, <2>3
<1>6. ASSUME NEW u \in DOMAIN heap
      PROVE  heap2[u] \in [kind : ValueKind, text : Seq(STRING), refs : Nat \ {0}, items : Seq(D)]
  <2>1. heap[u].items \in Seq(DOMAIN heap)
    BY CellsAre
  <2>2. heap[u].items \in Seq(D)
    BY <1>2, <2>1, SeqMonotonic
  <2>3. /\ heap[u].refs \in Nat \ {0}
        /\ heap[u].kind \in ValueKind /\ heap[u].text \in Seq(STRING)
        /\ heap[u] = [kind |-> heap[u].kind, text |-> heap[u].text,
                      refs |-> heap[u].refs, items |-> heap[u].items]
    BY CellsAre
  <2>4. heap[u] \in [kind : ValueKind, text : Seq(STRING), refs : Nat \ {0}, items : Seq(D)]
    BY ONLY <2>2, <2>3
  <2>5. QED
    BY <1>3, <2>4
<1>7. heap2 \in [D -> [kind : ValueKind, text : Seq(STRING),
                       refs : Nat \ {0}, items : Seq(D)]]
  <2>1. \A u \in D : heap2[u] \in [kind : ValueKind, text : Seq(STRING),
                                   refs : Nat \ {0}, items : Seq(D)]
    BY <1>2, <1>5, <1>6
  <2>2. QED
    BY ONLY <1>3, <2>1
<1>8. ASSUME NEW u \in DOMAIN heap2, heap2[u].kind = "struct"
      PROVE  \E n \in Nat : Len(heap2[u].items) = 2 * n
  <2>1. CASE u = v
    <3>1. heap2[u].items = <<>>
      BY <1>3, <2>1 DEF Cell
    <3>2. Len(heap2[u].items) = 2 * 0
      BY <3>1
    <3>3. QED
      BY <3>2
  <2>2. CASE u # v
    <3>1. u \in DOMAIN heap /\ heap2[u] = heap[u]
      BY <1>2, <1>3, <2>2
    <3>2. QED
      BY <1>8, <3>1 DEF HeapOK
  <2>3. QED
    BY <2>1, <2>2
<1>9. Acyclic(heap2)
  <2> SUFFICES ASSUME NEW S \in SUBSET DOMAIN heap2, S # {}
               PROVE  \E w \in S : \A u \in S : w \notin ToSet(heap2[u].items)
    BY DEF Acyclic
  <2>1. CASE v \in S
    <3>1. ASSUME NEW u \in S PROVE v \notin ToSet(heap2[u].items)
      <4>1. CASE u = v
        <5>1. heap2[u].items = <<>>
          BY <1>3, <4>1 DEF Cell
        <5>2. QED
          BY <5>1 DEF ToSet
      <4>2. CASE u # v
        <5>1. u \in DOMAIN heap /\ heap2[u].items = heap[u].items
          BY <1>2, <1>3, <4>2
        <5>2. heap[u].items \in Seq(DOMAIN heap)
          BY <5>1, CellsAre
        <5>3. ToSet(heap[u].items) \subseteq DOMAIN heap
          BY <5>2 DEF ToSet
        <5>4. QED
          BY <1>1, <5>1, <5>3
      <4>3. QED
        BY <4>1, <4>2
    <3>2. QED
      BY <2>1, <3>1
  <2>2. CASE v \notin S
    <3>1. S \in SUBSET DOMAIN heap
      BY <1>2, <1>3, <2>2
    <3>2. PICK w \in S : \A u \in S : w \notin ToSet(heap[u].items)
      BY <3>1 DEF HeapOK, Acyclic
    <3>3. \A u \in S : heap2[u] = heap[u]
      BY <1>3, <3>1
    <3>4. QED
      BY <3>2, <3>3
  <2>3. QED
    BY <2>1, <2>2
<1>10. HeapOK(heap2)
  BY ONLY <1>3, <1>4, <1>7, <1>8, <1>9, HeapIs
<1>11. ASSUME NEW x
       PROVE  PlaceCount(ItemsOf(heap2), x) = PlaceCount(ItemsOf(heap), x)
  <2>1. PICK k : k = ItemsOf(heap)
    OBVIOUS
  <2>2. PICK k2 : k2 = ItemsOf(heap2)
    OBVIOUS
  <2>3. DOMAIN k = DOMAIN heap /\ \A u \in DOMAIN heap : k[u] = heap[u].items
    BY <2>1, CellsAre
  <2>4. DOMAIN k2 = DOMAIN heap2 /\ \A u \in DOMAIN heap2 : k2[u] = heap2[u].items
    BY <1>10, <2>2, CellsAre
  <2>5. v \notin DOMAIN k /\ DOMAIN k2 = DOMAIN k \union {v}
    BY <1>1, <1>2, <1>3, <2>3, <2>4
  <2>6. k2[v] = <<>>
    <3>1. v \in DOMAIN heap2
      BY <1>2, <1>3
    <3>2. heap2[v].items = <<>>
      BY <1>3 DEF Cell
    <3>3. QED
      BY <2>4, <3>1, <3>2
  <2>7. \A u \in DOMAIN k : k2[u] = k[u]
    BY <1>2, <1>3, <2>3, <2>4
  <2>8. PlaceCount(k2, x) = PlaceCount(k, x)
    BY ONLY <2>5, <2>6, <2>7, PlaceCountNew
  <2>9. QED
    BY <2>1, <2>2, <2>8
<1>12. v # None
  BY <1>1 DEF None
<1>13. QED
  BY ONLY <1>2, <1>3, <1>10, <1>11, <1>12 DEF Gained

(* Another count of references.                                            *)
Recounted(heap, v, refs, heap2) ==
    /\ v \in DOMAIN heap /\ refs \in Nat \ {0}
    /\ heap2 = [heap EXCEPT ![v].refs = refs]

(* The same values, but for their counts.                                  *)
Alike(heap, heap2) ==
    /\ DOMAIN heap2 = DOMAIN heap
    /\ \A u \in DOMAIN heap : /\ heap2[u].kind = heap[u].kind
                              /\ heap2[u].text = heap[u].text
                              /\ heap2[u].items = heap[u].items

LEMMA HeapRecounted ==
    ASSUME NEW heap, HeapOK(heap), NEW v, NEW refs, NEW heap2,
           Recounted(heap, v, refs, heap2)
    PROVE  /\ HeapOK(heap2) /\ Alike(heap, heap2)
           /\ heap2[v].refs = refs
           /\ \A u \in DOMAIN heap : u # v => heap2[u] = heap[u]
           /\ ItemsOf(heap2) = ItemsOf(heap)
<1>1. v \in DOMAIN heap /\ refs \in Nat \ {0} /\ heap2 = [heap EXCEPT ![v].refs = refs]
  BY DEF Recounted
<1>2. PICK D : D = DOMAIN heap
  OBVIOUS
<1>3. /\ DOMAIN heap2 = D
      /\ heap2[v] = [heap[v] EXCEPT !.refs = refs]
      /\ \A u \in D : u # v => heap2[u] = heap[u]
      /\ heap2 = [u \in D |-> heap2[u]]
  BY <1>1, <1>2
<1>4. ASSUME NEW u \in D
      PROVE  /\ heap[u].kind \in ValueKind /\ heap[u].text \in Seq(STRING)
             /\ heap[u].refs \in Nat \ {0} /\ heap[u].items \in Seq(D)
             /\ heap[u] = [kind |-> heap[u].kind, text |-> heap[u].text,
                           refs |-> heap[u].refs, items |-> heap[u].items]
  BY <1>2, CellsAre
<1>5. heap2[v] = [kind |-> heap[v].kind, text |-> heap[v].text,
                  refs |-> refs, items |-> heap[v].items]
  <2>1. heap[v] = [kind |-> heap[v].kind, text |-> heap[v].text,
                   refs |-> heap[v].refs, items |-> heap[v].items]
    BY <1>1, <1>2, <1>4
  <2>2. QED
    BY ONLY <1>3, <2>1
<1>6. ASSUME NEW u \in D
      PROVE  /\ heap2[u] \in [kind : ValueKind, text : Seq(STRING),
                              refs : Nat \ {0}, items : Seq(D)]
             /\ heap2[u].kind = heap[u].kind /\ heap2[u].text = heap[u].text
             /\ heap2[u].items = heap[u].items
  <2>1. CASE u = v
    BY <1>1, <1>4, <1>5, <2>1
  <2>2. CASE u # v
    <3>1. heap2[u] = heap[u]
      BY <1>3, <2>2
    <3>2. heap[u] \in [kind : ValueKind, text : Seq(STRING),
                       refs : Nat \ {0}, items : Seq(D)]
      <4>1. /\ heap[u].kind \in ValueKind /\ heap[u].text \in Seq(STRING)
            /\ heap[u].refs \in Nat \ {0} /\ heap[u].items \in Seq(D)
            /\ heap[u] = [kind |-> heap[u].kind, text |-> heap[u].text,
                          refs |-> heap[u].refs, items |-> heap[u].items]
        BY <1>4
      <4>2. QED
        BY ONLY <4>1
    <3>3. QED
      BY <3>1, <3>2
  <2>3. QED
    BY <2>1, <2>2
<1>7. Alike(heap, heap2)
  BY <1>2, <1>3, <1>6 DEF Alike
<1>8. heap2 \in [D -> [kind : ValueKind, text : Seq(STRING),
                       refs : Nat \ {0}, items : Seq(D)]]
  BY ONLY <1>3, <1>6
<1>9. /\ IsFiniteSet(DOMAIN heap2) /\ DOMAIN heap2 \subseteq Nat \ {0}
  BY <1>2, <1>3, CellsAre
<1>10. \A u \in DOMAIN heap2 :
           heap2[u].kind = "struct" => \E n \in Nat : Len(heap2[u].items) = 2 * n
  <2>1. \A u \in DOMAIN heap :
            heap[u].kind = "struct" => \E n \in Nat : Len(heap[u].items) = 2 * n
    BY DEF HeapOK
  <2>2. ASSUME NEW u \in DOMAIN heap2, heap2[u].kind = "struct"
        PROVE  \E n \in Nat : Len(heap2[u].items) = 2 * n
    <3>1. u \in DOMAIN heap /\ heap2[u].items = heap[u].items
          /\ heap[u].kind = "struct"
      BY <1>2, <1>3, <1>6, <2>2
    <3>2. \E n \in Nat : Len(heap[u].items) = 2 * n
      BY <2>1, <3>1
    <3>3. QED
      BY ONLY <3>1, <3>2
  <2>3. QED
    BY <2>2
<1>11. Acyclic(heap2)
  <2>1. Acyclic(heap)
    BY DEF HeapOK
  <2>2. QED
    BY ONLY <1>7, <2>1 DEF Acyclic, Alike
<1>12. HeapOK(heap2)
  BY ONLY <1>3, <1>8, <1>9, <1>10, <1>11, HeapIs
<1>13. ItemsOf(heap2) = ItemsOf(heap)
  BY ONLY <1>7, Zenon DEF ItemsOf, Alike
<1>14. heap2[v].refs = refs
  BY <1>5
<1>15. QED
  BY <1>2, <1>3, <1>7, <1>12, <1>13, <1>14

(* Other items, in a value that nothing holds.                             *)
Refilled(heap, m, items, heap2) ==
    /\ m \in DOMAIN heap /\ items \in Seq(DOMAIN heap) /\ m \notin ToSet(items)
    /\ PlaceCount(ItemsOf(heap), m) = 0
    /\ heap[m].kind = "struct" => \E n \in Nat : Len(items) = 2 * n
    /\ heap2 = [heap EXCEPT ![m].items = items]

LEMMA HeapRefilled ==
    ASSUME NEW heap, HeapOK(heap), NEW m, NEW items, NEW heap2,
           Refilled(heap, m, items, heap2)
    PROVE  /\ HeapOK(heap2) /\ DOMAIN heap2 = DOMAIN heap
           /\ heap2[m].items = items
           /\ \A u \in DOMAIN heap : /\ u # m => heap2[u] = heap[u]
                                     /\ heap2[u].kind = heap[u].kind
                                     /\ heap2[u].text = heap[u].text
                                     /\ heap2[u].refs = heap[u].refs
<1>1. /\ m \in DOMAIN heap /\ items \in Seq(DOMAIN heap) /\ m \notin ToSet(items)
      /\ PlaceCount(ItemsOf(heap), m) = 0
      /\ heap[m].kind = "struct" => \E n \in Nat : Len(items) = 2 * n
      /\ heap2 = [heap EXCEPT ![m].items = items]
  BY DEF Refilled
<1>2. PICK D : D = DOMAIN heap
  OBVIOUS
<1>3. /\ DOMAIN heap2 = D
      /\ heap2[m] = [heap[m] EXCEPT !.items = items]
      /\ \A u \in D : u # m => heap2[u] = heap[u]
      /\ heap2 = [u \in D |-> heap2[u]]
  BY <1>1, <1>2
<1>4. ASSUME NEW u \in D
      PROVE  /\ heap[u].kind \in ValueKind /\ heap[u].text \in Seq(STRING)
             /\ heap[u].refs \in Nat \ {0} /\ heap[u].items \in Seq(D)
             /\ heap[u] = [kind |-> heap[u].kind, text |-> heap[u].text,
                           refs |-> heap[u].refs, items |-> heap[u].items]
  BY <1>2, CellsAre
<1>5. heap2[m] = [kind |-> heap[m].kind, text |-> heap[m].text,
                  refs |-> heap[m].refs, items |-> items]
  <2>1. heap[m] = [kind |-> heap[m].kind, text |-> heap[m].text,
                   refs |-> heap[m].refs, items |-> heap[m].items]
    BY <1>1, <1>2, <1>4
  <2>2. QED
    BY ONLY <1>3, <2>1
<1>6. ASSUME NEW u \in D
      PROVE  /\ heap2[u] \in [kind : ValueKind, text : Seq(STRING),
                              refs : Nat \ {0}, items : Seq(D)]
             /\ heap2[u].kind = heap[u].kind /\ heap2[u].text = heap[u].text
             /\ heap2[u].refs = heap[u].refs
  <2>1. CASE u = m
    <3>1. /\ heap[m].kind \in ValueKind /\ heap[m].text \in Seq(STRING)
          /\ heap[m].refs \in Nat \ {0} /\ items \in Seq(D)
      BY <1>1, <1>2, <1>4
    <3>2. QED
      BY ONLY <1>5, <2>1, <3>1
  <2>2. CASE u # m
    <3>1. heap2[u] = heap[u]
      BY <1>3, <2>2
    <3>2. heap[u] \in [kind : ValueKind, text : Seq(STRING),
                       refs : Nat \ {0}, items : Seq(D)]
      <4>1. /\ heap[u].kind \in ValueKind /\ heap[u].text \in Seq(STRING)
            /\ heap[u].refs \in Nat \ {0} /\ heap[u].items \in Seq(D)
            /\ heap[u] = [kind |-> heap[u].kind, text |-> heap[u].text,
                          refs |-> heap[u].refs, items |-> heap[u].items]
        BY <1>4
      <4>2. QED
        BY ONLY <4>1
    <3>3. QED
      BY <3>1, <3>2
  <2>3. QED
    BY <2>1, <2>2
<1>7. heap2[m].items = items
  BY <1>5
<1>8. heap2 \in [D -> [kind : ValueKind, text : Seq(STRING),
                       refs : Nat \ {0}, items : Seq(D)]]
  BY ONLY <1>3, <1>6
<1>9. /\ IsFiniteSet(DOMAIN heap2) /\ DOMAIN heap2 \subseteq Nat \ {0}
  BY <1>2, <1>3, CellsAre
<1>10. ASSUME NEW u \in DOMAIN heap2, heap2[u].kind = "struct"
       PROVE  \E n \in Nat : Len(heap2[u].items) = 2 * n
  <2>1. heap[u].kind = "struct" /\ u \in DOMAIN heap
    BY <1>2, <1>3, <1>6, <1>10
  <2>2. CASE u = m
    <3>1. \E n \in Nat : Len(items) = 2 * n
      BY <1>1, <2>1, <2>2
    <3>2. QED
      BY ONLY <1>7, <2>2, <3>1
  <2>3. CASE u # m
    <3>1. heap2[u] = heap[u]
      BY <1>2, <1>3, <2>1, <2>3
    <3>2. \E n \in Nat : Len(heap[u].items) = 2 * n
      BY <2>1 DEF HeapOK
    <3>3. QED
      BY ONLY <3>1, <3>2
  <2>4. QED
    BY <2>2, <2>3
<1>11. Acyclic(heap2)
  <2> SUFFICES ASSUME NEW S \in SUBSET DOMAIN heap2, S # {}
               PROVE  \E w \in S : \A u \in S : w \notin ToSet(heap2[u].items)
    BY DEF Acyclic
  <2>1. \A u \in DOMAIN heap : m \notin ToSet(heap[u].items)
    BY <1>1, UnheldAre
  <2>2. CASE m \in S
    <3>1. \A u \in DOMAIN heap2 : m \notin ToSet(heap2[u].items)
      BY <1>1, <1>2, <1>3, <1>7, <2>1
    <3>2. QED
      BY <2>2, <3>1
  <2>3. CASE m \notin S
    <3>1. S \in SUBSET DOMAIN heap /\ \A u \in S : heap2[u] = heap[u]
      BY <1>2, <1>3, <2>3
    <3>2. PICK w \in S : \A u \in S : w \notin ToSet(heap[u].items)
      BY <3>1 DEF HeapOK, Acyclic
    <3>3. QED
      BY <3>1, <3>2
  <2>4. QED
    BY <2>2, <2>3
<1>12. HeapOK(heap2)
  BY ONLY <1>3, <1>8, <1>9, <1>10, <1>11, HeapIs
<1>13. QED
  BY <1>2, <1>3, <1>6, <1>7, <1>12

LEMMA RefilledItems ==
    ASSUME NEW heap, HeapOK(heap), NEW m, NEW items, NEW heap2,
           Refilled(heap, m, items, heap2)
    PROVE  /\ HoldsSeqs(ItemsOf(heap), DOMAIN heap)
           /\ HoldsSeqs(ItemsOf(heap2), DOMAIN heap)
           /\ m \in DOMAIN ItemsOf(heap) /\ DOMAIN ItemsOf(heap2) = DOMAIN ItemsOf(heap)
           /\ ItemsOf(heap)[m] = heap[m].items /\ ItemsOf(heap2)[m] = items
           /\ \A u \in DOMAIN ItemsOf(heap) : u # m => ItemsOf(heap2)[u] = ItemsOf(heap)[u]
<1>1. m \in DOMAIN heap
  BY DEF Refilled
<1>2. /\ HeapOK(heap2) /\ DOMAIN heap2 = DOMAIN heap
      /\ heap2[m].items = items
      /\ \A u \in DOMAIN heap : u # m => heap2[u] = heap[u]
  BY HeapRefilled
<1>3. /\ HoldsSeqs(ItemsOf(heap), DOMAIN heap) /\ DOMAIN ItemsOf(heap) = DOMAIN heap
      /\ \A v \in DOMAIN heap : ItemsOf(heap)[v] = heap[v].items
  BY CellsAre
<1>4. /\ HoldsSeqs(ItemsOf(heap2), DOMAIN heap2) /\ DOMAIN ItemsOf(heap2) = DOMAIN heap2
      /\ \A v \in DOMAIN heap2 : ItemsOf(heap2)[v] = heap2[v].items
  BY <1>2, CellsAre
<1>5. QED
  BY ONLY <1>1, <1>2, <1>3, <1>4

LEMMA RefilledOneMore ==
    ASSUME NEW heap, HeapOK(heap), NEW m, NEW w \in DOMAIN heap, NEW heap2,
           Refilled(heap, m, Append(heap[m].items, w), heap2), NEW x
    PROVE  PlaceCount(ItemsOf(heap2), x) = PlaceCount(ItemsOf(heap), x) + OneIf(w = x)
<1>1. PICK k : k = ItemsOf(heap)
  OBVIOUS
<1>2. PICK k2 : k2 = ItemsOf(heap2)
  OBVIOUS
<1>3. /\ HoldsSeqs(k, DOMAIN heap) /\ m \in DOMAIN k /\ DOMAIN k2 = DOMAIN k
      /\ k2[m] = Append(k[m], w)
      /\ \A u \in DOMAIN k : u # m => k2[u] = k[u]
  <2>1. PICK items : items = Append(heap[m].items, w)
    OBVIOUS
  <2>2. Refilled(heap, m, items, heap2)
    BY <2>1
  <2>3. /\ HoldsSeqs(ItemsOf(heap), DOMAIN heap)
        /\ m \in DOMAIN ItemsOf(heap) /\ DOMAIN ItemsOf(heap2) = DOMAIN ItemsOf(heap)
        /\ ItemsOf(heap)[m] = heap[m].items /\ ItemsOf(heap2)[m] = items
        /\ \A u \in DOMAIN ItemsOf(heap) : u # m => ItemsOf(heap2)[u] = ItemsOf(heap)[u]
    BY ONLY <2>2, HeapOK(heap), RefilledItems
  <2>4. QED
    BY ONLY <1>1, <1>2, <2>1, <2>3
<1>4. PlaceCount(k2, x) = PlaceCount(k, x) + OneIf(w = x)
  BY ONLY <1>3, w \in DOMAIN heap, PlaceCountAppend
<1>5. QED
  BY <1>1, <1>2, <1>4

TwoMore(heap, m, a, w, items, heap2) ==
    /\ HeapOK(heap) /\ a \in DOMAIN heap /\ w \in DOMAIN heap
    /\ items = heap[m].items \o <<a, w>>
    /\ Refilled(heap, m, items, heap2)

Changed(heap, m, i, w, items, heap2) ==
    /\ HeapOK(heap) /\ i \in DOMAIN heap[m].items /\ w \in DOMAIN heap
    /\ items = [heap[m].items EXCEPT ![i] = w]
    /\ Refilled(heap, m, items, heap2)

LEMMA RefilledTwoMore ==
    ASSUME NEW heap, NEW m, NEW a, NEW w, NEW items, NEW heap2, NEW x,
           TwoMore(heap, m, a, w, items, heap2)
    PROVE  PlaceCount(ItemsOf(heap2), x)
               = PlaceCount(ItemsOf(heap), x) + OneIf(a = x) + OneIf(w = x)
<1>0. HeapOK(heap) /\ a \in DOMAIN heap /\ w \in DOMAIN heap
  BY DEF TwoMore
<1>1. PICK k : k = ItemsOf(heap)
  OBVIOUS
<1>2. PICK k2 : k2 = ItemsOf(heap2)
  OBVIOUS
<1>3. /\ HoldsSeqs(k, DOMAIN heap) /\ m \in DOMAIN k /\ DOMAIN k2 = DOMAIN k
      /\ k2[m] = k[m] \o <<a, w>>
      /\ \A u \in DOMAIN k : u # m => k2[u] = k[u]
  <2>1. Refilled(heap, m, items, heap2)
    BY DEF TwoMore
  <2>2. items = heap[m].items \o <<a, w>>
    BY DEF TwoMore
  <2>3. /\ HoldsSeqs(ItemsOf(heap), DOMAIN heap)
        /\ m \in DOMAIN ItemsOf(heap) /\ DOMAIN ItemsOf(heap2) = DOMAIN ItemsOf(heap)
        /\ ItemsOf(heap)[m] = heap[m].items /\ ItemsOf(heap2)[m] = items
        /\ \A u \in DOMAIN ItemsOf(heap) : u # m => ItemsOf(heap2)[u] = ItemsOf(heap)[u]
    BY ONLY <2>1, <1>0, RefilledItems
  <2>4. QED
    BY ONLY <1>1, <1>2, <2>2, <2>3
<1>4. PICK k1 : k1 = [u \in DOMAIN k |-> IF u = m THEN Append(k[m], a) ELSE k[u]]
  OBVIOUS
<1>5. /\ DOMAIN k1 = DOMAIN k /\ k1[m] = Append(k[m], a)
      /\ \A u \in DOMAIN k : u # m => k1[u] = k[u]
  BY <1>3, <1>4
<1>6. HoldsSeqs(k1, DOMAIN heap) /\ PlaceCount(k1, x) = PlaceCount(k, x) + OneIf(a = x)
  <2>1. a \in DOMAIN heap
    BY <1>0
  <2>2. HoldsSeqs(k, DOMAIN heap) /\ m \in DOMAIN k
    BY <1>3
  <2>3. QED
    BY ONLY <1>5, <2>1, <2>2, PlaceCountAppend
<1>7. k2[m] = Append(k1[m], w)
  <2>1. k[m] \in Seq(DOMAIN heap)
    BY <1>3 DEF HoldsSeqs
  <2>2. PICK s : s = k[m]
    OBVIOUS
  <2>3. s \in Seq(DOMAIN heap)
    BY <2>1, <2>2
  <2>4. s \o <<a, w>> = Append(Append(s, a), w)
    <3>1. Append(s, a) = s \o <<a>>
      BY ONLY <2>3, <1>0, AppendIsConcat
    <3>2. Append(s, a) \in Seq(DOMAIN heap)
      BY <1>0, <2>3
    <3>3. Append(Append(s, a), w) = Append(s, a) \o <<w>>
      BY ONLY <3>2, <1>0, AppendIsConcat
    <3>4. <<a>> \in Seq(DOMAIN heap) /\ <<w>> \in Seq(DOMAIN heap)
      BY <1>0
    <3>5. (s \o <<a>>) \o <<w>> = s \o (<<a>> \o <<w>>)
      BY ONLY <2>3, <3>4, ConcatAssociative
    <3>6. <<a>> \o <<w>> = Append(<<a>>, w)
      BY ONLY <3>4, <1>0, AppendIsConcat
    <3>7. Append(<<a>>, w) = <<a, w>>
      BY Appends
    <3>8. QED
      BY ONLY <3>1, <3>3, <3>5, <3>6, <3>7
  <2>5. QED
    BY ONLY <1>3, <1>5, <2>2, <2>4
<1>8. \A u \in DOMAIN k1 : u # m => k2[u] = k1[u]
  BY <1>3, <1>5
<1>9. m \in DOMAIN k1 /\ DOMAIN k2 = DOMAIN k1
  BY <1>3, <1>5
<1>10. PlaceCount(k2, x) = PlaceCount(k1, x) + OneIf(w = x)
  BY ONLY <1>6, <1>7, <1>8, <1>9, <1>0, PlaceCountAppend
<1>11. QED
  BY ONLY <1>1, <1>2, <1>6, <1>10

LEMMA RefilledOther ==
    ASSUME NEW heap, NEW m, NEW i, NEW w, NEW items, NEW heap2, NEW x,
           Changed(heap, m, i, w, items, heap2)
    PROVE  PlaceCount(ItemsOf(heap2), x) + OneIf(heap[m].items[i] = x)
               = PlaceCount(ItemsOf(heap), x) + OneIf(w = x)
<1>0. HeapOK(heap) /\ i \in DOMAIN heap[m].items /\ w \in DOMAIN heap
  BY DEF Changed
<1>1. PICK k : k = ItemsOf(heap)
  OBVIOUS
<1>2. PICK k2 : k2 = ItemsOf(heap2)
  OBVIOUS
<1>3. /\ HoldsSeqs(k, DOMAIN heap) /\ m \in DOMAIN k /\ DOMAIN k2 = DOMAIN k
      /\ k[m] = heap[m].items /\ k2[m] = [heap[m].items EXCEPT ![i] = w]
      /\ \A u \in DOMAIN k : u # m => k2[u] = k[u]
  <2>1. Refilled(heap, m, items, heap2)
    BY DEF Changed
  <2>2. items = [heap[m].items EXCEPT ![i] = w]
    BY DEF Changed
  <2>3. /\ HoldsSeqs(ItemsOf(heap), DOMAIN heap)
        /\ m \in DOMAIN ItemsOf(heap) /\ DOMAIN ItemsOf(heap2) = DOMAIN ItemsOf(heap)
        /\ ItemsOf(heap)[m] = heap[m].items /\ ItemsOf(heap2)[m] = items
        /\ \A u \in DOMAIN ItemsOf(heap) : u # m => ItemsOf(heap2)[u] = ItemsOf(heap)[u]
    BY ONLY <2>1, <1>0, RefilledItems
  <2>4. QED
    BY ONLY <1>1, <1>2, <2>2, <2>3
<1>4. /\ i \in DOMAIN k[m] /\ i \in DOMAIN k2[m] /\ k2[m][i] = w
      /\ DOMAIN k2[m] \ {i} = DOMAIN k[m] \ {i}
      /\ \A j \in DOMAIN k[m] : j # i => k2[m][j] = k[m][j]
  BY <1>0, <1>3
<1>5. PlaceCount(k2, x) + OneIf(i \in DOMAIN k[m] /\ k[m][i] = x)
          = PlaceCount(k, x) + OneIf(i \in DOMAIN k2[m] /\ k2[m][i] = x)
  BY ONLY <1>3, <1>4, PlaceCountChange
<1>6. /\ (i \in DOMAIN k[m] /\ k[m][i] = x) = (heap[m].items[i] = x)
      /\ (i \in DOMAIN k2[m] /\ k2[m][i] = x) = (w = x)
  BY <1>3, <1>4
<1>7. QED
  BY ONLY <1>1, <1>2, <1>5, <1>6

(* One less, that nothing held.                                              *)
CellDropped(heap, v, heap2) ==
    /\ HeapOK(heap2) /\ DOMAIN heap2 = DOMAIN heap \ {v}
    /\ \A u \in DOMAIN heap2 : heap2[u] = heap[u] /\ u \in DOMAIN heap /\ u # v
    /\ heap[v].items \in Seq(DOMAIN heap2)
    /\ \A x : PlaceCount(ItemsOf(heap), x)
                  = PlaceCount(ItemsOf(heap2), x) + Count(heap[v].items, x)

LEMMA HeapDropped ==
    ASSUME NEW heap, HeapOK(heap), NEW v, v \in DOMAIN heap,
           PlaceCount(ItemsOf(heap), v) = 0, NEW heap2, heap2 = Without(heap, {v})
    PROVE  CellDropped(heap, v, heap2)
<1>1. PICK D : D = DOMAIN heap \ {v}
  OBVIOUS
<1>2. /\ DOMAIN heap2 = D
      /\ \A u \in D : heap2[u] = heap[u] /\ u \in DOMAIN heap /\ u # v
      /\ heap2 = [u \in D |-> heap2[u]]
  BY <1>1 DEF Without
<1>3. \A u \in DOMAIN heap : v \notin ToSet(heap[u].items)
  BY UnheldAre
<1>4. ASSUME NEW u \in DOMAIN heap
      PROVE  heap[u].items \in Seq(D)
  <2>1. heap[u].items \in Seq(DOMAIN heap)
    BY CellsAre
  <2>2. \A i \in DOMAIN heap[u].items : heap[u].items[i] # v
    BY <1>3 DEF ToSet
  <2>3. \A i \in 1..Len(heap[u].items) : heap[u].items[i] \in D
    BY <1>1, <2>1, <2>2
  <2>4. QED
    BY <2>1, <2>3
<1>5. ASSUME NEW u \in D
      PROVE  heap2[u] \in [kind : ValueKind, text : Seq(STRING),
                           refs : Nat \ {0}, items : Seq(D)]
  <2>1. u \in DOMAIN heap /\ heap2[u] = heap[u]
    BY <1>2
  <2>2. heap[u].items \in Seq(D)
    BY <1>4, <2>1
  <2>3. /\ heap[u].refs \in Nat \ {0}
        /\ heap[u].kind \in ValueKind /\ heap[u].text \in Seq(STRING)
        /\ heap[u] = [kind |-> heap[u].kind, text |-> heap[u].text,
                      refs |-> heap[u].refs, items |-> heap[u].items]
    BY <2>1, CellsAre
  <2>4. QED
    BY ONLY <2>1, <2>2, <2>3
<1>6. heap2 \in [D -> [kind : ValueKind, text : Seq(STRING),
                       refs : Nat \ {0}, items : Seq(D)]]
  BY ONLY <1>2, <1>5
<1>7. IsFiniteSet(DOMAIN heap2) /\ DOMAIN heap2 \subseteq Nat \ {0}
  <2>1. IsFiniteSet(DOMAIN heap) /\ DOMAIN heap \subseteq Nat \ {0}
    BY CellsAre
  <2>2. DOMAIN heap2 \subseteq DOMAIN heap
    BY <1>1, <1>2
  <2>3. QED
    BY <2>1, <2>2, FS_Subset
<1>8. \A u \in DOMAIN heap2 :
          heap2[u].kind = "struct" => \E n \in Nat : Len(heap2[u].items) = 2 * n
  <2>1. \A u \in DOMAIN heap :
            heap[u].kind = "struct" => \E n \in Nat : Len(heap[u].items) = 2 * n
    BY DEF HeapOK
  <2> SUFFICES ASSUME NEW u \in DOMAIN heap2, heap2[u].kind = "struct"
               PROVE  \E n \in Nat : Len(heap2[u].items) = 2 * n
    OBVIOUS
  <2>2. heap2[u] = heap[u] /\ u \in DOMAIN heap
    BY <1>2
  <2>3. \E n \in Nat : Len(heap[u].items) = 2 * n
    BY <2>1, <2>2
  <2>4. QED
    BY ONLY <2>2, <2>3
<1>9. Acyclic(heap2)
  <2> SUFFICES ASSUME NEW S \in SUBSET DOMAIN heap2, S # {}
               PROVE  \E w \in S : \A u \in S : w \notin ToSet(heap2[u].items)
    BY DEF Acyclic
  <2>1. S \in SUBSET DOMAIN heap /\ \A u \in S : heap2[u] = heap[u]
    BY <1>2
  <2>2. PICK w \in S : \A u \in S : w \notin ToSet(heap[u].items)
    BY <2>1 DEF HeapOK, Acyclic
  <2>3. QED
    BY <2>1, <2>2
<1>10. HeapOK(heap2)
  BY ONLY <1>2, <1>6, <1>7, <1>8, <1>9, HeapIs
<1>11. ASSUME NEW x
       PROVE  PlaceCount(ItemsOf(heap), x)
                  = PlaceCount(ItemsOf(heap2), x) + Count(heap[v].items, x)
  <2>1. PICK k : k = ItemsOf(heap)
    OBVIOUS
  <2>2. PICK k2 : k2 = ItemsOf(heap2)
    OBVIOUS
  <2>3. DOMAIN k = DOMAIN heap /\ \A u \in DOMAIN heap : k[u] = heap[u].items
        /\ HoldsSeqs(k, DOMAIN heap)
    BY <2>1, CellsAre
  <2>4. DOMAIN k2 = DOMAIN heap2 /\ \A u \in DOMAIN heap2 : k2[u] = heap2[u].items
    BY <1>10, <2>2, CellsAre
  <2>5. v \in DOMAIN k /\ DOMAIN k2 = DOMAIN k \ {v} /\ k[v] = heap[v].items
    BY <1>1, <1>2, <2>3, <2>4
  <2>6. \A u \in DOMAIN k2 : k2[u] = k[u]
    <3>1. \A u \in D : k2[u] = heap2[u].items
      BY <1>2, <2>4
    <3>2. \A u \in D : k[u] = heap[u].items
      BY <1>2, <2>3
    <3>3. \A u \in D : heap2[u] = heap[u]
      BY <1>2
    <3>4. DOMAIN k2 = D
      BY <1>2, <2>4
    <3>5. QED
      BY ONLY <3>1, <3>2, <3>3, <3>4
  <2>7. PlaceCount(k, x) = PlaceCount(k2, x) + Count(k[v], x)
    <3>1. HoldsSeqs(k, DOMAIN heap)
      BY <2>3
    <3>2. v \in DOMAIN k /\ DOMAIN k2 = DOMAIN k \ {v}
      BY <2>5
    <3>3. QED
      BY ONLY <2>6, <3>1, <3>2, PlaceCountDrop
  <2>8. QED
    BY ONLY <2>1, <2>2, <2>5, <2>7
<1>12. QED
  BY <1>1, <1>2, <1>4, <1>10, <1>11 DEF CellDropped
-----------------------------------------------------------------------------
(* The references to values are counted, step by step.                     *)

LEMMA ReferParts ==
    ASSUME NEW heap, HeapOK(heap), NEW fs \in Seq(AnyFrame),
           NEW rel \in Seq(DOMAIN heap), NEW out, NEW v
    PROVE  /\ PlaceCount(ItemsOf(heap), v) \in Nat
           /\ Count(Mades(fs), v) \in Nat /\ Count(Keys(fs), v) \in Nat
           /\ Count(rel, v) \in Nat /\ OneIf(out = v) \in Nat
           /\ Count(<<>>, v) = 0
<1>1. PlaceCount(ItemsOf(heap), v) \in Nat
  <2>1. HoldsSeqs(ItemsOf(heap), DOMAIN heap)
    BY CellsAre
  <2>2. QED
    BY ONLY <2>1, PlaceCountIn
<1>2. Count(Mades(fs), v) \in Nat /\ Count(Keys(fs), v) \in Nat
  BY MadesIn
<1>3. Count(rel, v) \in Nat
  BY CountIn
<1>4. QED
  BY <1>1, <1>2, <1>3, CountShort DEF OneIf

(* A value that does not exist.                                            *)
LEMMA FreshCounts ==
    ASSUME NEW heap, NEW fs, NEW rel, NEW out, WellCounted(heap, fs, rel, out),
           NEW v, v \notin DOMAIN heap, v # None
    PROVE  /\ PlaceCount(ItemsOf(heap), v) = 0
           /\ Count(Mades(fs), v) = 0 /\ Count(Keys(fs), v) = 0
           /\ Count(rel, v) = 0 /\ OneIf(out = v) = 0
<1>1. /\ HeapOK(heap) /\ fs \in Seq(AnyFrame) /\ rel \in Seq(DOMAIN heap)
      /\ out \in DOMAIN heap \union {None}
      /\ \A i \in DOMAIN fs : fs[i].made \in DOMAIN heap /\ fs[i].key \in DOMAIN heap \union {None}
  BY DEF WellCounted, FramesOK, FrameOK
<1>2. PlaceCount(ItemsOf(heap), v) = 0
  <2>1. HoldsSeqs(ItemsOf(heap), DOMAIN heap)
    BY <1>1, CellsAre
  <2>2. \A a \in DOMAIN ItemsOf(heap) : \A i \in DOMAIN ItemsOf(heap)[a] :
            ItemsOf(heap)[a][i] # v
    BY <1>1, CellsAre
  <2>3. QED
    BY ONLY <2>1, <2>2, PlaceCountIn
<1>3. Count(Mades(fs), v) = 0 /\ Count(Keys(fs), v) = 0
  <2>1. \A i \in DOMAIN fs : fs[i].made # v /\ fs[i].key # v
    BY <1>1
  <2>2. QED
    BY ONLY <1>1, <2>1, MadesIn
<1>4. Count(rel, v) = 0
  <2>1. \A i \in DOMAIN rel : rel[i] # v
    BY <1>1
  <2>2. QED
    BY ONLY <1>1, <2>1, CountIn
<1>5. QED
  BY <1>1, <1>2, <1>3, <1>4 DEF OneIf

(* Nobody refers to what a frame makes.                                    *)
LEMMA MadeAlone ==
    ASSUME NEW heap, NEW fs, NEW rel, NEW out, WellCounted(heap, fs, rel, out),
           NEW i \in DOMAIN fs
    PROVE  /\ PlaceCount(ItemsOf(heap), fs[i].made) = 0
           /\ Count(rel, fs[i].made) = 0 /\ out # fs[i].made
           /\ \A j \in DOMAIN fs : fs[j].key # fs[i].made
           /\ \A j \in DOMAIN rel : rel[j] # fs[i].made
<1>1. PICK m : m = fs[i].made
  OBVIOUS
<1>2. /\ HeapOK(heap) /\ fs \in Seq(AnyFrame) /\ rel \in Seq(DOMAIN heap)
      /\ m \in DOMAIN heap /\ heap[m].refs = 1
      /\ heap[m].refs = PlaceCount(ItemsOf(heap), m) + Count(Mades(fs), m)
                        + Count(Keys(fs), m) + Count(rel, m) + OneIf(out = m)
  BY <1>1 DEF WellCounted, FramesOK, FrameOK, Refer
<1>3. /\ PlaceCount(ItemsOf(heap), m) \in Nat
      /\ Count(Mades(fs), m) \in Nat /\ Count(Keys(fs), m) \in Nat
      /\ Count(rel, m) \in Nat /\ OneIf(out = m) \in Nat
  BY ONLY <1>2, ReferParts
<1>4. Count(Mades(fs), m) # 0
  BY <1>1, <1>2, MadesIn
<1>5. /\ PlaceCount(ItemsOf(heap), m) = 0
      /\ Count(Keys(fs), m) = 0 /\ Count(rel, m) = 0 /\ OneIf(out = m) = 0
  BY ONLY <1>2, <1>3, <1>4
<1>6. out # m
  BY <1>5 DEF OneIf
<1>7. \A j \in DOMAIN fs : fs[j].key # m
  BY ONLY <1>2, <1>5, MadesIn
<1>8. \A j \in DOMAIN rel : rel[j] # m
  BY ONLY <1>2, <1>5, CountIn
<1>9. QED
  BY <1>1, <1>5, <1>6, <1>7, <1>8

LEMMA SoundIs ==
    ASSUME NEW heap, HeapOK(heap), NEW fs \in Seq(AnyFrame), NEW out,
           \A i \in DOMAIN fs : FrameOK(heap, fs[i], i < Len(fs) \/ out # None),
           NEW rel \in Seq(DOMAIN heap), out \in DOMAIN heap \union {None},
           \A v \in DOMAIN heap :
               heap[v].refs = PlaceCount(ItemsOf(heap), v) + Count(Mades(fs), v)
                              + Count(Keys(fs), v) + Count(rel, v) + OneIf(out = v)
    PROVE  WellCounted(heap, fs, rel, out)
  BY DEF WellCounted, FramesOK, Refer

LEMMA SoundHas ==
    ASSUME NEW heap, NEW fs, NEW rel, NEW out, WellCounted(heap, fs, rel, out)
    PROVE  /\ HeapOK(heap) /\ fs \in Seq(AnyFrame)
           /\ Len(fs) \in Nat /\ DOMAIN fs = 1..Len(fs)
           /\ \A i \in DOMAIN fs : FrameOK(heap, fs[i], i < Len(fs) \/ out # None)
           /\ rel \in Seq(DOMAIN heap) /\ out \in DOMAIN heap \union {None}
           /\ \A v \in DOMAIN heap :
                  heap[v].refs = PlaceCount(ItemsOf(heap), v) + Count(Mades(fs), v)
                                 + Count(Keys(fs), v) + Count(rel, v) + OneIf(out = v)
  BY DEF WellCounted, FramesOK, Refer

(* A struct's frame has a key to go with what is made next.                *)
KeyedTop(fs) == fs # <<>> /\ Last(fs).fn = "struct" => Last(fs).key # None

LEMMA TopWaits ==
    ASSUME NEW heap, NEW heap2, NEW fs \in Seq(AnyFrame), KeyedTop(fs),
           NEW i \in DOMAIN fs, NEW waiting, FrameOK(heap, fs[i], waiting),
           waiting <=> i < Len(fs),
           DOMAIN heap \subseteq DOMAIN heap2,
           heap2[fs[i].made].kind = heap[fs[i].made].kind,
           heap2[fs[i].made].refs = heap[fs[i].made].refs
    PROVE  FrameOK(heap2, fs[i], TRUE)
<1>1. fs[i].fn = "struct" => fs[i].key # None
  <2>1. CASE i < Len(fs)
    BY <2>1 DEF FrameOK
  <2>2. CASE ~(i < Len(fs))
    <3>1. fs # <<>> /\ Last(fs) = fs[Len(fs)] /\ Len(fs) \in Nat /\ i \in 1..Len(fs)
      <4>1. Len(fs) \in Nat /\ DOMAIN fs = 1..Len(fs)
        OBVIOUS
      <4>2. i \in 1..Len(fs)
        BY <4>1
      <4>3. fs # <<>>
        BY <4>1, <4>2
      <4>4. QED
        BY <4>1, <4>2, <4>3 DEF Last
    <3>2. i = Len(fs)
      BY <2>2, <3>1
    <3>3. QED
      BY <3>1, <3>2 DEF KeyedTop
  <2>3. QED
    BY <2>1, <2>2
<1>2. QED
  BY <1>1 DEF FrameOK

(* A new value is returned.                                                *)
LEMMA SoundReturned ==
    ASSUME NEW heap, NEW fs, WellCounted(heap, fs, <<>>, None), KeyedTop(fs),
           NEW v, NEW kind, NEW text, NEW heap2, NewCell(heap, v, kind, text, heap2)
    PROVE  WellCounted(heap2, fs, <<>>, v)
<1>1. /\ HeapOK(heap) /\ fs \in Seq(AnyFrame)
      /\ \A i \in DOMAIN fs : FrameOK(heap, fs[i], i < Len(fs) \/ None # None)
      /\ \A u \in DOMAIN heap :
             heap[u].refs = PlaceCount(ItemsOf(heap), u) + Count(Mades(fs), u)
                            + Count(Keys(fs), u) + Count(<<>>, u) + OneIf(None = u)
  BY SoundHas
<1>2. /\ HeapOK(heap2)
      /\ DOMAIN heap2 = DOMAIN heap \union {v} /\ v # None
      /\ heap2[v] = Cell(kind, text)
      /\ \A u \in DOMAIN heap : heap2[u] = heap[u] /\ u # v
      /\ \A x : PlaceCount(ItemsOf(heap2), x) = PlaceCount(ItemsOf(heap), x)
  <2>1. HeapOK(heap)
    BY <1>1
  <2>2. Gained(heap, v, kind, text, heap2)
    BY ONLY <2>1, NewCell(heap, v, kind, text, heap2), HeapNew
  <2>3. QED
    BY ONLY <2>2 DEF Gained
<1>3. v \notin DOMAIN heap
  BY DEF NewCell
<1>4. ASSUME NEW i \in DOMAIN fs
      PROVE  FrameOK(heap2, fs[i], i < Len(fs) \/ v # None)
  <2>1. FrameOK(heap, fs[i], i < Len(fs) \/ None # None)
    BY <1>1
  <2>2. (i < Len(fs) \/ None # None) <=> i < Len(fs)
    OBVIOUS
  <2>3. /\ DOMAIN heap \subseteq DOMAIN heap2
        /\ heap2[fs[i].made].kind = heap[fs[i].made].kind
        /\ heap2[fs[i].made].refs = heap[fs[i].made].refs
    BY <1>2, <2>1 DEF FrameOK
  <2>4. FrameOK(heap2, fs[i], TRUE)
    BY ONLY <1>1, <1>4, <2>1, <2>2, <2>3, KeyedTop(fs), TopWaits
  <2>5. QED
    BY <1>2, <2>4 DEF FrameOK
<1>5. ASSUME NEW u \in DOMAIN heap2
      PROVE  heap2[u].refs = PlaceCount(ItemsOf(heap2), u) + Count(Mades(fs), u)
                             + Count(Keys(fs), u) + Count(<<>>, u) + OneIf(v = u)
  <2>1. PlaceCount(ItemsOf(heap2), u) = PlaceCount(ItemsOf(heap), u)
    BY <1>2
  <2>2. CASE u = v
    <3>1. /\ PlaceCount(ItemsOf(heap), v) = 0
          /\ Count(Mades(fs), v) = 0 /\ Count(Keys(fs), v) = 0
          /\ Count(<<>>, v) = 0
      BY <1>2, <1>3, FreshCounts
    <3>2. heap2[v].refs = 1
      BY <1>2 DEF Cell
    <3>3. QED
      BY <2>1, <2>2, <3>1, <3>2 DEF OneIf
  <2>3. CASE u # v
    <3>1. u \in DOMAIN heap /\ heap2[u].refs = heap[u].refs /\ u # None
      BY <1>1, <1>2, <2>3, CellsAre
    <3>2. OneIf(None = u) = 0 /\ OneIf(v = u) = 0
      BY <2>3, <3>1 DEF OneIf
    <3>3. QED
      BY <1>1, <2>1, <3>1, <3>2
  <2>4. QED
    BY <2>2, <2>3
<1>6. <<>> \in Seq(DOMAIN heap2) /\ v \in DOMAIN heap2 \union {None}
  BY <1>2
<1>7. QED
  BY ONLY <1>1, <1>2, <1>4, <1>5, <1>6, SoundIs

(* A new array or struct gets a frame.                                     *)
LEMMA SoundOpened ==
    ASSUME NEW heap, NEW fs, WellCounted(heap, fs, <<>>, None), KeyedTop(fs),
           NEW v, NEW kind, NEW text, NEW heap2, NewCell(heap, v, kind, text, heap2),
           NEW f \in AnyFrame, f.made = v, f.key = None,
           kind = IF f.fn = "struct" THEN "struct" ELSE "array"
    PROVE  WellCounted(heap2, Append(fs, f), <<>>, None)
<1>1. /\ HeapOK(heap) /\ fs \in Seq(AnyFrame) /\ Len(fs) \in Nat
      /\ \A i \in DOMAIN fs : FrameOK(heap, fs[i], i < Len(fs) \/ None # None)
      /\ \A u \in DOMAIN heap :
             heap[u].refs = PlaceCount(ItemsOf(heap), u) + Count(Mades(fs), u)
                            + Count(Keys(fs), u) + Count(<<>>, u) + OneIf(None = u)
  BY SoundHas
<1>2. /\ HeapOK(heap2)
      /\ DOMAIN heap2 = DOMAIN heap \union {v} /\ v # None
      /\ heap2[v] = Cell(kind, text)
      /\ \A u \in DOMAIN heap : heap2[u] = heap[u] /\ u # v
      /\ \A x : PlaceCount(ItemsOf(heap2), x) = PlaceCount(ItemsOf(heap), x)
  <2>1. HeapOK(heap)
    BY <1>1
  <2>2. Gained(heap, v, kind, text, heap2)
    BY ONLY <2>1, NewCell(heap, v, kind, text, heap2), HeapNew
  <2>3. QED
    BY ONLY <2>2 DEF Gained
<1>3. v \notin DOMAIN heap
  BY DEF NewCell
<1>4. PICK gs : gs = Append(fs, f)
  OBVIOUS
<1>5. PICK n : n = Len(fs)
  OBVIOUS
<1>6. /\ gs \in Seq(AnyFrame) /\ Len(gs) = n + 1 /\ gs[n + 1] = f
      /\ \A i \in 1..n : gs[i] = fs[i]
  BY <1>1, <1>4, <1>5, AppendProperties
<1>7. n \in Nat /\ DOMAIN fs = 1..n /\ DOMAIN gs = 1..(n + 1)
  BY <1>1, <1>5, <1>6
<1>8. ASSUME NEW i \in DOMAIN gs
      PROVE  FrameOK(heap2, gs[i], i < Len(gs) \/ None # None)
  <2>1. CASE i = n + 1
    <3>1. gs[i] = f /\ ~(i < Len(gs))
      BY <1>6, <1>7, <2>1
    <3>2. heap2[f.made].kind = kind /\ heap2[f.made].refs = 1
      BY <1>2 DEF Cell
    <3>3. v \in DOMAIN heap2
      BY <1>2
    <3>4. FrameOK(heap2, f, FALSE)
      BY <3>2, <3>3 DEF FrameOK
    <3>5. QED
      BY <3>1, <3>4 DEF FrameOK
  <2>2. CASE i # n + 1
    <3>1. i \in DOMAIN fs /\ gs[i] = fs[i]
      BY <1>6, <1>7, <2>2
    <3>2. FrameOK(heap, fs[i], i < Len(fs) \/ None # None)
      BY <1>1, <3>1
    <3>3. (i < Len(fs) \/ None # None) <=> i < Len(fs)
      OBVIOUS
    <3>4. /\ DOMAIN heap \subseteq DOMAIN heap2
          /\ heap2[fs[i].made].kind = heap[fs[i].made].kind
          /\ heap2[fs[i].made].refs = heap[fs[i].made].refs
      BY <1>2, <3>2 DEF FrameOK
    <3>5. FrameOK(heap2, fs[i], TRUE)
      BY ONLY <1>1, <3>1, <3>2, <3>3, <3>4, KeyedTop(fs), TopWaits
    <3>6. QED
      BY <3>1, <3>5 DEF FrameOK
  <2>3. QED
    BY <2>1, <2>2
<1>9. ASSUME NEW u \in DOMAIN heap2
      PROVE  heap2[u].refs = PlaceCount(ItemsOf(heap2), u) + Count(Mades(gs), u)
                             + Count(Keys(gs), u) + Count(<<>>, u) + OneIf(None = u)
  <2>1. PlaceCount(ItemsOf(heap2), u) = PlaceCount(ItemsOf(heap), u)
    BY <1>2
  <2>2. /\ Count(Mades(gs), u) = Count(Mades(fs), u) + OneIf(v = u)
        /\ Count(Keys(gs), u) = Count(Keys(fs), u) + OneIf(None = u)
    <3>1. /\ Count(Mades(gs), u) = Count(Mades(fs), u) + OneIf(f.made = u)
          /\ Count(Keys(gs), u) = Count(Keys(fs), u) + OneIf(f.key = u)
      BY ONLY <1>1, <1>4, f \in AnyFrame, MadesAppend
    <3>2. QED
      BY <3>1
  <2>3. u # None
    BY <1>2, CellsAre
  <2>4. OneIf(None = u) = 0
    BY <2>3 DEF OneIf
  <2>5. CASE u = v
    <3>1. /\ PlaceCount(ItemsOf(heap), v) = 0
          /\ Count(Mades(fs), v) = 0 /\ Count(Keys(fs), v) = 0
          /\ Count(<<>>, v) = 0
      BY <1>2, <1>3, FreshCounts
    <3>2. heap2[v].refs = 1
      BY <1>2 DEF Cell
    <3>3. OneIf(v = u) = 1
      BY <2>5 DEF OneIf
    <3>4. QED
      BY <2>1, <2>2, <2>4, <2>5, <3>1, <3>2, <3>3
  <2>6. CASE u # v
    <3>1. u \in DOMAIN heap /\ heap2[u].refs = heap[u].refs
      BY <1>2, <2>6
    <3>2. OneIf(v = u) = 0
      BY <2>6 DEF OneIf
    <3>3. heap[u].refs = PlaceCount(ItemsOf(heap), u) + Count(Mades(fs), u)
                         + Count(Keys(fs), u) + Count(<<>>, u) + OneIf(None = u)
      BY <1>1, <3>1
    <3>4. /\ Count(Mades(fs), u) \in Nat /\ Count(Keys(fs), u) \in Nat
      BY <1>1, MadesIn
    <3>5. QED
      BY ONLY <2>1, <2>2, <2>4, <3>1, <3>2, <3>3, <3>4
  <2>7. QED
    BY <2>5, <2>6
<1>10. <<>> \in Seq(DOMAIN heap2) /\ None \in DOMAIN heap2 \union {None}
  OBVIOUS
<1>11. WellCounted(heap2, gs, <<>>, None)
  BY ONLY <1>2, <1>6, <1>8, <1>9, <1>10, SoundIs
<1>12. QED
  BY <1>4, <1>11

(* The top frame changes its key and the child it is at.                   *)
TopMoved(fs, gs) ==
    /\ fs # <<>> /\ fs \in Seq(AnyFrame) /\ gs \in Seq(AnyFrame) /\ Len(gs) = Len(fs)
    /\ \A i \in 1..Len(fs) : i # Len(fs) => gs[i] = fs[i]
    /\ gs[Len(fs)].made = Last(fs).made /\ gs[Len(fs)].fn = Last(fs).fn

LEMMA MovedIs ==
    ASSUME NEW fs, NEW gs, TopMoved(fs, gs), NEW v
    PROVE  /\ Len(fs) \in Nat /\ DOMAIN fs = 1..Len(fs) /\ DOMAIN gs = 1..Len(fs)
           /\ Len(fs) \in 1..Len(fs) /\ Last(fs) = fs[Len(fs)]
           /\ Count(Mades(gs), v) = Count(Mades(fs), v)
           /\ Count(Keys(gs), v) + OneIf(Last(fs).key = v)
                  = Count(Keys(fs), v) + OneIf(gs[Len(fs)].key = v)
<1>1. /\ fs # <<>> /\ fs \in Seq(AnyFrame) /\ gs \in Seq(AnyFrame) /\ Len(gs) = Len(fs)
      /\ \A i \in 1..Len(fs) : i # Len(fs) => gs[i] = fs[i]
      /\ gs[Len(fs)].made = Last(fs).made
  BY DEF TopMoved
<1>2. Len(fs) \in Nat /\ DOMAIN fs = 1..Len(fs) /\ DOMAIN gs = 1..Len(fs)
  BY ONLY <1>1
<1>3. Len(fs) \in 1..Len(fs) /\ Last(fs) = fs[Len(fs)]
  BY ONLY <1>1, LastIs
<1>4. gs[Len(fs)].made = fs[Len(fs)].made
  BY <1>1, <1>3
<1>5. /\ Count(Mades(gs), v) = Count(Mades(fs), v)
      /\ Count(Keys(gs), v) + OneIf(Last(fs).key = v)
             = Count(Keys(fs), v) + OneIf(gs[Len(fs)].key = v)
  BY ONLY <1>1, <1>4, MadesLast
<1>6. QED
  BY <1>2, <1>3, <1>5

LEMMA SoundKeyed ==
    ASSUME NEW heap, NEW fs, WellCounted(heap, fs, <<>>, None),
           NEW k, NEW text, NEW heap2, NewCell(heap, k, "string", text, heap2),
           NEW gs, TopMoved(fs, gs), Last(fs).fn = "struct", Last(fs).key = None,
           gs[Len(fs)].key = k
    PROVE  WellCounted(heap2, gs, <<>>, None)
<1>1. /\ HeapOK(heap) /\ fs \in Seq(AnyFrame) /\ Len(fs) \in Nat
      /\ \A i \in DOMAIN fs : FrameOK(heap, fs[i], i < Len(fs) \/ None # None)
      /\ \A u \in DOMAIN heap :
             heap[u].refs = PlaceCount(ItemsOf(heap), u) + Count(Mades(fs), u)
                            + Count(Keys(fs), u) + Count(<<>>, u) + OneIf(None = u)
  BY SoundHas
<1>2. /\ HeapOK(heap2)
      /\ DOMAIN heap2 = DOMAIN heap \union {k} /\ k # None
      /\ heap2[k] = Cell("string", text)
      /\ \A u \in DOMAIN heap : heap2[u] = heap[u] /\ u # k
      /\ \A x : PlaceCount(ItemsOf(heap2), x) = PlaceCount(ItemsOf(heap), x)
  <2>1. HeapOK(heap)
    BY <1>1
  <2>2. Gained(heap, k, "string", text, heap2)
    BY ONLY <2>1, NewCell(heap, k, "string", text, heap2), HeapNew
  <2>3. QED
    BY ONLY <2>2 DEF Gained
<1>3. k \notin DOMAIN heap
  BY DEF NewCell
<1>4. PICK n : n = Len(fs)
  OBVIOUS
<1>5. /\ gs \in Seq(AnyFrame) /\ Len(gs) = n
      /\ \A i \in 1..n : i # n => gs[i] = fs[i]
      /\ gs[n].made = Last(fs).made /\ gs[n].fn = "struct" /\ gs[n].key = k
  BY <1>4 DEF TopMoved
<1>6. n \in Nat /\ DOMAIN fs = 1..n /\ DOMAIN gs = 1..n /\ n \in 1..n /\ Last(fs) = fs[n]
  BY <1>4, MovedIs
<1>7. ASSUME NEW i \in DOMAIN gs
      PROVE  FrameOK(heap2, gs[i], i < Len(gs) \/ None # None)
  <2>1. i \in DOMAIN fs /\ i < Len(gs) <=> i < Len(fs)
    BY <1>4, <1>5, <1>6
  <2>2. FrameOK(heap, fs[i], i < Len(fs) \/ None # None)
    BY <1>1, <1>6
  <2>3. /\ fs[i].made \in DOMAIN heap /\ heap2[fs[i].made] = heap[fs[i].made]
    BY <1>2, <2>2 DEF FrameOK
  <2>4. CASE i = n
    <3>1. /\ gs[i].made \in DOMAIN heap2 /\ heap2[gs[i].made] = heap[fs[i].made]
          /\ gs[i].key \in DOMAIN heap2 /\ gs[i].key # None
          /\ gs[i].fn = "struct" /\ fs[i].fn = "struct"
      BY <1>2, <1>5, <1>6, <2>3, <2>4
    <3>2. QED
      BY <2>2, <3>1 DEF FrameOK
  <2>5. CASE i # n
    <3>1. gs[i] = fs[i] /\ i < Len(fs) /\ i < Len(gs)
      BY <1>4, <1>5, <1>6, <2>5
    <3>2. FrameOK(heap, fs[i], TRUE)
      BY <2>2, <3>1
    <3>3. FrameOK(heap2, fs[i], TRUE)
      BY ONLY <1>2, <2>3, <3>2 DEF FrameOK
    <3>4. QED
      BY <3>1, <3>3
  <2>6. QED
    BY <2>4, <2>5
<1>8. ASSUME NEW u \in DOMAIN heap2
      PROVE  heap2[u].refs = PlaceCount(ItemsOf(heap2), u) + Count(Mades(gs), u)
                             + Count(Keys(gs), u) + Count(<<>>, u) + OneIf(None = u)
  <2>1. PlaceCount(ItemsOf(heap2), u) = PlaceCount(ItemsOf(heap), u)
    BY <1>2
  <2>2. /\ Count(Mades(gs), u) = Count(Mades(fs), u)
        /\ Count(Keys(gs), u) + OneIf(None = u) = Count(Keys(fs), u) + OneIf(k = u)
    BY <1>4, <1>5, MovedIs
  <2>3. u # None
    BY <1>2, CellsAre
  <2>4. OneIf(None = u) = 0 /\ Count(Keys(gs), u) \in Nat
    BY <1>5, <2>3, MadesIn DEF OneIf
  <2>5. CASE u = k
    <3>1. /\ PlaceCount(ItemsOf(heap), k) = 0
          /\ Count(Mades(fs), k) = 0 /\ Count(Keys(fs), k) = 0
          /\ Count(<<>>, k) = 0
      BY <1>2, <1>3, FreshCounts
    <3>2. heap2[k].refs = 1
      BY <1>2 DEF Cell
    <3>3. OneIf(k = u) = 1
      BY <2>5 DEF OneIf
    <3>4. QED
      BY <2>1, <2>2, <2>4, <2>5, <3>1, <3>2, <3>3
  <2>6. CASE u # k
    <3>1. u \in DOMAIN heap /\ heap2[u].refs = heap[u].refs
      BY <1>2, <2>6
    <3>2. OneIf(k = u) = 0
      BY <2>6 DEF OneIf
    <3>3. heap[u].refs = PlaceCount(ItemsOf(heap), u) + Count(Mades(fs), u)
                         + Count(Keys(fs), u) + Count(<<>>, u) + OneIf(None = u)
      BY <1>1, <3>1
    <3>4. /\ Count(Mades(fs), u) \in Nat /\ Count(Keys(fs), u) \in Nat
      BY <1>1, MadesIn
    <3>5. QED
      BY ONLY <2>1, <2>2, <2>4, <3>1, <3>2, <3>3, <3>4
  <2>7. QED
    BY <2>5, <2>6
<1>9. <<>> \in Seq(DOMAIN heap2) /\ None \in DOMAIN heap2 \union {None}
  OBVIOUS
<1>10. QED
  BY ONLY <1>2, <1>5, <1>7, <1>8, <1>9, SoundIs

(* What was returned goes into what the top frame makes.                   *)
Filled(heap, fs, w, heap2, gs, rel) ==
    /\ HeapOK(heap2) /\ DOMAIN heap2 = DOMAIN heap
    /\ TopMoved(fs, gs) /\ gs[Len(fs)].key = None
    /\ w \in DOMAIN heap /\ rel \in Seq(DOMAIN heap)
    /\ \A u \in DOMAIN heap : heap2[u].kind = heap[u].kind
    /\ \A u \in DOMAIN heap : u # w /\ u # Last(fs).key => heap2[u].refs = heap[u].refs
    /\ \A u \in DOMAIN heap :
           heap2[u].refs + PlaceCount(ItemsOf(heap), u) + OneIf(Last(fs).key = u) + OneIf(w = u)
               = heap[u].refs + PlaceCount(ItemsOf(heap2), u) + Count(rel, u)

LEMMA SoundFilled ==
    ASSUME NEW heap, NEW fs, NEW w, WellCounted(heap, fs, <<>>, w),
           NEW heap2, NEW gs, NEW rel, Filled(heap, fs, w, heap2, gs, rel)
    PROVE  WellCounted(heap2, gs, rel, None)
<1>1. /\ HeapOK(heap) /\ fs \in Seq(AnyFrame) /\ Len(fs) \in Nat
      /\ \A i \in DOMAIN fs : FrameOK(heap, fs[i], i < Len(fs) \/ w # None)
      /\ \A u \in DOMAIN heap :
             heap[u].refs = PlaceCount(ItemsOf(heap), u) + Count(Mades(fs), u)
                            + Count(Keys(fs), u) + Count(<<>>, u) + OneIf(w = u)
  BY SoundHas
<1>2. /\ HeapOK(heap2) /\ DOMAIN heap2 = DOMAIN heap
      /\ TopMoved(fs, gs) /\ gs[Len(fs)].key = None
      /\ w \in DOMAIN heap /\ rel \in Seq(DOMAIN heap)
      /\ \A u \in DOMAIN heap : heap2[u].kind = heap[u].kind
      /\ \A u \in DOMAIN heap : u # w /\ u # Last(fs).key => heap2[u].refs = heap[u].refs
      /\ \A u \in DOMAIN heap :
             heap2[u].refs + PlaceCount(ItemsOf(heap), u) + OneIf(Last(fs).key = u) + OneIf(w = u)
                 = heap[u].refs + PlaceCount(ItemsOf(heap2), u) + Count(rel, u)
  BY DEF Filled
<1>3. PICK n : n = Len(fs)
  OBVIOUS
<1>4. /\ gs \in Seq(AnyFrame) /\ Len(gs) = n /\ gs[n].key = None
      /\ \A i \in 1..n : i # n => gs[i] = fs[i]
      /\ gs[n].made = Last(fs).made /\ gs[n].fn = Last(fs).fn
  BY <1>2, <1>3 DEF TopMoved
<1>5. n \in Nat /\ DOMAIN fs = 1..n /\ DOMAIN gs = 1..n /\ n \in 1..n /\ Last(fs) = fs[n]
  BY <1>2, <1>3, MovedIs
<1>6. ASSUME NEW i \in DOMAIN fs
      PROVE  heap2[fs[i].made].refs = heap[fs[i].made].refs
  <2>1. w # fs[i].made /\ \A j \in DOMAIN fs : fs[j].key # fs[i].made
    BY <1>6, MadeAlone
  <2>2. fs[n].key # fs[i].made
    BY <1>5, <2>1
  <2>3. fs[i].made \in DOMAIN heap
    BY <1>1 DEF FrameOK
  <2>4. QED
    BY <1>2, <1>5, <2>1, <2>2, <2>3
<1>7. ASSUME NEW i \in DOMAIN gs
      PROVE  FrameOK(heap2, gs[i], i < Len(gs) \/ None # None)
  <2>1. i \in DOMAIN fs
    BY <1>5
  <2>2. FrameOK(heap, fs[i], i < Len(fs) \/ w # None)
    BY <1>1, <2>1
  <2>3. /\ fs[i].made \in DOMAIN heap /\ heap2[fs[i].made].refs = heap[fs[i].made].refs
        /\ heap2[fs[i].made].kind = heap[fs[i].made].kind
    BY <1>2, <1>6, <2>1, <2>2 DEF FrameOK
  <2>4. w # None
    BY <1>1, <1>2, CellsAre
  <2>5. CASE i = n
    <3>1. /\ gs[i].made = fs[i].made /\ gs[i].key = None /\ gs[i].fn = fs[i].fn
          /\ ~(i < Len(gs) \/ None # None)
      BY <1>4, <1>5, <2>5
    <3>2. QED
      BY ONLY <1>2, <2>2, <2>3, <3>1 DEF FrameOK
  <2>6. CASE i # n
    <3>1. gs[i] = fs[i]
      BY <1>4, <1>5, <2>6
    <3>2. QED
      BY ONLY <1>2, <2>2, <2>3, <2>4, <3>1 DEF FrameOK
  <2>7. QED
    BY <2>5, <2>6
<1>8. ASSUME NEW u \in DOMAIN heap2
      PROVE  heap2[u].refs = PlaceCount(ItemsOf(heap2), u) + Count(Mades(gs), u)
                             + Count(Keys(gs), u) + Count(rel, u) + OneIf(None = u)
  <2>1. u \in DOMAIN heap
    BY <1>2
  <2>2. heap2[u].refs + PlaceCount(ItemsOf(heap), u) + OneIf(Last(fs).key = u) + OneIf(w = u)
            = heap[u].refs + PlaceCount(ItemsOf(heap2), u) + Count(rel, u)
    BY <1>2, <2>1
  <2>3. heap[u].refs = PlaceCount(ItemsOf(heap), u) + Count(Mades(fs), u)
                       + Count(Keys(fs), u) + Count(<<>>, u) + OneIf(w = u)
    BY <1>1, <2>1
  <2>4. Count(Mades(gs), u) = Count(Mades(fs), u)
    BY <1>2, MovedIs
  <2>5. Count(Keys(gs), u) + OneIf(Last(fs).key = u) = Count(Keys(fs), u) + OneIf(None = u)
    BY <1>2, MovedIs
  <2>6. /\ PlaceCount(ItemsOf(heap), u) \in Nat
        /\ Count(Mades(fs), u) \in Nat /\ Count(Keys(fs), u) \in Nat
        /\ OneIf(w = u) \in Nat /\ Count(<<>>, u) = 0
    <3>1. <<>> \in Seq(DOMAIN heap)
      OBVIOUS
    <3>2. QED
      BY ONLY <1>1, <3>1, ReferParts
  <2>7. PlaceCount(ItemsOf(heap2), u) \in Nat /\ Count(Keys(gs), u) \in Nat
        /\ Count(rel, u) \in Nat
    BY ONLY <1>2, <1>4, ReferParts
  <2>8. OneIf(None = u) = 0
    BY <1>1, <2>1, CellsAre DEF OneIf
  <2>9. heap2[u].refs \in Nat /\ OneIf(Last(fs).key = u) \in Nat
    BY <1>2, <2>1, CellsAre DEF OneIf
  <2>10. PICK l \in Nat : l = OneIf(Last(fs).key = u)
    BY <2>9
  <2>11. PICK o \in Nat : o = OneIf(w = u)
    BY <2>6
  <2>12. PICK p \in Nat : p = PlaceCount(ItemsOf(heap), u)
    BY <2>6
  <2>13. PICK m \in Nat : m = Count(Mades(fs), u)
    BY <2>6
  <2>14. PICK k \in Nat : k = Count(Keys(fs), u)
    BY <2>6
  <2>15. heap[u].refs = p + m + k + o
    BY ONLY <2>3, <2>6, <2>11, <2>12, <2>13, <2>14
  <2>16. heap2[u].refs + l = m + k + PlaceCount(ItemsOf(heap2), u) + Count(rel, u)
    BY ONLY <2>2, <2>7, <2>9, <2>10, <2>11, <2>12, <2>13, <2>14, <2>15
  <2>17. Count(Keys(gs), u) + l = k
    BY ONLY <2>5, <2>7, <2>8, <2>10, <2>14
  <2>18. QED
    BY ONLY <2>4, <2>7, <2>8, <2>9, <2>13, <2>16, <2>17
<1>9. rel \in Seq(DOMAIN heap2) /\ None \in DOMAIN heap2 \union {None}
  BY <1>2
<1>10. QED
  BY ONLY <1>2, <1>4, <1>7, <1>8, <1>9, SoundIs

LEMMA IncRefIs ==
    ASSUME NEW heap, HeapOK(heap), NEW w \in DOMAIN heap
    PROVE  /\ HeapOK(IncRef(heap, w)) /\ Alike(heap, IncRef(heap, w))
           /\ ItemsOf(IncRef(heap, w)) = ItemsOf(heap)
           /\ \A u \in DOMAIN heap : IncRef(heap, w)[u].refs = heap[u].refs + OneIf(w = u)
<1>1. heap[w].refs \in Nat \ {0}
  BY CellsAre
<1>2. Recounted(heap, w, heap[w].refs + 1, IncRef(heap, w))
  BY <1>1 DEF Recounted, IncRef
<1>3. PICK h : h = IncRef(heap, w)
  OBVIOUS
<1>4. Recounted(heap, w, heap[w].refs + 1, h)
  BY <1>2, <1>3
<1>5. /\ HeapOK(h) /\ Alike(heap, h)
      /\ h[w].refs = heap[w].refs + 1
      /\ \A u \in DOMAIN heap : u # w => h[u] = heap[u]
      /\ ItemsOf(h) = ItemsOf(heap)
  BY ONLY <1>4, HeapOK(heap), HeapRecounted
<1>6. ASSUME NEW u \in DOMAIN heap
      PROVE  h[u].refs = heap[u].refs + OneIf(w = u)
  <2>1. heap[u].refs \in Nat
    BY CellsAre
  <2>2. CASE u = w
    BY <1>5, <2>2 DEF OneIf
  <2>3. CASE u # w
    BY <1>5, <2>1, <2>3 DEF OneIf
  <2>4. QED
    BY <2>2, <2>3
<1>7. QED
  BY ONLY <1>3, <1>5, <1>6

(* What the top frame makes can be filled.                                 *)
LEMMA TopFills ==
    ASSUME NEW heap, NEW fs, NEW rel, NEW out, WellCounted(heap, fs, rel, out), fs # <<>>
    PROVE  /\ Last(fs).made \in DOMAIN heap /\ Last(fs).key \in DOMAIN heap \union {None}
           /\ PlaceCount(ItemsOf(heap), Last(fs).made) = 0
           /\ out # Last(fs).made /\ Last(fs).key # Last(fs).made
           /\ Last(fs).made \notin ToSet(heap[Last(fs).made].items)
           /\ FrameOK(heap, Last(fs), out # None)
           /\ Len(fs) \in Nat \ {0} /\ Last(fs) = fs[Len(fs)]
<1>1. fs \in Seq(AnyFrame) /\ HeapOK(heap)
  BY SoundHas
<1>2. Last(fs) = fs[Len(fs)] /\ Len(fs) \in DOMAIN fs /\ Len(fs) \in Nat \ {0}
  <2>1. Len(fs) \in Nat \ {0}
    BY <1>1
  <2>2. Last(fs) = fs[Len(fs)] /\ Len(fs) \in DOMAIN fs
    BY ONLY <1>1, fs # <<>>, LastIs
  <2>3. QED
    BY <2>1, <2>2
<1>3. FrameOK(heap, fs[Len(fs)], Len(fs) < Len(fs) \/ out # None)
  BY <1>2, SoundHas
<1>4. (Len(fs) < Len(fs) \/ out # None) <=> out # None
  BY <1>2
<1>5. FrameOK(heap, Last(fs), out # None)
  BY ONLY <1>2, <1>3, <1>4 DEF FrameOK
<1>6. /\ PlaceCount(ItemsOf(heap), fs[Len(fs)].made) = 0
      /\ out # fs[Len(fs)].made
      /\ \A j \in DOMAIN fs : fs[j].key # fs[Len(fs)].made
  BY <1>2, MadeAlone
<1>7. Last(fs).made \in DOMAIN heap /\ Last(fs).key \in DOMAIN heap \union {None}
  BY ONLY <1>5 DEF FrameOK
<1>8. \A u \in DOMAIN heap : fs[Len(fs)].made \notin ToSet(heap[u].items)
  BY ONLY <1>1, <1>6, UnheldAre
<1>9. QED
  BY ONLY <1>2, <1>5, <1>6, <1>7, <1>8

(* An array takes the value.                                               *)
LEMMA SoundAppended ==
    ASSUME NEW heap, NEW fs, NEW w, WellCounted(heap, fs, <<>>, w), w # None,
           NEW gs, TopMoved(fs, gs), gs[Len(fs)].key = None, Last(fs).fn # "struct",
           NEW heap2, heap2 = [IncRef(heap, w) EXCEPT
                                   ![Last(fs).made].items = Append(@, w)]
    PROVE  WellCounted(heap2, gs, <<w>>, None)
<1>1. HeapOK(heap) /\ w \in DOMAIN heap
  BY SoundHas
<1>2. PICK m : m = Last(fs).made
  OBVIOUS
<1>3. fs # <<>>
  BY DEF TopMoved
<1>4. /\ m \in DOMAIN heap /\ PlaceCount(ItemsOf(heap), m) = 0
      /\ m # w /\ m \notin ToSet(heap[m].items)
      /\ FrameOK(heap, Last(fs), w # None)
  BY <1>2, <1>3, TopFills
<1>5. heap[m].kind = "array" /\ Last(fs).key = None
  BY <1>2, <1>4 DEF FrameOK
<1>6. PICK h : h = IncRef(heap, w)
  OBVIOUS
<1>7. /\ HeapOK(h) /\ Alike(heap, h) /\ ItemsOf(h) = ItemsOf(heap)
      /\ \A u \in DOMAIN heap : h[u].refs = heap[u].refs + OneIf(w = u)
  BY <1>1, <1>6, IncRefIs
<1>8. /\ DOMAIN h = DOMAIN heap /\ h[m].items = heap[m].items
      /\ \A u \in DOMAIN heap : h[u].kind = heap[u].kind
  BY <1>4, <1>7 DEF Alike
<1>9. PICK items : items = Append(h[m].items, w)
  OBVIOUS
<1>10. heap[m].items \in Seq(DOMAIN heap)
  BY <1>1, <1>4, CellsAre
<1>11. items \in Seq(DOMAIN h) /\ m \notin ToSet(items)
  <2>1. PICK s : s = heap[m].items
    OBVIOUS
  <2>2. s \in Seq(DOMAIN heap) /\ m \notin ToSet(s)
    BY <1>4, <1>10, <2>1
  <2>3. items = Append(s, w)
    BY <1>8, <1>9, <2>1
  <2>4. items \in Seq(DOMAIN heap)
    BY ONLY <1>1, <2>2, <2>3
  <2>5. \A i \in DOMAIN items : items[i] # m
    BY ONLY <1>1, <1>4, <2>2, <2>3 DEF ToSet
  <2>6. QED
    BY <1>8, <2>4, <2>5 DEF ToSet
<1>12. heap2 = [h EXCEPT ![m].items = items]
  BY <1>2, <1>6, <1>9
<1>13. Refilled(h, m, items, heap2)
  BY <1>4, <1>5, <1>7, <1>8, <1>11, <1>12 DEF Refilled
<1>14. /\ HeapOK(heap2) /\ DOMAIN heap2 = DOMAIN h
       /\ \A u \in DOMAIN h : heap2[u].kind = h[u].kind /\ heap2[u].refs = h[u].refs
  BY ONLY <1>7, <1>13, HeapRefilled
<1>15. ASSUME NEW u
       PROVE  PlaceCount(ItemsOf(heap2), u) = PlaceCount(ItemsOf(heap), u) + OneIf(w = u)
  <2>1. Refilled(h, m, Append(h[m].items, w), heap2) /\ w \in DOMAIN h
    BY <1>1, <1>8, <1>9, <1>13
  <2>2. PlaceCount(ItemsOf(heap2), u) = PlaceCount(ItemsOf(h), u) + OneIf(w = u)
    BY ONLY <1>7, <2>1, RefilledOneMore
  <2>3. QED
    BY <1>7, <2>2
<1>16. \A u \in DOMAIN heap : /\ heap2[u].kind = heap[u].kind
                              /\ heap2[u].refs = heap[u].refs + OneIf(w = u)
                              /\ heap[u].refs \in Nat
  BY <1>1, <1>7, <1>8, <1>14, CellsAre
<1>17. Filled(heap, fs, w, heap2, gs, <<w>>)
  <2>1. HeapOK(heap2) /\ DOMAIN heap2 = DOMAIN heap
    BY <1>8, <1>14
  <2>2. \A u \in DOMAIN heap : u # w /\ u # Last(fs).key => heap2[u].refs = heap[u].refs
    BY <1>16 DEF OneIf
  <2>3. <<w>> \in Seq(DOMAIN heap)
    BY <1>1
  <2>4. ASSUME NEW u \in DOMAIN heap
        PROVE  heap2[u].refs + PlaceCount(ItemsOf(heap), u) + OneIf(Last(fs).key = u) + OneIf(w = u)
                   = heap[u].refs + PlaceCount(ItemsOf(heap2), u) + Count(<<w>>, u)
    <3>1. Count(<<w>>, u) = OneIf(w = u)
      BY CountShort
    <3>2. OneIf(Last(fs).key = u) = 0 /\ OneIf(w = u) \in Nat
      BY <1>1, <1>5, CellsAre DEF OneIf
    <3>3. PlaceCount(ItemsOf(heap), u) \in Nat
      BY <1>1, CellsAre, PlaceCountIn
    <3>4. /\ heap2[u].refs = heap[u].refs + OneIf(w = u) /\ heap[u].refs \in Nat
          /\ PlaceCount(ItemsOf(heap2), u) = PlaceCount(ItemsOf(heap), u) + OneIf(w = u)
      BY <1>15, <1>16
    <3>5. QED
      BY ONLY <3>1, <3>2, <3>3, <3>4
  <2>5. TopMoved(fs, gs) /\ gs[Len(fs)].key = None
    OBVIOUS
  <2>6. QED
    BY ONLY <1>1, <1>16, <2>1, <2>2, <2>3, <2>4, <2>5 DEF Filled
<1>18. QED
  BY ONLY <1>17, WellCounted(heap, fs, <<>>, w), SoundFilled

(* A struct takes the key and the value.                                   *)
LEMMA SoundMember ==
    ASSUME NEW heap, NEW fs, NEW w, WellCounted(heap, fs, <<>>, w), w # None,
           NEW gs, TopMoved(fs, gs), gs[Len(fs)].key = None, Last(fs).fn = "struct",
           NEW heap2, heap2 = [IncRef(IncRef(heap, Last(fs).key), w) EXCEPT
                                   ![Last(fs).made].items = @ \o <<Last(fs).key, w>>]
    PROVE  WellCounted(heap2, gs, <<Last(fs).key, w>>, None)
<1>1. HeapOK(heap) /\ w \in DOMAIN heap
  BY SoundHas
<1>2. PICK m : m = Last(fs).made
  OBVIOUS
<1>3. fs # <<>>
  BY DEF TopMoved
<1>4. PICK k : k = Last(fs).key
  OBVIOUS
<1>5. /\ m \in DOMAIN heap /\ PlaceCount(ItemsOf(heap), m) = 0
      /\ m # w /\ m # k /\ m \notin ToSet(heap[m].items)
      /\ FrameOK(heap, Last(fs), w # None)
  BY <1>2, <1>3, <1>4, TopFills
<1>6. k \in DOMAIN heap /\ heap[m].kind = "struct"
  BY <1>2, <1>4, <1>5 DEF FrameOK
<1>7. PICK h0 : h0 = IncRef(heap, k)
  OBVIOUS
<1>8. /\ HeapOK(h0) /\ Alike(heap, h0) /\ ItemsOf(h0) = ItemsOf(heap)
      /\ \A u \in DOMAIN heap : h0[u].refs = heap[u].refs + OneIf(k = u)
  BY <1>1, <1>6, <1>7, IncRefIs
<1>9. /\ DOMAIN h0 = DOMAIN heap /\ h0[m].items = heap[m].items
      /\ \A u \in DOMAIN heap : h0[u].kind = heap[u].kind
  BY <1>5, <1>8 DEF Alike
<1>10. PICK h : h = IncRef(h0, w)
  OBVIOUS
<1>11. /\ HeapOK(h) /\ Alike(h0, h) /\ ItemsOf(h) = ItemsOf(h0)
       /\ \A u \in DOMAIN h0 : h[u].refs = h0[u].refs + OneIf(w = u)
  BY <1>1, <1>8, <1>9, <1>10, IncRefIs
<1>12. /\ DOMAIN h = DOMAIN heap /\ h[m].items = heap[m].items
       /\ \A u \in DOMAIN heap : h[u].kind = heap[u].kind
  BY <1>5, <1>9, <1>11 DEF Alike
<1>13. PICK items : items = h[m].items \o <<k, w>>
  OBVIOUS
<1>14. heap[m].items \in Seq(DOMAIN heap)
  BY <1>1, <1>5, CellsAre
<1>15. /\ items \in Seq(DOMAIN h) /\ m \notin ToSet(items)
       /\ \E n \in Nat : Len(items) = 2 * n
  <2>1. PICK s : s = heap[m].items
    OBVIOUS
  <2>2. s \in Seq(DOMAIN heap) /\ m \notin ToSet(s)
    BY <1>5, <1>14, <2>1
  <2>3. items = s \o <<k, w>>
    BY <1>12, <1>13, <2>1
  <2>4. PICK t : t = <<k, w>>
    OBVIOUS
  <2>5. t \in Seq(DOMAIN heap) /\ Len(t) = 2 /\ t[1] = k /\ t[2] = w
    BY <1>1, <1>6, <2>4
  <2>6. /\ items \in Seq(DOMAIN heap) /\ Len(items) = Len(s) + 2
        /\ \A i \in 1..(Len(s) + 2) :
               items[i] = IF i <= Len(s) THEN s[i] ELSE t[i - Len(s)]
    <3>1. items = s \o t
      BY <2>3, <2>4
    <3>2. s \in Seq(DOMAIN heap) /\ t \in Seq(DOMAIN heap)
      BY <2>2, <2>5
    <3>3. /\ s \o t \in Seq(DOMAIN heap)
          /\ Len(s \o t) = Len(s) + Len(t)
          /\ \A i \in 1..(Len(s) + Len(t)) :
                 (s \o t)[i] = IF i <= Len(s) THEN s[i] ELSE t[i - Len(s)]
      BY ONLY <3>2, ConcatProperties
    <3>4. QED
      BY ONLY <2>5, <3>1, <3>3
  <2>7. \A i \in DOMAIN items : items[i] # m
    <3>1. Len(s) \in Nat /\ DOMAIN s = 1..Len(s) /\ DOMAIN items = 1..(Len(s) + 2)
      BY <2>2, <2>6
    <3>2. \A i \in 1..Len(s) : s[i] # m
      BY <2>2, <3>1 DEF ToSet
    <3> SUFFICES ASSUME NEW i \in 1..(Len(s) + 2) PROVE items[i] # m
      BY <3>1
    <3>3. CASE i <= Len(s)
      <4>1. i \in 1..Len(s)
        BY <3>1, <3>3
      <4>2. items[i] = s[i]
        BY <2>6, <3>3
      <4>3. QED
        BY <3>2, <4>1, <4>2
    <3>4. CASE ~(i <= Len(s))
      <4>1. i - Len(s) = 1 \/ i - Len(s) = 2
        BY <3>1, <3>4
      <4>2. items[i] = t[i - Len(s)]
        BY <2>6, <3>4
      <4>3. QED
        BY <1>5, <2>5, <4>1, <4>2
    <3>5. QED
      BY <3>3, <3>4
  <2>8. \E n \in Nat : Len(items) = 2 * n
    <3>1. PICK n \in Nat : Len(heap[m].items) = 2 * n
      BY <1>1, <1>5, <1>6 DEF HeapOK
    <3>2. Len(items) = 2 * (n + 1)
      BY <2>1, <2>6, <3>1
    <3>3. n + 1 \in Nat
      OBVIOUS
    <3>4. QED
      BY ONLY <3>2, <3>3
  <2>9. QED
    BY <1>12, <2>6, <2>7, <2>8 DEF ToSet
<1>16. heap2 = [h EXCEPT ![m].items = items]
  BY <1>2, <1>4, <1>7, <1>10, <1>13
<1>17. Refilled(h, m, items, heap2)
  BY <1>5, <1>8, <1>11, <1>12, <1>15, <1>16 DEF Refilled
<1>18. /\ HeapOK(heap2) /\ DOMAIN heap2 = DOMAIN h
       /\ \A u \in DOMAIN h : heap2[u].kind = h[u].kind /\ heap2[u].refs = h[u].refs
  BY ONLY <1>11, <1>17, HeapRefilled
<1>19. ASSUME NEW u
       PROVE  PlaceCount(ItemsOf(heap2), u)
                  = PlaceCount(ItemsOf(heap), u) + OneIf(k = u) + OneIf(w = u)
  <2>1. w \in DOMAIN h /\ k \in DOMAIN h /\ HeapOK(h)
    BY <1>1, <1>6, <1>11, <1>12
  <2>2. PlaceCount(ItemsOf(heap2), u) = PlaceCount(ItemsOf(h), u) + OneIf(k = u) + OneIf(w = u)
    <3>1. TwoMore(h, m, k, w, items, heap2)
      BY <1>13, <1>17, <2>1 DEF TwoMore
    <3>2. QED
      BY ONLY <3>1, RefilledTwoMore
  <2>3. QED
    BY <1>8, <1>11, <2>2
<1>20. \A u \in DOMAIN heap : /\ heap2[u].kind = heap[u].kind
                              /\ heap2[u].refs = heap[u].refs + OneIf(k = u) + OneIf(w = u)
                              /\ heap[u].refs \in Nat
  <2> SUFFICES ASSUME NEW u \in DOMAIN heap
               PROVE  /\ heap2[u].kind = heap[u].kind
                      /\ heap2[u].refs = heap[u].refs + OneIf(k = u) + OneIf(w = u)
                      /\ heap[u].refs \in Nat
    OBVIOUS
  <2>1. u \in DOMAIN h0 /\ u \in DOMAIN h
    BY <1>9, <1>12
  <2>2. heap2[u].kind = h[u].kind /\ heap2[u].refs = h[u].refs
    BY ONLY <1>18, <2>1
  <2>3. h[u].kind = heap[u].kind
    BY ONLY <1>12, u \in DOMAIN heap
  <2>4. h[u].refs = h0[u].refs + OneIf(w = u)
    BY ONLY <1>11, <2>1
  <2>5. h0[u].refs = heap[u].refs + OneIf(k = u)
    BY ONLY <1>8, u \in DOMAIN heap
  <2>6. heap[u].refs \in Nat
    BY ONLY <1>1, u \in DOMAIN heap, CellsAre
  <2>7. QED
    BY ONLY <2>2, <2>3, <2>4, <2>5, <2>6
<1>21. Filled(heap, fs, w, heap2, gs, <<k, w>>)
  <2>1. HeapOK(heap2) /\ DOMAIN heap2 = DOMAIN heap
    BY <1>12, <1>18
  <2>2. \A u \in DOMAIN heap : u # w /\ u # Last(fs).key => heap2[u].refs = heap[u].refs
    BY <1>4, <1>20 DEF OneIf
  <2>3. <<k, w>> \in Seq(DOMAIN heap)
    BY <1>1, <1>6
  <2>4. ASSUME NEW u \in DOMAIN heap
        PROVE  heap2[u].refs + PlaceCount(ItemsOf(heap), u) + OneIf(Last(fs).key = u) + OneIf(w = u)
                   = heap[u].refs + PlaceCount(ItemsOf(heap2), u) + Count(<<k, w>>, u)
    <3>1. Count(<<k, w>>, u) = OneIf(k = u) + OneIf(w = u)
      BY CountShort
    <3>2. OneIf(k = u) \in Nat /\ OneIf(w = u) \in Nat /\ OneIf(Last(fs).key = u) = OneIf(k = u)
      BY <1>4 DEF OneIf
    <3>3. PlaceCount(ItemsOf(heap), u) \in Nat
      BY <1>1, CellsAre, PlaceCountIn
    <3>4. /\ heap2[u].refs = heap[u].refs + OneIf(k = u) + OneIf(w = u) /\ heap[u].refs \in Nat
          /\ PlaceCount(ItemsOf(heap2), u)
                 = PlaceCount(ItemsOf(heap), u) + OneIf(k = u) + OneIf(w = u)
      BY <1>19, <1>20
    <3>5. QED
      BY ONLY <3>1, <3>2, <3>3, <3>4
  <2>5. TopMoved(fs, gs) /\ gs[Len(fs)].key = None
    OBVIOUS
  <2>6. QED
    BY ONLY <1>1, <1>20, <2>1, <2>2, <2>3, <2>4, <2>5 DEF Filled
<1>22. WellCounted(heap2, gs, <<k, w>>, None)
  BY ONLY <1>21, WellCounted(heap, fs, <<>>, w), SoundFilled
<1>23. QED
  BY <1>4, <1>22

(* A member of a struct gets another value.                                *)
LEMMA SoundReplaced ==
    ASSUME NEW heap, NEW fs, NEW w, WellCounted(heap, fs, <<>>, w), w # None,
           NEW gs, TopMoved(fs, gs), gs[Len(fs)].key = None, Last(fs).fn = "struct",
           NEW i \in DOMAIN heap[Last(fs).made].items,
           NEW heap2, heap2 = [IncRef(heap, w) EXCEPT ![Last(fs).made].items[i] = w]
    PROVE  WellCounted(heap2, gs, <<heap[Last(fs).made].items[i]>> \o <<Last(fs).key, w>>, None)
<1>1. HeapOK(heap) /\ w \in DOMAIN heap
  BY SoundHas
<1>2. PICK m : m = Last(fs).made
  OBVIOUS
<1>3. fs # <<>>
  BY DEF TopMoved
<1>4. PICK k : k = Last(fs).key
  OBVIOUS
<1>5. /\ m \in DOMAIN heap /\ PlaceCount(ItemsOf(heap), m) = 0
      /\ m # w /\ m # k /\ m \notin ToSet(heap[m].items)
      /\ FrameOK(heap, Last(fs), w # None)
  BY <1>2, <1>3, <1>4, TopFills
<1>6. k \in DOMAIN heap /\ heap[m].kind = "struct"
  BY <1>2, <1>4, <1>5 DEF FrameOK
<1>7. PICK h : h = IncRef(heap, w)
  OBVIOUS
<1>8. /\ HeapOK(h) /\ Alike(heap, h) /\ ItemsOf(h) = ItemsOf(heap)
      /\ \A u \in DOMAIN heap : h[u].refs = heap[u].refs + OneIf(w = u)
  BY <1>1, <1>7, IncRefIs
<1>9. /\ DOMAIN h = DOMAIN heap /\ h[m].items = heap[m].items
      /\ \A u \in DOMAIN heap : h[u].kind = heap[u].kind
  BY <1>5, <1>8 DEF Alike
<1>10. PICK s : s = heap[m].items
  OBVIOUS
<1>11. s \in Seq(DOMAIN heap) /\ m \notin ToSet(s) /\ i \in DOMAIN s
  BY <1>1, <1>2, <1>5, <1>10, CellsAre
<1>12. PICK items : items = [s EXCEPT ![i] = w]
  OBVIOUS
<1>13. PICK old : old = s[i]
  OBVIOUS
<1>14. old \in DOMAIN heap
  BY <1>11, <1>13
<1>15. /\ items \in Seq(DOMAIN h) /\ m \notin ToSet(items)
       /\ \E n \in Nat : Len(items) = 2 * n
  <2>1. DOMAIN items = DOMAIN s /\ \A j \in DOMAIN s : items[j] = IF j = i THEN w ELSE s[j]
    BY <1>12
  <2>2. \A j \in DOMAIN s : s[j] # m
    BY <1>11 DEF ToSet
  <2>3. m \notin ToSet(items)
    BY <1>5, <2>1, <2>2 DEF ToSet
  <2>4. items \in Seq(DOMAIN heap) /\ Len(items) = Len(s)
    <3>1. i \in 1..Len(s)
      BY <1>11
    <3>2. QED
      BY ONLY <1>1, <1>11, <1>12, <3>1, ExceptSeq
  <2>5. \E n \in Nat : Len(items) = 2 * n
    <3>1. PICK n \in Nat : Len(heap[m].items) = 2 * n
      BY <1>1, <1>5, <1>6 DEF HeapOK
    <3>2. Len(items) = 2 * n
      BY <1>10, <2>4, <3>1
    <3>3. QED
      BY <3>2
  <2>6. QED
    BY <1>9, <2>3, <2>4, <2>5
<1>16. heap2 = [h EXCEPT ![m].items = items]
  <2>1. items = [h[m].items EXCEPT ![i] = w]
    BY <1>9, <1>10, <1>12
  <2>2. heap2 = [h EXCEPT ![m].items[i] = w]
    BY <1>2, <1>7
  <2>3. QED
    BY ONLY <2>1, <2>2
<1>17. Refilled(h, m, items, heap2)
  BY <1>5, <1>8, <1>9, <1>15, <1>16 DEF Refilled
<1>18. /\ HeapOK(heap2) /\ DOMAIN heap2 = DOMAIN h
       /\ \A u \in DOMAIN h : heap2[u].kind = h[u].kind /\ heap2[u].refs = h[u].refs
  BY ONLY <1>8, <1>17, HeapRefilled
<1>19. ASSUME NEW u
       PROVE  PlaceCount(ItemsOf(heap2), u) + OneIf(old = u)
                  = PlaceCount(ItemsOf(heap), u) + OneIf(w = u)
  <2>1. w \in DOMAIN h /\ i \in DOMAIN h[m].items /\ h[m].items[i] = old /\ HeapOK(h)
    BY <1>1, <1>8, <1>9, <1>10, <1>11, <1>13
  <2>2. Changed(h, m, i, w, items, heap2)
    BY <1>9, <1>10, <1>12, <1>17, <2>1 DEF Changed
  <2>3. PlaceCount(ItemsOf(heap2), u) + OneIf(h[m].items[i] = u)
            = PlaceCount(ItemsOf(h), u) + OneIf(w = u)
    BY ONLY <2>2, RefilledOther
  <2>4. QED
    BY <1>8, <2>1, <2>3
<1>20. \A u \in DOMAIN heap : /\ heap2[u].kind = heap[u].kind
                              /\ heap2[u].refs = heap[u].refs + OneIf(w = u)
                              /\ heap[u].refs \in Nat
  BY <1>1, <1>8, <1>9, <1>18, CellsAre
<1>21. PICK rel : rel = <<old>> \o <<k, w>>
  OBVIOUS
<1>22. /\ <<old>> \in Seq(DOMAIN heap) /\ <<k, w>> \in Seq(DOMAIN heap)
       /\ rel \in Seq(DOMAIN heap)
  BY <1>1, <1>6, <1>14, <1>21
<1>23. Filled(heap, fs, w, heap2, gs, rel)
  <2>1. HeapOK(heap2) /\ DOMAIN heap2 = DOMAIN heap
    BY <1>9, <1>18
  <2>2. \A u \in DOMAIN heap : u # w /\ u # Last(fs).key => heap2[u].refs = heap[u].refs
    BY <1>20 DEF OneIf
  <2>3. ASSUME NEW u \in DOMAIN heap
        PROVE  heap2[u].refs + PlaceCount(ItemsOf(heap), u) + OneIf(Last(fs).key = u) + OneIf(w = u)
                   = heap[u].refs + PlaceCount(ItemsOf(heap2), u) + Count(rel, u)
    <3>1. Count(rel, u) = OneIf(old = u) + (OneIf(k = u) + OneIf(w = u))
      <4>1. Count(<<old>> \o <<k, w>>, u) = Count(<<old>>, u) + Count(<<k, w>>, u)
        BY ONLY <1>22, CountConcat
      <4>2. QED
        BY ONLY <1>21, <4>1, CountShort
    <3>2. /\ OneIf(k = u) \in Nat /\ OneIf(w = u) \in Nat /\ OneIf(Last(fs).key = u) = OneIf(k = u)
          /\ OneIf(old = u) \in Nat
      BY <1>4 DEF OneIf
    <3>3. PlaceCount(ItemsOf(heap), u) \in Nat /\ PlaceCount(ItemsOf(heap2), u) \in Nat
      BY <1>1, <1>18, CellsAre, PlaceCountIn
    <3>4. /\ heap2[u].refs = heap[u].refs + OneIf(w = u) /\ heap[u].refs \in Nat
          /\ PlaceCount(ItemsOf(heap2), u) + OneIf(old = u)
                 = PlaceCount(ItemsOf(heap), u) + OneIf(w = u)
      BY <1>19, <1>20
    <3>5. QED
      BY ONLY <3>1, <3>2, <3>3, <3>4
  <2>4. TopMoved(fs, gs) /\ gs[Len(fs)].key = None
    OBVIOUS
  <2>5. QED
    BY ONLY <1>1, <1>20, <1>22, <2>1, <2>2, <2>3, <2>4 DEF Filled
<1>24. WellCounted(heap2, gs, rel, None)
  BY ONLY <1>23, WellCounted(heap, fs, <<>>, w), SoundFilled
<1>25. QED
  BY <1>2, <1>4, <1>10, <1>13, <1>21, <1>24

(* Other references take over from those that are dropped.                 *)
Relet(heap, rel, out, rel2, out2) ==
    /\ rel2 \in Seq(DOMAIN heap) /\ out2 \in DOMAIN heap \union {None}
    /\ out = None => out2 = None
    /\ \A v \in DOMAIN heap :
           Count(rel2, v) + OneIf(out2 = v) = Count(rel, v) + OneIf(out = v)

LEMMA SoundRelet ==
    ASSUME NEW heap, NEW fs, NEW rel, NEW out, WellCounted(heap, fs, rel, out),
           NEW rel2, NEW out2, Relet(heap, rel, out, rel2, out2)
    PROVE  WellCounted(heap, fs, rel2, out2)
<1>1. /\ HeapOK(heap) /\ fs \in Seq(AnyFrame) /\ rel \in Seq(DOMAIN heap)
      /\ \A i \in DOMAIN fs : FrameOK(heap, fs[i], i < Len(fs) \/ out # None)
      /\ \A v \in DOMAIN heap :
             heap[v].refs = PlaceCount(ItemsOf(heap), v) + Count(Mades(fs), v)
                            + Count(Keys(fs), v) + Count(rel, v) + OneIf(out = v)
  BY SoundHas
<1>2. /\ rel2 \in Seq(DOMAIN heap) /\ out2 \in DOMAIN heap \union {None}
      /\ out = None => out2 = None
  BY DEF Relet
<1>3. \A i \in DOMAIN fs : FrameOK(heap, fs[i], i < Len(fs) \/ out2 # None)
  BY <1>1, <1>2 DEF FrameOK
<1>4. ASSUME NEW v \in DOMAIN heap
      PROVE  heap[v].refs = PlaceCount(ItemsOf(heap), v) + Count(Mades(fs), v)
                            + Count(Keys(fs), v) + Count(rel2, v) + OneIf(out2 = v)
  <2>1. /\ PlaceCount(ItemsOf(heap), v) \in Nat
        /\ Count(Mades(fs), v) \in Nat /\ Count(Keys(fs), v) \in Nat
        /\ Count(rel, v) \in Nat /\ OneIf(out = v) \in Nat
    BY ONLY <1>1, ReferParts
  <2>2. Count(rel2, v) \in Nat /\ OneIf(out2 = v) \in Nat
    BY <1>2, CountIn DEF OneIf
  <2>3. Count(rel2, v) + OneIf(out2 = v) = Count(rel, v) + OneIf(out = v)
    BY DEF Relet
  <2>4. heap[v].refs = PlaceCount(ItemsOf(heap), v) + Count(Mades(fs), v)
                       + Count(Keys(fs), v) + Count(rel, v) + OneIf(out = v)
    BY <1>1
  <2>5. QED
    BY ONLY <2>1, <2>2, <2>3, <2>4
<1>5. QED
  BY ONLY <1>1, <1>2, <1>3, <1>4, SoundIs

(* The last frame goes, and others have its references.                    *)
Passed(heap, f, out, rel2, out2) ==
    /\ rel2 \in Seq(DOMAIN heap) /\ out2 \in DOMAIN heap \union {None}
    /\ \A v \in DOMAIN heap :
           Count(rel2, v) + OneIf(out2 = v)
               = OneIf(f.made = v) + OneIf(f.key = v) + OneIf(out = v)

LEMMA SoundPopped ==
    ASSUME NEW heap, NEW fs, NEW out, WellCounted(heap, fs, <<>>, out), fs # <<>>,
           NEW rel2, NEW out2, Passed(heap, Last(fs), out, rel2, out2)
    PROVE  WellCounted(heap, Front(fs), rel2, out2)
<1>1. /\ HeapOK(heap) /\ fs \in Seq(AnyFrame) /\ Len(fs) \in Nat /\ DOMAIN fs = 1..Len(fs)
      /\ \A i \in DOMAIN fs : FrameOK(heap, fs[i], i < Len(fs) \/ out # None)
      /\ \A v \in DOMAIN heap :
             heap[v].refs = PlaceCount(ItemsOf(heap), v) + Count(Mades(fs), v)
                            + Count(Keys(fs), v) + Count(<<>>, v) + OneIf(out = v)
  BY SoundHas
<1>2. rel2 \in Seq(DOMAIN heap) /\ out2 \in DOMAIN heap \union {None}
  BY DEF Passed
<1>3. PICK gs : gs = Front(fs)
  OBVIOUS
<1>4. /\ gs \in Seq(AnyFrame) /\ Len(gs) = Len(fs) - 1 /\ DOMAIN gs = 1..(Len(fs) - 1)
      /\ \A i \in 1..(Len(fs) - 1) : gs[i] = fs[i]
  BY <1>1, <1>3 DEF Front
<1>5. ASSUME NEW i \in DOMAIN gs
      PROVE  FrameOK(heap, gs[i], i < Len(gs) \/ out2 # None)
  <2>1. i \in DOMAIN fs /\ i < Len(fs) /\ gs[i] = fs[i]
    BY <1>1, <1>4
  <2>2. FrameOK(heap, fs[i], i < Len(fs) \/ out # None)
    BY <1>1, <2>1
  <2>3. QED
    BY <2>1, <2>2 DEF FrameOK
<1>6. ASSUME NEW v \in DOMAIN heap
      PROVE  heap[v].refs = PlaceCount(ItemsOf(heap), v) + Count(Mades(gs), v)
                            + Count(Keys(gs), v) + Count(rel2, v) + OneIf(out2 = v)
  <2>1. /\ PlaceCount(ItemsOf(heap), v) \in Nat
        /\ Count(Mades(gs), v) \in Nat /\ Count(Keys(gs), v) \in Nat
        /\ Count(rel2, v) \in Nat /\ OneIf(out2 = v) \in Nat
    BY ONLY <1>1, <1>2, <1>4, ReferParts
  <2>2. /\ Count(Mades(fs), v) = Count(Mades(gs), v) + OneIf(Last(fs).made = v)
        /\ Count(Keys(fs), v) = Count(Keys(gs), v) + OneIf(Last(fs).key = v)
    BY <1>1, <1>3, MadesFront
  <2>3. Count(rel2, v) + OneIf(out2 = v)
            = OneIf(Last(fs).made = v) + OneIf(Last(fs).key = v) + OneIf(out = v)
    BY DEF Passed
  <2>4. /\ Count(<<>>, v) = 0 /\ OneIf(Last(fs).made = v) \in Nat
        /\ OneIf(Last(fs).key = v) \in Nat /\ OneIf(out = v) \in Nat
    BY CountShort DEF OneIf
  <2>5. heap[v].refs = PlaceCount(ItemsOf(heap), v) + Count(Mades(fs), v)
                       + Count(Keys(fs), v) + Count(<<>>, v) + OneIf(out = v)
    BY <1>1
  <2>6. PICK a, b, c : a = OneIf(Last(fs).made = v) /\ b = OneIf(Last(fs).key = v)
                       /\ c = OneIf(out = v)
    OBVIOUS
  <2>7. a \in Nat /\ b \in Nat /\ c \in Nat
    BY ONLY <2>4, <2>6
  <2>8. heap[v].refs = PlaceCount(ItemsOf(heap), v) + (Count(Mades(gs), v) + a)
                       + (Count(Keys(gs), v) + b) + c
    BY ONLY <2>1, <2>2, <2>4, <2>5, <2>6, <2>7
  <2>9. Count(rel2, v) + OneIf(out2 = v) = a + b + c
    BY ONLY <2>3, <2>6
  <2>10. QED
    BY ONLY <2>1, <2>7, <2>8, <2>9
<1>7. WellCounted(heap, gs, rel2, out2)
  BY ONLY <1>1, <1>2, <1>4, <1>5, <1>6, SoundIs
<1>8. QED
  BY <1>3, <1>7

(* An array or a struct is returned.                                       *)
LEMMA SoundMade ==
    ASSUME NEW heap, NEW fs, WellCounted(heap, fs, <<>>, None), fs # <<>>, Last(fs).key = None
    PROVE  WellCounted(heap, Front(fs), <<>>, Last(fs).made)
<1>1. Last(fs).made \in DOMAIN heap /\ HeapOK(heap)
  BY TopFills, SoundHas
<1>2. Passed(heap, Last(fs), None, <<>>, Last(fs).made)
  BY <1>1, CountShort, CellsAre DEF Passed, OneIf
<1>3. QED
  BY ONLY <1>2, WellCounted(heap, fs, <<>>, None), fs # <<>>, SoundPopped

(* A frame is cleaned up after.                                            *)
LEMMA SoundUnwound ==
    ASSUME NEW heap, NEW fs, WellCounted(heap, fs, <<>>, None), fs # <<>>,
           NEW rel2, rel2 = IF Last(fs).key = None THEN <<Last(fs).made>>
                            ELSE <<Last(fs).key, Last(fs).made>>
    PROVE  WellCounted(heap, Front(fs), rel2, None)
<1>1. /\ Last(fs).made \in DOMAIN heap /\ Last(fs).key \in DOMAIN heap \union {None}
      /\ HeapOK(heap)
  BY TopFills, SoundHas
<1>2. ASSUME NEW v \in DOMAIN heap
      PROVE  Count(rel2, v) = OneIf(Last(fs).made = v) + OneIf(Last(fs).key = v)
  <2>1. None \notin DOMAIN heap
    BY <1>1, CellsAre
  <2>2. CASE Last(fs).key = None
    <3>1. Count(rel2, v) = OneIf(Last(fs).made = v)
      BY <2>2, CountShort
    <3>2. OneIf(Last(fs).key = v) = 0 /\ OneIf(Last(fs).made = v) \in Nat
      BY <2>1, <2>2 DEF OneIf
    <3>3. QED
      BY <3>1, <3>2
  <2>3. CASE Last(fs).key # None
    <3>1. Count(rel2, v) = OneIf(Last(fs).key = v) + OneIf(Last(fs).made = v)
      BY <2>3, CountShort
    <3>2. OneIf(Last(fs).key = v) \in Nat /\ OneIf(Last(fs).made = v) \in Nat
      BY DEF OneIf
    <3>3. QED
      BY <3>1, <3>2
  <2>4. QED
    BY <2>2, <2>3
<1>3. rel2 \in Seq(DOMAIN heap)
  <2>1. PICK a, b : a = Last(fs).made /\ b = Last(fs).key
    OBVIOUS
  <2>2. a \in DOMAIN heap /\ (b # None => b \in DOMAIN heap)
    BY <1>1, <2>1
  <2>3. b = None => rel2 = <<a>>
    BY <2>1
  <2>4. b # None => rel2 = <<b, a>>
    BY <2>1
  <2>5. CASE b = None
    <3>1. <<a>> \in Seq(DOMAIN heap)
      BY <2>2
    <3>2. QED
      BY ONLY <2>3, <2>5, <3>1
  <2>6. CASE b # None
    <3>1. <<b, a>> \in Seq(DOMAIN heap)
      BY <2>2, <2>6
    <3>2. QED
      BY ONLY <2>4, <2>6, <3>1
  <2>7. QED
    BY <2>5, <2>6
<1>4. ASSUME NEW v \in DOMAIN heap PROVE OneIf(None = v) = 0
  BY <1>1, CellsAre DEF OneIf
<1>5. ASSUME NEW v \in DOMAIN heap
      PROVE  OneIf(Last(fs).made = v) \in Nat /\ OneIf(Last(fs).key = v) \in Nat
  BY DEF OneIf
<1>6. Passed(heap, Last(fs), None, rel2, None)
  BY <1>2, <1>3, <1>4, <1>5 DEF Passed
<1>7. QED
  BY ONLY <1>6, WellCounted(heap, fs, <<>>, None), fs # <<>>, SoundPopped

(* What was returned is released.                                          *)
LEMMA SoundDropped ==
    ASSUME NEW heap, NEW fs, NEW w, WellCounted(heap, fs, <<>>, w), w # None
    PROVE  WellCounted(heap, fs, <<w>>, None)
<1>1. w \in DOMAIN heap /\ HeapOK(heap)
  BY SoundHas
<1>2. Relet(heap, <<>>, w, <<w>>, None)
  <2>1. ASSUME NEW v \in DOMAIN heap
        PROVE  Count(<<w>>, v) + OneIf(None = v) = Count(<<>>, v) + OneIf(w = v)
    <3>1. OneIf(None = v) = 0 /\ OneIf(w = v) \in Nat
      BY <1>1, CellsAre DEF OneIf
    <3>2. Count(<<w>>, v) = OneIf(w = v) /\ Count(<<>>, v) = 0
      BY CountShort
    <3>3. QED
      BY ONLY <3>1, <3>2
  <2>2. <<w>> \in Seq(DOMAIN heap)
    BY <1>1
  <2>3. QED
    BY ONLY <2>1, <2>2, w # None DEF Relet
<1>3. QED
  BY ONLY <1>2, WellCounted(heap, fs, <<>>, w), SoundRelet

(* What was returned is released, one that it holds is the result.         *)
LEMMA SoundTaken ==
    ASSUME NEW heap, NEW w, WellCounted(heap, <<>>, <<>>, w), w # None, NEW x \in DOMAIN heap
    PROVE  WellCounted(IncRef(heap, x), <<>>, <<w>>, x)
<1>1. WellCounted(heap, <<>>, <<w>>, None)
  BY SoundDropped
<1>2. /\ HeapOK(heap) /\ <<>> \in Seq(AnyFrame) /\ <<w>> \in Seq(DOMAIN heap)
      /\ \A u \in DOMAIN heap :
             heap[u].refs = PlaceCount(ItemsOf(heap), u) + Count(Mades(<<>>), u)
                            + Count(Keys(<<>>), u) + Count(<<w>>, u) + OneIf(None = u)
  BY <1>1, SoundHas
<1>3. PICK h : h = IncRef(heap, x)
  OBVIOUS
<1>4. /\ HeapOK(h) /\ Alike(heap, h) /\ ItemsOf(h) = ItemsOf(heap)
      /\ \A u \in DOMAIN heap : h[u].refs = heap[u].refs + OneIf(x = u)
  BY <1>2, <1>3, IncRefIs
<1>5. DOMAIN h = DOMAIN heap
  BY <1>4 DEF Alike
<1>6. ASSUME NEW u \in DOMAIN h
      PROVE  h[u].refs = PlaceCount(ItemsOf(h), u) + Count(Mades(<<>>), u)
                         + Count(Keys(<<>>), u) + Count(<<w>>, u) + OneIf(x = u)
  <2>1. /\ PlaceCount(ItemsOf(heap), u) \in Nat
        /\ Count(Mades(<<>>), u) \in Nat /\ Count(Keys(<<>>), u) \in Nat
        /\ Count(<<w>>, u) \in Nat
    BY ONLY <1>2, ReferParts
  <2>2. OneIf(None = u) = 0 /\ OneIf(x = u) \in Nat
    BY <1>2, <1>5, CellsAre DEF OneIf
  <2>3. QED
    BY <1>2, <1>4, <1>5, <2>1, <2>2
<1>7. WellCounted(h, <<>>, <<w>>, x)
  <2>1. <<w>> \in Seq(DOMAIN h) /\ x \in DOMAIN h \union {None}
    BY <1>2, <1>5
  <2>2. PICK fs : fs = <<>>
    OBVIOUS
  <2>3. \A i \in DOMAIN fs : FrameOK(h, fs[i], i < Len(fs) \/ x # None)
    BY <2>2
  <2>4. fs \in Seq(AnyFrame)
    BY <1>2, <2>2
  <2>5. \A u \in DOMAIN h : h[u].refs = PlaceCount(ItemsOf(h), u) + Count(Mades(fs), u)
                         + Count(Keys(fs), u) + Count(<<w>>, u) + OneIf(x = u)
    BY <1>6, <2>2
  <2>6. WellCounted(h, fs, <<w>>, x)
    BY ONLY <1>4, <2>1, <2>3, <2>4, <2>5, SoundIs
  <2>7. QED
    BY <2>2, <2>6
<1>8. QED
  BY <1>3, <1>7

(* One of several references to a value goes.                                *)
LEMMA SoundCounted ==
    ASSUME NEW heap, NEW fs, NEW rel, NEW out, WellCounted(heap, fs, rel, out), rel # <<>>,
           heap[Head(rel)].refs > 1,
           NEW heap2, heap2 = [heap EXCEPT ![Head(rel)].refs = @ - 1]
    PROVE  WellCounted(heap2, fs, Tail(rel), out)
<1>1. /\ HeapOK(heap) /\ fs \in Seq(AnyFrame) /\ rel \in Seq(DOMAIN heap)
      /\ out \in DOMAIN heap \union {None}
      /\ \A i \in DOMAIN fs : FrameOK(heap, fs[i], i < Len(fs) \/ out # None)
      /\ \A v \in DOMAIN heap :
             heap[v].refs = PlaceCount(ItemsOf(heap), v) + Count(Mades(fs), v)
                            + Count(Keys(fs), v) + Count(rel, v) + OneIf(out = v)
  BY SoundHas
<1>2. PICK h : h = Head(rel)
  OBVIOUS
<1>3. h \in DOMAIN heap /\ Tail(rel) \in Seq(DOMAIN heap) /\ heap[h].refs \in Nat
      /\ heap[h].refs > 1
  <2>1. h \in DOMAIN heap /\ Tail(rel) \in Seq(DOMAIN heap)
    BY <1>1, <1>2
  <2>2. heap[h].refs \in Nat
    BY <1>1, <2>1, CellsAre
  <2>3. QED
    BY <1>2, <2>1, <2>2
<1>4. PICK n : n = heap[h].refs - 1
  OBVIOUS
<1>5. Recounted(heap, h, n, heap2)
  <2>1. n \in Nat \ {0}
    BY ONLY <1>3, <1>4
  <2>2. QED
    BY <1>2, <1>3, <1>4, <2>1 DEF Recounted
<1>6. /\ HeapOK(heap2) /\ Alike(heap, heap2)
      /\ heap2[h].refs = n
      /\ \A u \in DOMAIN heap : u # h => heap2[u] = heap[u]
      /\ ItemsOf(heap2) = ItemsOf(heap)
  BY ONLY <1>1, <1>5, HeapRecounted
<1>7. DOMAIN heap2 = DOMAIN heap /\ \A u \in DOMAIN heap : heap2[u].kind = heap[u].kind
  BY <1>6 DEF Alike
<1>8. ASSUME NEW i \in DOMAIN fs
      PROVE  FrameOK(heap2, fs[i], i < Len(fs) \/ out # None)
  <2>1. FrameOK(heap, fs[i], i < Len(fs) \/ out # None)
    BY <1>1
  <2>2. fs[i].made \in DOMAIN heap /\ heap[fs[i].made].refs = 1
    BY <2>1 DEF FrameOK
  <2>3. fs[i].made # h
    BY ONLY <1>3, <2>2
  <2>4. heap2[fs[i].made] = heap[fs[i].made]
    BY ONLY <1>6, <2>2, <2>3
  <2>5. QED
    BY ONLY <1>7, <2>1, <2>4 DEF FrameOK
<1>9. ASSUME NEW v \in DOMAIN heap2
      PROVE  heap2[v].refs = PlaceCount(ItemsOf(heap2), v) + Count(Mades(fs), v)
                             + Count(Keys(fs), v) + Count(Tail(rel), v) + OneIf(out = v)
  <2>1. v \in DOMAIN heap
    BY <1>7
  <2>2. /\ PlaceCount(ItemsOf(heap), v) \in Nat
        /\ Count(Mades(fs), v) \in Nat /\ Count(Keys(fs), v) \in Nat
        /\ OneIf(out = v) \in Nat
    BY ONLY <1>1, ReferParts
  <2>3. Count(Tail(rel), v) \in Nat
    BY <1>3, CountIn
  <2>4. Count(rel, v) = OneIf(h = v) + Count(Tail(rel), v)
    BY <1>1, <1>2, CountHead
  <2>5. heap[v].refs = PlaceCount(ItemsOf(heap), v) + Count(Mades(fs), v)
                       + Count(Keys(fs), v) + Count(rel, v) + OneIf(out = v)
    BY <1>1, <2>1
  <2>6. CASE v = h
    <3>1. OneIf(h = v) = 1
      BY <2>6 DEF OneIf
    <3>2. heap2[v].refs = heap[v].refs - 1
      BY <1>4, <1>6, <2>6
    <3>3. QED
      BY ONLY <1>6, <2>2, <2>3, <2>4, <2>5, <3>1, <3>2
  <2>7. CASE v # h
    <3>1. OneIf(h = v) = 0
      BY <2>7 DEF OneIf
    <3>2. heap2[v].refs = heap[v].refs
      BY <1>6, <2>1, <2>7
    <3>3. QED
      BY ONLY <1>6, <2>2, <2>3, <2>4, <2>5, <3>1, <3>2
  <2>8. QED
    BY <2>6, <2>7
<1>10. Tail(rel) \in Seq(DOMAIN heap2) /\ out \in DOMAIN heap2 \union {None}
  BY <1>1, <1>3, <1>7
<1>11. QED
  BY ONLY <1>1, <1>6, <1>8, <1>9, <1>10, SoundIs

(* The last reference to a value goes, and the value with it.              *)
LEMMA SoundFreed ==
    ASSUME NEW heap, NEW fs, NEW rel, NEW out, WellCounted(heap, fs, rel, out), rel # <<>>,
           heap[Head(rel)].refs = 1,
           NEW heap2, heap2 = Without(heap, {Head(rel)})
    PROVE  WellCounted(heap2, fs, heap[Head(rel)].items \o Tail(rel), out)
<1>1. /\ HeapOK(heap) /\ fs \in Seq(AnyFrame) /\ rel \in Seq(DOMAIN heap)
      /\ out \in DOMAIN heap \union {None}
      /\ \A i \in DOMAIN fs : FrameOK(heap, fs[i], i < Len(fs) \/ out # None)
      /\ \A v \in DOMAIN heap :
             heap[v].refs = PlaceCount(ItemsOf(heap), v) + Count(Mades(fs), v)
                            + Count(Keys(fs), v) + Count(rel, v) + OneIf(out = v)
  BY SoundHas
<1>2. PICK h : h = Head(rel)
  OBVIOUS
<1>3. PICK tail : tail = Tail(rel)
  OBVIOUS
<1>4. h \in DOMAIN heap /\ tail \in Seq(DOMAIN heap)
  BY <1>1, <1>2, <1>3
<1>5. \A v : Count(rel, v) = OneIf(h = v) + Count(tail, v)
  BY <1>1, <1>2, <1>3, CountHead
<1>6. /\ PlaceCount(ItemsOf(heap), h) = 0 /\ Count(Mades(fs), h) = 0
      /\ Count(Keys(fs), h) = 0 /\ Count(tail, h) = 0 /\ out # h
  <2>1. /\ PlaceCount(ItemsOf(heap), h) \in Nat
        /\ Count(Mades(fs), h) \in Nat /\ Count(Keys(fs), h) \in Nat
        /\ OneIf(out = h) \in Nat
    BY ONLY <1>1, ReferParts
  <2>2. Count(tail, h) \in Nat
    BY <1>4, CountIn
  <2>3. Count(rel, h) = 1 + Count(tail, h)
    <3>1. OneIf(h = h) = 1
      BY DEF OneIf
    <3>2. QED
      BY ONLY <1>5, <3>1
  <2>4. 1 = PlaceCount(ItemsOf(heap), h) + Count(Mades(fs), h)
            + Count(Keys(fs), h) + Count(rel, h) + OneIf(out = h)
    BY <1>1, <1>2, <1>4
  <2>5. OneIf(out = h) = 0 /\ PlaceCount(ItemsOf(heap), h) = 0 /\ Count(Mades(fs), h) = 0
        /\ Count(Keys(fs), h) = 0 /\ Count(tail, h) = 0
    BY ONLY <2>1, <2>2, <2>3, <2>4
  <2>6. out # h
    BY <2>5 DEF OneIf
  <2>7. QED
    BY <2>5, <2>6
<1>7. /\ HeapOK(heap2) /\ DOMAIN heap2 = DOMAIN heap \ {h}
      /\ \A u \in DOMAIN heap2 : heap2[u] = heap[u] /\ u \in DOMAIN heap /\ u # h
      /\ heap[h].items \in Seq(DOMAIN heap2)
      /\ \A x : PlaceCount(ItemsOf(heap), x)
                    = PlaceCount(ItemsOf(heap2), x) + Count(heap[h].items, x)
  <2>1. heap2 = Without(heap, {h})
    BY <1>2
  <2>2. HeapOK(heap) /\ PlaceCount(ItemsOf(heap), h) = 0
    BY <1>1, <1>6
  <2>3. h \in DOMAIN heap
    BY <1>4
  <2>4. CellDropped(heap, h, heap2)
    BY ONLY <2>1, <2>2, <2>3, HeapDropped
  <2>5. QED
    BY ONLY <2>4 DEF CellDropped
<1>8. PICK items : items = heap[h].items
  OBVIOUS
<1>9. \A i \in DOMAIN fs : fs[i].made # h /\ fs[i].key # h
  BY ONLY <1>1, <1>6, MadesIn
<1>10. ASSUME NEW i \in DOMAIN fs
       PROVE  FrameOK(heap2, fs[i], i < Len(fs) \/ out # None)
  <2>1. FrameOK(heap, fs[i], i < Len(fs) \/ out # None)
    BY <1>1
  <2>2. /\ fs[i].made \in DOMAIN heap2 /\ fs[i].key \in DOMAIN heap2 \union {None}
        /\ heap2[fs[i].made] = heap[fs[i].made]
    <3>1. fs[i].made \in DOMAIN heap /\ fs[i].key \in DOMAIN heap \union {None}
      BY <2>1 DEF FrameOK
    <3>2. fs[i].made # h /\ fs[i].key # h
      BY <1>9
    <3>3. fs[i].made \in DOMAIN heap2 /\ fs[i].key \in DOMAIN heap2 \union {None}
      BY ONLY <1>7, <3>1, <3>2
    <3>4. QED
      BY ONLY <1>7, <3>3
  <2>3. QED
    BY ONLY <2>1, <2>2 DEF FrameOK
<1>11. tail \in Seq(DOMAIN heap2)
  <2>1. \A i \in DOMAIN tail : tail[i] # h
    BY ONLY <1>4, <1>6, CountIn
  <2>2. Len(tail) \in Nat /\ DOMAIN tail = 1..Len(tail) /\ \A i \in 1..Len(tail) : tail[i] \in DOMAIN heap2
    BY <1>4, <1>7, <2>1
  <2>3. tail = [i \in 1..Len(tail) |-> tail[i]]
    BY <1>4
  <2>4. QED
    BY ONLY <2>2, <2>3
<1>12. items \in Seq(DOMAIN heap2)
  BY <1>7, <1>8
<1>13. PICK rel2 : rel2 = items \o tail
  OBVIOUS
<1>14. rel2 \in Seq(DOMAIN heap2) /\ \A v : Count(rel2, v) = Count(items, v) + Count(tail, v)
  <2>1. rel2 \in Seq(DOMAIN heap2)
    BY ONLY <1>11, <1>12, <1>13
  <2>2. ASSUME NEW v PROVE Count(rel2, v) = Count(items, v) + Count(tail, v)
    <3>1. Count(items \o tail, v) = Count(items, v) + Count(tail, v)
      BY ONLY <1>11, <1>12, CountConcat
    <3>2. QED
      BY ONLY <1>13, <3>1
  <2>3. QED
    BY ONLY <2>1, <2>2
<1>15. ASSUME NEW v \in DOMAIN heap2
       PROVE  heap2[v].refs = PlaceCount(ItemsOf(heap2), v) + Count(Mades(fs), v)
                              + Count(Keys(fs), v) + Count(rel2, v) + OneIf(out = v)
  <2>1. v \in DOMAIN heap /\ v # h /\ heap2[v].refs = heap[v].refs
    BY <1>7
  <2>2. PlaceCount(ItemsOf(heap2), v) \in Nat /\ OneIf(out = v) \in Nat
        /\ Count(Mades(fs), v) \in Nat /\ Count(Keys(fs), v) \in Nat
    BY ONLY <1>1, <1>7, <1>11, ReferParts
  <2>3. Count(tail, v) \in Nat /\ Count(items, v) \in Nat
    BY <1>11, <1>12, CountIn
  <2>4. OneIf(h = v) = 0
    BY <2>1 DEF OneIf
  <2>5. Count(rel, v) = OneIf(h = v) + Count(tail, v)
    BY ONLY <1>5
  <2>6. PlaceCount(ItemsOf(heap), v) = PlaceCount(ItemsOf(heap2), v) + Count(items, v)
    BY <1>7, <1>8
  <2>7. heap[v].refs = PlaceCount(ItemsOf(heap), v) + Count(Mades(fs), v)
                       + Count(Keys(fs), v) + Count(rel, v) + OneIf(out = v)
    BY <1>1, <2>1
  <2>8. Count(rel2, v) = Count(items, v) + Count(tail, v)
    BY ONLY <1>14
  <2>9. QED
    BY ONLY <2>1, <2>2, <2>3, <2>4, <2>5, <2>6, <2>7, <2>8
<1>16. out \in DOMAIN heap2 \union {None}
  BY <1>1, <1>6, <1>7
<1>17. WellCounted(heap2, fs, rel2, out)
  BY ONLY <1>1, <1>7, <1>10, <1>14, <1>15, <1>16, SoundIs
<1>18. QED
  BY <1>2, <1>3, <1>8, <1>13, <1>17
=============================================================================
