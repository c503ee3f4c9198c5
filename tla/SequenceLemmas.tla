-------------------------- MODULE SequenceLemmas --------------------------
(***************************************************************************)
(* Lemmas that the proofs about lists and encoded data share: induction    *)
(* over numbers, the traversal of linked elements, and sequences with an   *)
(* element more or less.                                                   *)
(***************************************************************************)
EXTENDS Naturals, Integers, Sequences, FiniteSets, SequenceTheorems,
        FiniteSetTheorems, WellFoundedInduction, TLAPS

(* Induction, as a statement about sets of numbers.                        *)

\* A set of numbers has a least one.
LEMMA LeastOf ==
  ASSUME NEW T \in SUBSET Nat, T # {}
  PROVE  \E x \in T : \A y \in T : x =< y
<1>1. IsWellFoundedOn(OpToRel(<, Nat), Nat)
  BY NatLessThanWellFounded, Zenon
<1>2. \E x \in T : \A y \in T : ~(<<y, x>> \in OpToRel(<, Nat))
  BY <1>1, WFMin, Zenon
<1>3. \A x, y \in T : y < x => <<y, x>> \in OpToRel(<, Nat)
  BY DEF OpToRel
<1>4. PICK x \in T : \A y \in T : ~(<<y, x>> \in OpToRel(<, Nat))
  BY <1>2
<1>5. \A y \in T : ~(y < x)
  BY <1>3, <1>4
<1>6. QED BY <1>5

\* What holds 0 and with every number the next holds all numbers.
LEMMA Induct ==
  ASSUME NEW T, 0 \in T, \A k \in Nat : k \in T => k + 1 \in T
  PROVE  Nat \subseteq T
<1> SUFFICES ASSUME ~(Nat \subseteq T) PROVE FALSE
  OBVIOUS
<1>1. Nat \ T \in SUBSET Nat /\ Nat \ T # {}
  OBVIOUS
<1>2. PICK x \in Nat \ T : \A y \in Nat \ T : x =< y
  BY <1>1, LeastOf
<1>3. x # 0 /\ x - 1 \in Nat
  BY <1>2
<1>4. x - 1 \in T
  BY <1>2, <1>3
<1>5. QED BY <1>2, <1>3, <1>4

-----------------------------------------------------------------------------
(* The traversal.                                                          *)

\* f is the function that a traversal defines recursively: what it meets from
\* a pointer of P on in so many steps, before it meets z, along nx.
Fn(f, nx, c, P, z) ==
  f = [k \in 0 .. c |->
        [n \in P |-> IF n = z \/ k = 0 THEN << >>
                     ELSE <<n>> \o f[k - 1][nx[n]]]]

\* There is such a function, for any number of steps.
LEMMA FromExists ==
  ASSUME NEW P, NEW z, NEW nx, \A n \in P : n # z => nx[n] \in P, NEW c \in Nat
  PROVE  \E f : Fn(f, nx, c, P, z)
<1> DEFINE T == {m \in Nat : \E f : Fn(f, nx, m, P, z)}
<1>1. 0 \in T
  <2> DEFINE f == [k \in 0 .. 0 |-> [n \in P |-> << >>]]
  <2>1. Fn(f, nx, 0, P, z)
    BY DEF Fn
  <2>2. QED BY <2>1
<1>2. ASSUME NEW m \in Nat, m \in T PROVE m + 1 \in T
  <2>1. PICK f : Fn(f, nx, m, P, z)
    BY <1>2
  <2> DEFINE g == [k \in 0 .. m + 1 |-> [n \in P |->
                IF n = z \/ k = 0 THEN << >> ELSE <<n>> \o f[k - 1][nx[n]]]]
  <2>2. \A k \in 0 .. m, n \in P : g[k][n] = f[k][n]
    <3> SUFFICES ASSUME NEW k \in 0 .. m, NEW n \in P
                 PROVE  g[k][n] = f[k][n]
      OBVIOUS
    <3>1. f[k] = [i \in P |->
                   IF i = z \/ k = 0 THEN << >> ELSE <<i>> \o f[k - 1][nx[i]]]
      BY <2>1, Zenon DEF Fn
    <3>2. k \in 0 .. m + 1
      OBVIOUS
    <3>3. g[k] = [i \in P |->
                   IF i = z \/ k = 0 THEN << >> ELSE <<i>> \o f[k - 1][nx[i]]]
      BY <3>2, Zenon
    <3>4. QED BY <3>1, <3>3, Zenon
  <2>3. \A k \in 0 .. m + 1, n \in P :
          n # z /\ k # 0 => f[k - 1][nx[n]] = g[k - 1][nx[n]]
    <3> SUFFICES ASSUME NEW k \in 0 .. m + 1, NEW n \in P, n # z, k # 0
                 PROVE  f[k - 1][nx[n]] = g[k - 1][nx[n]]
      OBVIOUS
    <3>1. k - 1 \in 0 .. m /\ nx[n] \in P
      OBVIOUS
    <3> HIDE DEF g
    <3>2. QED BY <2>2, <3>1
  <2>4. Fn(g, nx, m + 1, P, z)
    BY <2>3 DEF Fn
  <2>5. QED BY <2>4
<1>3. QED BY <1>1, <1>2, Induct

\* The element at a position of a sequence, z outside it.
OrEnd(s, i, z) == IF i \in 1 .. Len(s) THEN s[i] ELSE z

\* No node is met twice.
Distinct(s) == \A i, j \in 1 .. Len(s) : s[i] = s[j] => i = j

\* A sequence of distinct elements is no longer than their number.
LEMMA DistinctShort ==
  ASSUME NEW S, IsFiniteSet(S), NEW s \in Seq(S), Distinct(s)
  PROVE  Len(s) \in Nat /\ Len(s) =< Cardinality(S) /\ Cardinality(S) \in Nat
<1>1. s \in Injection(1 .. Len(s), S)
  <2>1. s \in [1 .. Len(s) -> S]
    OBVIOUS
  <2>2. \A a, b \in 1 .. Len(s) : s[a] = s[b] => a = b
    BY DEF Distinct
  <2>3. DOMAIN s = 1 .. Len(s)
    BY <2>1
  <2>4. QED BY <2>1, <2>2, <2>3, Zenon DEF Injection, IsInjective
<1>2. Cardinality(1 .. Len(s)) =< Cardinality(S)
  BY <1>1, FS_Injection
<1>3. Cardinality(1 .. Len(s)) = Len(s)
  <2>1. Len(s) \in Nat /\ 1 \in Int /\ Len(s) \in Int
    OBVIOUS
  <2>2. Cardinality(1 .. Len(s)) = IF 1 > Len(s) THEN 0 ELSE Len(s) - 1 + 1
    BY <2>1, FS_Interval
  <2>3. QED BY <2>1, <2>2
<1>4. QED BY <1>2, <1>3, FS_CardinalityType

\* nx leads through the nodes of s, at most K, and then to z.
Chain(s, nx, K, P, z) ==
  /\ K \in Nat /\ z \in P /\ s \in Seq(P \ {z}) /\ Len(s) =< K
  /\ \A i \in 1 .. Len(s) : nx[s[i]] = OrEnd(s, i + 1, z)

\* A traversal that starts at the first of linked nodes and may take enough
\* steps meets them all, in their order, and stops.
LEMMA TraversalIs ==
  ASSUME NEW P, NEW z, NEW nx, NEW K, NEW s, NEW f,
         Fn(f, nx, K, P, z), Chain(s, nx, K, P, z)
  PROVE  f[K][OrEnd(s, 1, z)] = s
<1> DEFINE m == Len(s)
           A(i) == OrEnd(s, i, z)
           Rest(i) == SubSeq(s, i, m)
           Good(k) == \A i \in 1 .. m + 1 : m + 1 - i =< k => f[k][A(i)] = Rest(i)
           T == {k \in Nat : k =< K => Good(k)}
<1>1. /\ K \in Nat /\ z \in P /\ s \in Seq(P \ {z}) /\ m =< K
      /\ \A i \in 1 .. m : nx[s[i]] = A(i + 1)
  BY DEF Chain
<1>2. m \in Nat /\ m =< K /\ \A i \in 1 .. m : s[i] \in P /\ s[i] # z
  BY <1>1
<1>3. \A k \in 0 .. K, n \in P :
        f[k][n] = IF n = z \/ k = 0 THEN << >> ELSE <<n>> \o f[k - 1][nx[n]]
  <2> SUFFICES ASSUME NEW k \in 0 .. K, NEW n \in P
               PROVE  f[k][n] = IF n = z \/ k = 0 THEN << >>
                                ELSE <<n>> \o f[k - 1][nx[n]]
    OBVIOUS
  <2>1. f[k] = [i \in P |->
                 IF i = z \/ k = 0 THEN << >> ELSE <<i>> \o f[k - 1][nx[i]]]
    BY Zenon DEF Fn
  <2>2. QED BY <2>1, Zenon
<1>4. \A i \in 1 .. m + 1 : A(i) \in P /\ (A(i) = z <=> i = m + 1)
  BY <1>1, <1>2 DEF OrEnd
<1>5. Rest(m + 1) = << >>
  BY <1>1, <1>2, SubSeqEmpty
<1>6. ASSUME NEW i \in 1 .. m
      PROVE  Rest(i) = <<A(i)>> \o Rest(i + 1) /\ nx[A(i)] = A(i + 1)
  <2>1. s[i] = A(i)
    BY DEF OrEnd
  <2>2. Rest(i) = <<s[i]>> \o Rest(i + 1)
    BY <1>1, SubSeqRecursiveFirst
  <2>3. nx[s[i]] = A(i + 1)
    BY <1>1
  <2>4. QED BY <2>1, <2>2, <2>3
<1>11. Rest(1) = s
  BY <1>1, SubSeqFull
<1> HIDE DEF Rest, m, A
<1>7. 0 \in T
  <2>1. ASSUME NEW i \in 1 .. m + 1, m + 1 - i =< 0 PROVE f[0][A(i)] = Rest(i)
    <3>1. i = m + 1
      BY <1>2, <2>1
    <3>2. 0 \in 0 .. K /\ A(i) \in P
      BY <1>1, <1>2, <1>4
    <3>3. f[0][A(i)] = << >>
      BY <1>3, <3>2
    <3>4. QED BY <1>5, <3>1, <3>3
  <2>2. QED BY <2>1
<1>8. ASSUME NEW k \in Nat, k \in T PROVE k + 1 \in T
  <2> SUFFICES ASSUME k + 1 =< K, NEW i \in 1 .. m + 1, m + 1 - i =< k + 1
               PROVE  f[k + 1][A(i)] = Rest(i)
    OBVIOUS
  <2>1. CASE i = m + 1
    <3>1. k + 1 \in 0 .. K /\ A(i) \in P /\ A(i) = z
      BY <1>2, <1>4, <2>1
    <3>2. f[k + 1][A(i)] = << >>
      BY <1>3, <3>1
    <3>3. QED BY <1>5, <2>1, <3>2
  <2>2. CASE i \in 1 .. m
    <3>1. i + 1 \in 1 .. m + 1 /\ m + 1 - (i + 1) =< k /\ k =< K
      BY <1>1, <1>2, <2>2
    <3>2. f[k][A(i + 1)] = Rest(i + 1)
      BY <1>8, <3>1
    <3>3. A(i) \in P /\ A(i) # z /\ k + 1 \in 0 .. K /\ k + 1 # 0 /\ (k + 1) - 1 = k
      BY <1>2, <1>4, <2>2
    <3>4. f[k + 1][A(i)] = <<A(i)>> \o f[k][nx[A(i)]]
      BY <1>3, <3>3
    <3>5. QED BY <1>6, <2>2, <3>2, <3>4
  <2>3. QED BY <1>2, <2>1, <2>2
<1>9. K \in T
  BY <1>1, <1>7, <1>8, Induct
<1>10. f[K][A(1)] = Rest(1)
  BY <1>2, <1>9
<1>12. QED BY <1>10, <1>11 DEF A

-----------------------------------------------------------------------------
(* Sequences with an element more and an element less.                     *)

\* s with n behind its first i nodes, and s without its i-th node.
Inserted(s, i, n) == SubSeq(s, 1, i) \o <<n>> \o SubSeq(s, i + 1, Len(s))
Removed(s, i) == SubSeq(s, 1, i - 1) \o SubSeq(s, i + 1, Len(s))

\* The positions of a sequence with a node more.
LEMMA InsertedIs ==
  ASSUME NEW S, NEW s \in Seq(S), NEW i \in 0 .. Len(s), NEW n \in S
  PROVE  /\ Inserted(s, i, n) \in Seq(S)
         /\ Len(Inserted(s, i, n)) = Len(s) + 1
         /\ \A j \in 1 .. i : Inserted(s, i, n)[j] = s[j]
         /\ Inserted(s, i, n)[i + 1] = n
         /\ \A j \in i + 2 .. Len(s) + 1 : Inserted(s, i, n)[j] = s[j - 1]
<1> DEFINE a == SubSeq(s, 1, i)
           b == <<n>>
           c == SubSeq(s, i + 1, Len(s))
           m == Len(s)
<1>1. m \in Nat /\ \A j \in 1 .. m : s[j] \in S
  OBVIOUS
<1>2. a \in Seq(S) /\ Len(a) = i /\ \A j \in 1 .. i : a[j] = s[j]
  BY <1>1
<1>3. b \in Seq(S) /\ Len(b) = 1 /\ b[1] = n
  OBVIOUS
<1>4. c \in Seq(S) /\ Len(c) = m - i /\ \A j \in 1 .. m - i : c[j] = s[i + j]
  BY <1>1
<1> HIDE DEF a, b, c, m
<1>5. /\ a \o b \in Seq(S) /\ Len(a \o b) = i + 1
      /\ \A j \in 1 .. i + 1 : (a \o b)[j] = IF j =< i THEN a[j] ELSE b[j - i]
  <2> DEFINE u == a \o b
  <2>1. /\ u \in Seq(S) /\ Len(u) = Len(a) + Len(b)
        /\ \A j \in 1 .. Len(a) + Len(b) :
             u[j] = IF j =< Len(a) THEN a[j] ELSE b[j - Len(a)]
    BY <1>2, <1>3, ConcatProperties
  <2> HIDE DEF u
  <2>2. QED BY <1>2, <1>3, <2>1 DEF u
<1>6. /\ (a \o b) \o c \in Seq(S) /\ Len((a \o b) \o c) = m + 1
      /\ \A j \in 1 .. m + 1 : ((a \o b) \o c)[j] =
           IF j =< i + 1 THEN (a \o b)[j] ELSE c[j - (i + 1)]
  <2> DEFINE u == a \o b
             v == u \o c
  <2>1. u \in Seq(S) /\ Len(u) = i + 1
    BY <1>5
  <2> HIDE DEF u
  <2>2. /\ v \in Seq(S) /\ Len(v) = Len(u) + Len(c)
        /\ \A j \in 1 .. Len(u) + Len(c) :
             v[j] = IF j =< Len(u) THEN u[j] ELSE c[j - Len(u)]
    BY <1>4, <2>1, ConcatProperties
  <2> HIDE DEF v
  <2>3. Len(u) + Len(c) = m + 1
    BY <1>1, <1>4, <2>1
  <2>4. /\ v \in Seq(S) /\ Len(v) = m + 1
        /\ \A j \in 1 .. m + 1 : v[j] = IF j =< i + 1 THEN u[j] ELSE c[j - (i + 1)]
    BY <2>1, <2>2, <2>3
  <2>5. QED BY <2>4 DEF u, v
<1> DEFINE v == (a \o b) \o c
           u == a \o b
<1> HIDE DEF u, v
<1>9. /\ \A j \in 1 .. i + 1 : u[j] = IF j =< i THEN a[j] ELSE b[j - i]
      /\ \A j \in 1 .. m + 1 : v[j] = IF j =< i + 1 THEN u[j] ELSE c[j - (i + 1)]
  BY <1>5, <1>6 DEF u, v
<1>7. ASSUME NEW j \in 1 .. m + 1
      PROVE  v[j] = IF j =< i THEN s[j] ELSE IF j = i + 1 THEN n ELSE s[j - 1]
  <2>1. CASE j =< i
    BY <1>1, <1>2, <1>9, <2>1
  <2>2. CASE j = i + 1
    BY <1>1, <1>3, <1>9, <2>2
  <2>3. CASE j > i + 1
    <3>1. j - (i + 1) \in 1 .. m - i /\ i + (j - (i + 1)) = j - 1
      BY <1>1, <2>3 DEF m
    <3>2. c[j - (i + 1)] = s[j - 1]
      BY <1>4, <3>1
    <3>3. QED BY <1>1, <1>9, <2>3, <3>2
  <2>4. QED BY <1>1, <2>1, <2>2, <2>3
<1>8. v \in Seq(S) /\ Len(v) = m + 1
  BY <1>6 DEF v
<1>10. i \in 0 .. m
  BY DEF m
<1>11. /\ \A j \in 1 .. i : v[j] = s[j]
       /\ v[i + 1] = n
       /\ \A j \in i + 2 .. m + 1 : v[j] = s[j - 1]
  <2>1. \A j \in 1 .. i : j \in 1 .. m + 1 /\ j =< i
    BY <1>1, <1>10
  <2>2. i + 1 \in 1 .. m + 1 /\ ~(i + 1 =< i)
    BY <1>1, <1>10
  <2>3. \A j \in i + 2 .. m + 1 : j \in 1 .. m + 1 /\ ~(j =< i) /\ j # i + 1
    BY <1>1, <1>10
  <2>4. \A j \in 1 .. i : v[j] = s[j]
    BY <1>7, <2>1
  <2>5. v[i + 1] = n
    BY <1>7, <2>2
  <2>6. \A j \in i + 2 .. m + 1 : v[j] = s[j - 1]
    BY <1>7, <2>3
  <2>7. QED BY <2>4, <2>5, <2>6
<1>12. Inserted(s, i, n) = v
  BY DEF Inserted, a, b, c, v
<1>13. QED BY <1>8, <1>11, <1>12 DEF m

\* The positions of a sequence with a node less.
LEMMA RemovedIs ==
  ASSUME NEW S, NEW s \in Seq(S), NEW i \in 1 .. Len(s)
  PROVE  /\ Removed(s, i) \in Seq(S)
         /\ Len(Removed(s, i)) = Len(s) - 1
         /\ \A j \in 1 .. Len(s) - 1 :
              Removed(s, i)[j] = IF j < i THEN s[j] ELSE s[j + 1]
<1> DEFINE a == SubSeq(s, 1, i - 1)
           c == SubSeq(s, i + 1, Len(s))
           m == Len(s)
<1>1. m \in Nat /\ \A j \in 1 .. m : s[j] \in S
  OBVIOUS
<1>2. a \in Seq(S) /\ Len(a) = i - 1 /\ \A j \in 1 .. i - 1 : a[j] = s[j]
  BY <1>1
<1>3. c \in Seq(S) /\ Len(c) = m - i /\ \A j \in 1 .. m - i : c[j] = s[i + j]
  BY <1>1
<1> HIDE DEF a, c, m
<1>4. /\ a \o c \in Seq(S) /\ Len(a \o c) = m - 1
      /\ \A j \in 1 .. m - 1 : (a \o c)[j] =
           IF j =< i - 1 THEN a[j] ELSE c[j - (i - 1)]
  <2> DEFINE u == a \o c
  <2>1. /\ u \in Seq(S) /\ Len(u) = Len(a) + Len(c)
        /\ \A j \in 1 .. Len(a) + Len(c) :
             u[j] = IF j =< Len(a) THEN a[j] ELSE c[j - Len(a)]
    BY <1>2, <1>3, ConcatProperties
  <2> HIDE DEF u
  <2>2. Len(a) + Len(c) = m - 1
    BY <1>1, <1>2, <1>3
  <2>3. /\ u \in Seq(S) /\ Len(u) = m - 1
        /\ \A j \in 1 .. m - 1 : u[j] = IF j =< i - 1 THEN a[j] ELSE c[j - (i - 1)]
    BY <1>2, <2>1, <2>2
  <2>4. QED BY <2>3 DEF u
<1>5. ASSUME NEW j \in 1 .. m - 1
      PROVE  (a \o c)[j] = IF j < i THEN s[j] ELSE s[j + 1]
  <2>1. CASE j < i
    BY <1>1, <1>2, <1>4, <2>1
  <2>2. CASE ~(j < i)
    <3>1. j - (i - 1) \in 1 .. m - i /\ i + (j - (i - 1)) = j + 1
      BY <1>1, <2>2 DEF m
    <3>2. c[j - (i - 1)] = s[j + 1]
      BY <1>3, <3>1
    <3>3. QED BY <1>1, <1>4, <2>2, <3>2
  <2>3. QED BY <2>1, <2>2
<1>6. QED BY <1>4, <1>5 DEF Removed, a, c, m

\* No element is twice in them.
LEMMA InsertedDistinct ==
  ASSUME NEW S, NEW s \in Seq(S), NEW i \in 0 .. Len(s), NEW n \in S,
         Distinct(s), \A j \in 1 .. Len(s) : s[j] # n
  PROVE  Distinct(Inserted(s, i, n))
<1> DEFINE v == Inserted(s, i, n)
           m == Len(s)
           Pos(x) == IF x =< i THEN x ELSE x - 1
<1>1. m \in Nat /\ i \in 0 .. m /\ \A j \in 1 .. m : s[j] # n
  OBVIOUS
<1>2. Len(v) = m + 1
  BY InsertedIs
<1>3. \A j \in 1 .. i : v[j] = s[j]
  BY InsertedIs
<1>4. v[i + 1] = n
  BY InsertedIs
<1>5. \A j \in i + 2 .. m + 1 : v[j] = s[j - 1]
  BY InsertedIs
<1> HIDE DEF v
<1> SUFFICES ASSUME NEW j \in 1 .. m + 1, NEW k \in 1 .. m + 1, v[j] = v[k]
             PROVE  j = k
  BY <1>2 DEF Distinct, v
<1>6. \A x \in 1 .. m + 1 : x # i + 1 => Pos(x) \in 1 .. m /\ v[x] = s[Pos(x)]
  BY <1>1, <1>3, <1>5
<1>7. CASE j = i + 1 \/ k = i + 1
  <2>1. \A x \in 1 .. m + 1 : x # i + 1 => v[x] # n
    <3> HIDE DEF Pos
    <3>1. QED BY <1>1, <1>6
  <2>2. QED BY <1>4, <1>7, <2>1
<1>8. CASE j # i + 1 /\ k # i + 1
  <2>1. Pos(j) \in 1 .. m /\ Pos(k) \in 1 .. m /\ s[Pos(j)] = s[Pos(k)]
    BY <1>6, <1>8
  <2>2. Pos(j) = Pos(k)
    <3> HIDE DEF Pos
    <3>1. QED BY <2>1 DEF Distinct
  <2>3. QED BY <1>1, <1>8, <2>2
<1>9. QED BY <1>7, <1>8

LEMMA RemovedDistinct ==
  ASSUME NEW S, NEW s \in Seq(S), NEW i \in 1 .. Len(s), Distinct(s)
  PROVE  Distinct(Removed(s, i))
<1> DEFINE v == Removed(s, i)
           m == Len(s)
           Pos(x) == IF x < i THEN x ELSE x + 1
<1>1. m \in Nat /\ i \in 1 .. m
  OBVIOUS
<1>2. Len(v) = m - 1
  BY RemovedIs
<1>3. \A j \in 1 .. m - 1 : v[j] = IF j < i THEN s[j] ELSE s[j + 1]
  BY RemovedIs
<1> HIDE DEF v
<1> SUFFICES ASSUME NEW j \in 1 .. m - 1, NEW k \in 1 .. m - 1, v[j] = v[k]
             PROVE  j = k
  BY <1>2 DEF Distinct, v
<1>4. \A x \in 1 .. m - 1 : Pos(x) \in 1 .. m /\ v[x] = s[Pos(x)]
  BY <1>1, <1>3
<1>5. Pos(j) = Pos(k)
  <2>1. Pos(j) \in 1 .. m /\ Pos(k) \in 1 .. m /\ s[Pos(j)] = s[Pos(k)]
    BY <1>4
  <2> HIDE DEF Pos
  <2>2. QED BY <2>1 DEF Distinct
<1>6. QED BY <1>1, <1>5

\* The same with z outside the sequence.
LEMMA InsertedOr ==
  ASSUME NEW S, NEW s \in Seq(S), NEW i \in 0 .. Len(s), NEW n \in S, NEW z
  PROVE  \A j \in Int :
           OrEnd(Inserted(s, i, n), j, z) =
             IF j =< i THEN OrEnd(s, j, z)
             ELSE IF j = i + 1 THEN n ELSE OrEnd(s, j - 1, z)
<1> DEFINE v == Inserted(s, i, n)
           m == Len(s)
<1>1. /\ Len(v) = m + 1
      /\ \A j \in 1 .. i : v[j] = s[j]
      /\ v[i + 1] = n
      /\ \A j \in i + 2 .. m + 1 : v[j] = s[j - 1]
  <2>1. Len(v) = m + 1
    BY InsertedIs
  <2>2. \A j \in 1 .. i : v[j] = s[j]
    BY InsertedIs
  <2>3. v[i + 1] = n
    BY InsertedIs
  <2>4. \A j \in i + 2 .. m + 1 : v[j] = s[j - 1]
    BY InsertedIs
  <2>5. QED BY <2>1, <2>2, <2>3, <2>4
<1>2. m \in Nat /\ i \in 0 .. m
  OBVIOUS
<1> HIDE DEF v, m
<1> SUFFICES ASSUME NEW j \in Int
             PROVE  OrEnd(v, j, z) = IF j =< i THEN OrEnd(s, j, z)
                                     ELSE IF j = i + 1 THEN n
                                     ELSE OrEnd(s, j - 1, z)
  BY DEF v
<1>3. CASE j =< i
  BY <1>1, <1>2, <1>3 DEF OrEnd, m
<1>4. CASE j = i + 1
  BY <1>1, <1>2, <1>4 DEF OrEnd, m
<1>5. CASE j > i + 1
  BY <1>1, <1>2, <1>5 DEF OrEnd, m
<1>6. QED BY <1>2, <1>3, <1>4, <1>5

LEMMA RemovedOr ==
  ASSUME NEW S, NEW s \in Seq(S), NEW i \in 1 .. Len(s), NEW z
  PROVE  \A j \in Int :
           OrEnd(Removed(s, i), j, z) =
             IF j < i THEN OrEnd(s, j, z) ELSE OrEnd(s, j + 1, z)
<1> DEFINE v == Removed(s, i)
           m == Len(s)
<1>1. Len(v) = m - 1
  BY RemovedIs
<1>2. \A j \in 1 .. m - 1 : v[j] = IF j < i THEN s[j] ELSE s[j + 1]
  BY RemovedIs
<1>3. m \in Nat /\ i \in 1 .. m
  OBVIOUS
<1> HIDE DEF v, m
<1> SUFFICES ASSUME NEW j \in Int
             PROVE  OrEnd(v, j, z) =
                      IF j < i THEN OrEnd(s, j, z) ELSE OrEnd(s, j + 1, z)
  BY DEF v
<1>4. CASE j < i
  BY <1>1, <1>2, <1>3, <1>4 DEF OrEnd, m
<1>5. CASE ~(j < i)
  BY <1>1, <1>2, <1>3, <1>5 DEF OrEnd, m
<1>6. QED BY <1>4, <1>5

\* The nodes of a list.
Elements(s) == {s[i] : i \in 1 .. Len(s)}

\* And a sequence of distinct elements has as many as positions.
LEMMA DistinctElements ==
  ASSUME NEW S, NEW s \in Seq(S), Distinct(s)
  PROVE  Len(s) = Cardinality(Elements(s))
<1>1. Len(s) \in Nat /\ DOMAIN s = 1 .. Len(s)
  OBVIOUS
<1>2. s \in [1 .. Len(s) -> Elements(s)]
  BY DEF Elements
<1>3. \A a, b \in 1 .. Len(s) : s[a] = s[b] => a = b
  BY DEF Distinct
<1>4. \A e \in Elements(s) : \E a \in 1 .. Len(s) : s[a] = e
  BY DEF Elements
<1>5. s \in Injection(1 .. Len(s), Elements(s))
  BY <1>1, <1>2, <1>3, Zenon DEF Injection, IsInjective
<1>6. s \in Surjection(1 .. Len(s), Elements(s))
  BY <1>2, <1>4, Zenon DEF Surjection
<1>7. ExistsBijection(1 .. Len(s), Elements(s))
  BY <1>5, <1>6, Zenon DEF ExistsBijection, Bijection
<1>8. QED BY <1>1, <1>7, FS_CountingElements

\* The nodes of a list with a node more.
LEMMA InsertedElements ==
  ASSUME NEW S, NEW s \in Seq(S), NEW i \in 0 .. Len(s), NEW n \in S
  PROVE  Elements(Inserted(s, i, n)) = Elements(s) \cup {n}
<1> DEFINE v == Inserted(s, i, n)
           m == Len(s)
<1>1. m \in Nat /\ i \in 0 .. m
  OBVIOUS
<1>2. /\ Len(v) = m + 1
      /\ \A j \in 1 .. i : v[j] = s[j]
      /\ v[i + 1] = n
      /\ \A j \in i + 2 .. m + 1 : v[j] = s[j - 1]
  <2>1. Len(v) = m + 1
    BY InsertedIs
  <2>2. \A j \in 1 .. i : v[j] = s[j]
    BY InsertedIs
  <2>3. v[i + 1] = n
    BY InsertedIs
  <2>4. \A j \in i + 2 .. m + 1 : v[j] = s[j - 1]
    BY InsertedIs
  <2>5. QED BY <2>1, <2>2, <2>3, <2>4
<1> HIDE DEF v
<1>3. \A j \in 1 .. m + 1 : v[j] = n \/ \E k \in 1 .. m : v[j] = s[k]
  <2> SUFFICES ASSUME NEW j \in 1 .. m + 1, j # i + 1
               PROVE  \E k \in 1 .. m : v[j] = s[k]
    BY <1>2
  <2>1. CASE j =< i
    BY <1>1, <1>2, <2>1
  <2>2. CASE j > i + 1
    <3>1. j - 1 \in 1 .. m /\ j \in i + 2 .. m + 1
      BY <1>1, <2>2
    <3>3. v[j] = s[j - 1]
      BY <1>2, <3>1
    <3>4. QED BY <3>1, <3>3
  <2>3. QED BY <1>1, <2>1, <2>2
<1>4. \A k \in 1 .. m : \E j \in 1 .. m + 1 : v[j] = s[k]
  <2> SUFFICES ASSUME NEW k \in 1 .. m PROVE \E j \in 1 .. m + 1 : v[j] = s[k]
    OBVIOUS
  <2>1. CASE k =< i
    BY <1>1, <1>2, <2>1
  <2>2. CASE k > i
    <3>1. k + 1 \in 1 .. m + 1 /\ v[k + 1] = s[k]
      BY <1>1, <1>2, <2>2
    <3>2. QED BY <3>1
  <2>3. QED BY <1>1, <2>1, <2>2
<1>5. i + 1 \in 1 .. m + 1 /\ v[i + 1] = n
  BY <1>1, <1>2
<1>6. \A x \in Elements(v) : x \in Elements(s) \cup {n}
  BY <1>2, <1>3 DEF Elements
<1>7. \A x \in Elements(s) : x \in Elements(v)
  BY <1>2, <1>4 DEF Elements
<1>8. n \in Elements(v)
  BY <1>2, <1>5 DEF Elements
<1>9. QED BY <1>6, <1>7, <1>8 DEF v

\* The nodes of a list with a node less.
LEMMA RemovedElements ==
  ASSUME NEW S, NEW s \in Seq(S), NEW i \in 1 .. Len(s), Distinct(s)
  PROVE  Elements(Removed(s, i)) = Elements(s) \ {s[i]}
<1> DEFINE v == Removed(s, i)
           m == Len(s)
<1>1. m \in Nat /\ i \in 1 .. m /\ Distinct(s)
  OBVIOUS
<1>2. /\ Len(v) = m - 1
      /\ \A j \in 1 .. m - 1 : v[j] = IF j < i THEN s[j] ELSE s[j + 1]
  BY RemovedIs
<1> HIDE DEF v
<1> DEFINE Pos(x) == IF x < i THEN x ELSE x + 1
<1>3. \A x \in 1 .. m - 1 : Pos(x) \in 1 .. m /\ Pos(x) # i /\ v[x] = s[Pos(x)]
  BY <1>1, <1>2
<1>4. \A j \in 1 .. m - 1 : v[j] # s[i] /\ \E k \in 1 .. m : v[j] = s[k]
  BY <1>1, <1>3 DEF Distinct
<1>5. \A k \in 1 .. m : k # i => \E j \in 1 .. m - 1 : v[j] = s[k]
  <2> SUFFICES ASSUME NEW k \in 1 .. m, k # i
               PROVE  \E j \in 1 .. m - 1 : v[j] = s[k]
    OBVIOUS
  <2>1. CASE k < i
    <3>1. k \in 1 .. m - 1 /\ v[k] = s[k]
      BY <1>1, <1>2, <2>1
    <3>2. QED BY <3>1
  <2>2. CASE k > i
    <3>1. k - 1 \in 1 .. m - 1 /\ v[k - 1] = s[k]
      BY <1>1, <1>2, <2>2
    <3>2. QED BY <3>1
  <2>3. QED BY <1>1, <2>1, <2>2
<1>6. \A x \in Elements(v) : x \in Elements(s) /\ x # s[i]
  BY <1>2, <1>4 DEF Elements
<1>7. \A x \in Elements(s) : x # s[i] => x \in Elements(v)
  <2> SUFFICES ASSUME NEW k \in 1 .. m, s[k] # s[i] PROVE s[k] \in Elements(v)
    BY DEF Elements
  <2>1. PICK j \in 1 .. m - 1 : v[j] = s[k]
    BY <1>5
  <2>2. QED BY <1>2, <2>1 DEF Elements
<1>8. QED BY <1>6, <1>7 DEF v

\* Append and the prefix are insertions at the two ends.
LEMMA AppendIsInserted ==
  ASSUME NEW S, NEW s \in Seq(S), NEW n \in S
  PROVE  /\ Append(s, n) = Inserted(s, Len(s), n)
         /\ <<n>> \o s = Inserted(s, 0, n)
<1> DEFINE m == Len(s)
<1>1. m \in Nat /\ m \in 0 .. m /\ 0 \in 0 .. m
  OBVIOUS
<1>2. Append(s, n) = Inserted(s, m, n)
  <2> DEFINE i == Len(s)
             v == Inserted(s, i, n)
             w == Append(s, n)
  <2>0. i \in 0 .. Len(s)
    BY <1>1
  <2>7. i = m
    OBVIOUS
  <2> HIDE DEF i
  <2>1. v \in Seq(S)
    BY <2>0, InsertedIs, Zenon
  <2>2. Len(v) = m + 1 /\ (\A j \in 1 .. m : v[j] = s[j]) /\ v[m + 1] = n
    <3>1. Len(v) = m + 1
      BY <2>0, InsertedIs
    <3>2. \A j \in 1 .. i : v[j] = s[j]
      BY <2>0, InsertedIs
    <3>3. v[i + 1] = n
      BY <2>0, InsertedIs
    <3>4. QED BY <2>7, <3>1, <3>2, <3>3
  <2>3. /\ w \in Seq(S) /\ Len(w) = m + 1
        /\ \A j \in 1 .. m : w[j] = s[j]
        /\ w[m + 1] = n
    BY AppendProperties
  <2> HIDE DEF v, w, m
  <2>4. \A j \in 1 .. m + 1 : v[j] = w[j]
    BY <1>1, <2>2, <2>3
  <2>5. v = w
    BY <2>1, <2>2, <2>3, <2>4, SeqEqual
  <2>6. QED BY <2>7, <2>5 DEF v, w
<1>3. <<n>> \o s = Inserted(s, 0, n)
  <2> DEFINE v == Inserted(s, 0, n)
             w == <<n>> \o s
  <2>1. v \in Seq(S)
    BY <1>1, InsertedIs, Zenon
  <2>2. Len(v) = m + 1 /\ v[1] = n /\ (\A j \in 2 .. m + 1 : v[j] = s[j - 1])
    <3>1. Len(v) = m + 1
      BY <1>1, InsertedIs
    <3>2. v[0 + 1] = n
      BY <1>1, InsertedIs
    <3>3. \A j \in 0 + 2 .. m + 1 : v[j] = s[j - 1]
      BY <1>1, InsertedIs
    <3>4. QED BY <3>1, <3>2, <3>3
  <2>3. /\ w \in Seq(S) /\ Len(w) = m + 1
        /\ w[1] = n
        /\ \A j \in 2 .. m + 1 : w[j] = s[j - 1]
    OBVIOUS
  <2> HIDE DEF v, w, m
  <2>4. \A j \in 1 .. m + 1 : v[j] = w[j]
    BY <1>1, <2>2, <2>3
  <2>5. v = w
    BY <2>1, <2>2, <2>3, <2>4, SeqEqual
  <2>6. QED BY <2>5 DEF v, w
<1>4. QED BY <1>2, <1>3 DEF m

\* The tail of a sequence is what removing its first node leaves.
LEMMA TailIsRemoved ==
  ASSUME NEW S, NEW s \in Seq(S), Len(s) # 0
  PROVE  Tail(s) = Removed(s, 1)
<1> DEFINE m == Len(s)
           v == Removed(s, 1)
           w == Tail(s)
<1>1. m \in Nat \ {0} /\ 1 \in 1 .. m /\ s # << >>
  OBVIOUS
<1>2. v \in Seq(S)
  BY <1>1, RemovedIs, Zenon
<1>3. Len(v) = m - 1 /\ \A j \in 1 .. m - 1 : v[j] = IF j < 1 THEN s[j] ELSE s[j + 1]
  BY <1>1, RemovedIs
<1>4. w \in Seq(S) /\ Len(w) = m - 1 /\ \A j \in 1 .. m - 1 : w[j] = s[j + 1]
  BY <1>1, HeadTailProperties
<1> HIDE DEF v, w, m
<1>5. \A j \in 1 .. m - 1 : v[j] = w[j]
  BY <1>1, <1>3, <1>4
<1>6. v = w
  BY <1>2, <1>3, <1>4, <1>5, SeqEqual
<1>7. QED BY <1>6 DEF v, w
=============================================================================
