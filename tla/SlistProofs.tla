---------------------------- MODULE SlistProofs ----------------------------
(***************************************************************************)
(* Proofs about SlistSystem, for every finite set of nodes and every set   *)
(* of lists: the pointers implement sequences, and a tail is a last node.  *)
(* First what a traversal meets when the next pointers link a sequence of  *)
(* distinct nodes, then what an operation does to such a sequence, then    *)
(* the lists of a program together.  Last the list of GpioCallbacks, which *)
(* an interrupt traverses between the stores of an operation.              *)
(***************************************************************************)
EXTENDS SlistSystem, GpioCallbacks, SequenceLemmas

\* Walk is a value of the function that a traversal defines.
LEMMA WalkIs ==
  ASSUME NEW l, l.next \in [Node -> Ptr]
  PROVE  \E f : /\ Fn(f, l.next, Cardinality(Node) + 1, Ptr, NULL)
                /\ Walk(l) = f[Cardinality(Node) + 1][l.head]
<1> DEFINE K == Cardinality(Node) + 1
           nx == l.next
           fr == CHOOSE f : Fn(f, nx, K, Ptr, NULL)
<1>1. K \in Nat
  BY FS_CardinalityType, NodeAssumption
<1>2. \A n \in Ptr : n # NULL => nx[n] \in Ptr
  BY DEF Ptr
<1>3. Fn(fr, nx, K, Ptr, NULL)
  BY <1>1, <1>2, FromExists
<1>4. Walk(l) = fr[K][l.head]
  BY Zenon DEF Walk, Fn
<1>5. QED BY <1>3, <1>4

\* The node at a position of a list, NULL behind its end.
At(s, i) == OrEnd(s, i, NULL)

\* The next pointers link the nodes of s in their order.
Linked(s, nx) == \A i \in 1 .. Len(s) : nx[s[i]] = At(s, i + 1)

\* A traversal that starts at the first of linked, distinct nodes meets them.
LEMMA WalkOfLinked ==
  ASSUME NEW l, l.next \in [Node -> Ptr], NEW s \in Seq(Node),
         Distinct(s), Linked(s, l.next), l.head = At(s, 1)
  PROVE  Walk(l) = s
<1> DEFINE K == Cardinality(Node) + 1
           nx == l.next
<1>1. PICK f : Fn(f, nx, K, Ptr, NULL) /\ Walk(l) = f[K][l.head]
  BY WalkIs
<1>2. K \in Nat /\ Len(s) =< K
  BY DistinctShort, NodeAssumption
<1>3. NULL \in Ptr /\ Ptr \ {NULL} = Node
  BY NodeAssumption DEF Ptr
<1>4. Chain(s, nx, K, Ptr, NULL)
  BY <1>2, <1>3 DEF Chain, Linked, At
<1>5. f[K][OrEnd(s, 1, NULL)] = s
  BY <1>1, <1>4, TraversalIs
<1>6. QED BY <1>1, <1>5 DEF At

\* With NULL outside a list.
LEMMA InsertedAt ==
  ASSUME NEW s \in Seq(Node), NEW i \in 0 .. Len(s), NEW n \in Node
  PROVE  \A j \in Int :
           At(Inserted(s, i, n), j) = IF j =< i THEN At(s, j)
                                      ELSE IF j = i + 1 THEN n ELSE At(s, j - 1)
BY InsertedOr DEF At

LEMMA RemovedAt ==
  ASSUME NEW s \in Seq(Node), NEW i \in 1 .. Len(s)
  PROVE  \A j \in Int :
           At(Removed(s, i), j) = IF j < i THEN At(s, j) ELSE At(s, j + 1)
BY RemovedOr DEF At

-----------------------------------------------------------------------------
(* What the pointer operations do to one list.                             *)

\* s is the list that starts at h and ends at t, linked by nx.
Holds(s, h, t, nx) ==
  /\ s \in Seq(Node) /\ Distinct(s) /\ Linked(s, nx)
  /\ h = At(s, 1) /\ t = At(s, Len(s))

\* Two next pointers and the ends of the list change when a node goes in.
LEMMA InsertHolds ==
  ASSUME NEW s, NEW h, NEW t, NEW nx, NEW nx2, Holds(s, h, t, nx),
         NEW i \in 0 .. Len(s), NEW n \in Node, n \notin Elements(s),
         nx2[n] = At(s, i + 1),
         i # 0 => nx2[s[i]] = n,
         \A j \in 1 .. Len(s) : j # i => nx2[s[j]] = nx[s[j]]
  PROVE  /\ Holds(Inserted(s, i, n), IF i = 0 THEN n ELSE h,
                  IF i = Len(s) THEN n ELSE t, nx2)
         /\ Elements(Inserted(s, i, n)) = Elements(s) \cup {n}
<1> DEFINE v == Inserted(s, i, n)
           m == Len(s)
<1>1. /\ s \in Seq(Node) /\ m \in Nat /\ i \in 0 .. m
      /\ \A j \in 1 .. m : s[j] \in Node /\ s[j] # n
      /\ Distinct(s) /\ Linked(s, nx) /\ h = At(s, 1) /\ t = At(s, m)
  BY DEF Holds, Elements
<1>2. /\ v \in Seq(Node) /\ Len(v) = m + 1
      /\ \A j \in 1 .. i : v[j] = s[j]
      /\ v[i + 1] = n
      /\ \A j \in i + 2 .. m + 1 : v[j] = s[j - 1]
  <2>1. s \in Seq(Node)
    BY <1>1
  <2>2. v \in Seq(Node)
    BY <2>1, InsertedIs, Zenon
  <2>6. Len(v) = m + 1
    BY <2>1, InsertedIs
  <2>7. v[i + 1] = n
    BY <2>1, InsertedIs
  <2>3. \A j \in 1 .. i : v[j] = s[j]
    BY <2>1, InsertedIs
  <2>4. \A j \in i + 2 .. m + 1 : v[j] = s[j - 1]
    BY <2>1, InsertedIs
  <2>5. QED BY <2>2, <2>3, <2>4, <2>6, <2>7
<1>3. \A j \in Int : At(v, j) = IF j =< i THEN At(s, j)
                                ELSE IF j = i + 1 THEN n ELSE At(s, j - 1)
  BY <1>1, InsertedAt
<1> HIDE DEF v
<1>4. Distinct(v)
  BY <1>1, InsertedDistinct DEF v
<1>5. Linked(v, nx2)
  <2> SUFFICES ASSUME NEW j \in 1 .. m + 1 PROVE nx2[v[j]] = At(v, j + 1)
    BY <1>2 DEF Linked
  <2>0. \A k \in 1 .. m : nx[s[k]] = At(s, k + 1)
    BY <1>1 DEF Linked
  <2>1. CASE j < i
    <3>1. j \in 1 .. m /\ j # i /\ j + 1 =< i /\ j =< i /\ j \in 1 .. i
      BY <1>1, <2>1
    <3>2. QED BY <1>2, <1>3, <2>0, <3>1
  <2>2. CASE j = i
    BY <1>1, <1>2, <1>3, <2>2
  <2>3. CASE j = i + 1
    BY <1>1, <1>2, <1>3, <2>3
  <2>4. CASE j > i + 1
    <3>1. j - 1 \in 1 .. m /\ j - 1 # i /\ j \in i + 2 .. m + 1
          /\ (j - 1) + 1 = j /\ (j + 1) - 1 = j
          /\ ~(j + 1 =< i) /\ j + 1 # i + 1 /\ j + 1 \in Int
      BY <1>1, <2>4
    <3>2. v[j] = s[j - 1] /\ At(v, j + 1) = At(s, j)
      BY <1>2, <1>3, <3>1
    <3>3. nx[s[j - 1]] = At(s, j)
      BY <2>0, <3>1
    <3>4. QED BY <3>1, <3>2, <3>3
  <2>5. QED BY <1>1, <2>1, <2>2, <2>3, <2>4
<1>6. At(v, 1) = IF i = 0 THEN n ELSE h
  BY <1>1, <1>3
<1>7. At(v, m + 1) = IF i = m THEN n ELSE t
  BY <1>1, <1>3
<1>8. Elements(v) = Elements(s) \cup {n}
  BY <1>1, InsertedElements DEF v
<1>9. QED BY <1>2, <1>4, <1>5, <1>6, <1>7, <1>8 DEF Holds, v

\* The pointer before the node and the ends change when a node goes out.
LEMMA RemoveHolds ==
  ASSUME NEW s, NEW h, NEW t, NEW nx, NEW nx2, Holds(s, h, t, nx),
         NEW i \in 1 .. Len(s),
         i # 1 => nx2[s[i - 1]] = At(s, i + 1),
         \A j \in 1 .. Len(s) : j # i - 1 /\ j # i => nx2[s[j]] = nx[s[j]]
  PROVE  /\ Holds(Removed(s, i), IF i = 1 THEN At(s, 2) ELSE h,
                  IF i = Len(s) THEN At(s, i - 1) ELSE t, nx2)
         /\ Elements(Removed(s, i)) = Elements(s) \ {s[i]}
<1> DEFINE v == Removed(s, i)
           m == Len(s)
<1>1. /\ s \in Seq(Node) /\ m \in Nat /\ i \in 1 .. m
      /\ Distinct(s) /\ Linked(s, nx) /\ h = At(s, 1) /\ t = At(s, m)
  BY DEF Holds
<1>2. /\ v \in Seq(Node) /\ Len(v) = m - 1
      /\ \A j \in 1 .. m - 1 : v[j] = IF j < i THEN s[j] ELSE s[j + 1]
  BY <1>1, RemovedIs
<1>3. \A j \in Int : At(v, j) = IF j < i THEN At(s, j) ELSE At(s, j + 1)
  BY <1>1, RemovedAt
<1> HIDE DEF v
<1>4. Distinct(v)
  BY <1>1, RemovedDistinct DEF v
<1>5. Linked(v, nx2)
  <2> SUFFICES ASSUME NEW j \in 1 .. m - 1 PROVE nx2[v[j]] = At(v, j + 1)
    BY <1>2 DEF Linked
  <2>0. \A k \in 1 .. m : nx[s[k]] = At(s, k + 1)
    BY <1>1 DEF Linked
  <2>1. CASE j < i - 1
    <3>1. j \in 1 .. m /\ j # i - 1 /\ j # i /\ j + 1 < i /\ j < i /\ j + 1 \in Int
      BY <1>1, <2>1
    <3>2. QED BY <1>2, <1>3, <2>0, <3>1
  <2>2. CASE j = i - 1
    <3>1. i # 1 /\ v[j] = s[i - 1] /\ At(v, j + 1) = At(s, i + 1)
      <4>1. i # 1 /\ j < i /\ j + 1 = i /\ ~(i < i) /\ i \in Int
        BY <1>1, <2>2
      <4>2. v[j] = s[j] /\ At(v, i) = At(s, i + 1)
        BY <1>2, <1>3, <4>1
      <4>3. QED BY <2>2, <4>1, <4>2
    <3>2. QED BY <3>1
  <2>3. CASE j > i - 1
    <3>1. v[j] = s[j + 1] /\ At(v, j + 1) = At(s, (j + 1) + 1)
      BY <1>1, <1>2, <1>3, <2>3
    <3>2. j + 1 \in 1 .. m /\ j + 1 # i - 1 /\ j + 1 # i
      BY <1>1, <2>3
    <3>3. QED BY <2>0, <3>1, <3>2
  <2>4. QED BY <1>1, <2>1, <2>2, <2>3
<1>6. At(v, 1) = IF i = 1 THEN At(s, 2) ELSE h
  BY <1>1, <1>3
<1>7. At(v, m - 1) = IF i = m THEN At(s, i - 1) ELSE t
  BY <1>1, <1>3
<1>8. Elements(v) = Elements(s) \ {s[i]}
  BY <1>1, RemovedElements DEF v
<1>9. QED BY <1>2, <1>4, <1>5, <1>6, <1>7, <1>8 DEF Holds, v

\* The operation on the list s gives the list s2, and touches no node but
\* those of s and n.
Effect(s, s2, m, nx, n) ==
  /\ Holds(s2, m.head, m.tail, m.next) /\ m.next \in [Node -> Ptr]
  /\ \A x \in Node \ (Elements(s) \cup {n}) : m.next[x] = nx[x]
  /\ Elements(s2) \subseteq Elements(s) \cup {n}

\* The end of a list is NULL when the list is empty, and only then.
LEMMA EndsOf ==
  ASSUME NEW s, NEW h, NEW t, NEW nx, Holds(s, h, t, nx)
  PROVE  /\ h \in Ptr /\ t \in Ptr
         /\ h = NULL <=> Len(s) = 0
         /\ t = NULL <=> Len(s) = 0
         /\ Len(s) # 0 => h = s[1] /\ t = s[Len(s)] /\ nx[t] = NULL
         /\ Len(s) \in Nat
         /\ Elements(s) \in SUBSET Node
<1>1. s \in Seq(Node) /\ h = At(s, 1) /\ t = At(s, Len(s)) /\ Linked(s, nx)
  BY DEF Holds
<1> DEFINE m == Len(s)
<1>2. m \in Nat /\ \A i \in 1 .. m : s[i] \in Node /\ s[i] # NULL
  BY <1>1, NodeAssumption
<1>3. \A i \in Int : At(s, i) = IF i \in 1 .. m THEN s[i] ELSE NULL
  BY DEF At, OrEnd
<1>4. \A i \in 1 .. m : nx[s[i]] = At(s, i + 1)
  BY <1>1 DEF Linked
<1>5. Elements(s) \in SUBSET Node
  BY <1>2 DEF Elements
<1> HIDE DEF m
<1>6. CASE m = 0
  BY <1>1, <1>2, <1>3, <1>5, <1>6 DEF Ptr, m
<1>7. CASE m # 0
  <2>1. 1 \in 1 .. m /\ m \in 1 .. m /\ m + 1 \notin 1 .. m
    BY <1>2, <1>7
  <2>2. h = s[1] /\ t = s[m] /\ nx[t] = NULL
    BY <1>1, <1>3, <1>4, <2>1 DEF m
  <2>3. QED BY <1>2, <1>5, <1>7, <2>1, <2>2 DEF Ptr, m
<1>8. QED BY <1>6, <1>7

\* sys_slist_prepend puts the node before the first.
LEMMA PrependEffect ==
  ASSUME NEW s, NEW r, Holds(s, r.head, r.tail, r.next),
         NEW h, NEW t, NEW nx, r = [head |-> h, tail |-> t, next |-> nx],
         nx \in [Node -> Ptr], NEW n \in Node, n \notin Elements(s)
  PROVE  Effect(s, Inserted(s, 0, n), sys_slist_prepend(r, n), nx, n)
<1> DEFINE m == sys_slist_prepend(r, n)
           nx2 == [nx EXCEPT ![n] = h]
<1>1. Holds(s, h, t, nx)
  OBVIOUS
<1>2. m.head = n /\ m.tail = (IF t = NULL THEN n ELSE t) /\ m.next = nx2
  BY DEF sys_slist_prepend, NextSet
<1>3. /\ h \in Ptr /\ Len(s) \in Nat /\ Elements(s) \in SUBSET Node
      /\ t = NULL <=> Len(s) = 0
      /\ h = At(s, 1)
  BY <1>1, EndsOf DEF Holds
<1>4. /\ nx2 \in [Node -> Ptr] /\ nx2[n] = h
      /\ \A x \in Node : x # n => nx2[x] = nx[x]
  BY <1>3
<1> HIDE DEF nx2, m
<1>5. \A j \in 1 .. Len(s) : nx2[s[j]] = nx[s[j]]
  BY <1>3, <1>4 DEF Elements
<1>6. Holds(Inserted(s, 0, n), IF 0 = 0 THEN n ELSE h,
            IF 0 = Len(s) THEN n ELSE t, nx2)
  <2>1. 0 \in 0 .. Len(s) /\ nx2[n] = At(s, 0 + 1)
    BY <1>3, <1>4
  <2>2. QED BY <1>1, <1>5, <2>1, InsertHolds
<1>7. Holds(Inserted(s, 0, n), n, IF t = NULL THEN n ELSE t, nx2)
  BY <1>3, <1>6
<1>8. Elements(Inserted(s, 0, n)) = Elements(s) \cup {n}
  <2>1. s \in Seq(Node) /\ 0 \in 0 .. Len(s)
    BY <1>1, <1>3 DEF Holds
  <2>2. QED BY <2>1, InsertedElements
<1>9. QED BY <1>2, <1>4, <1>7, <1>8 DEF Effect, m

\* sys_slist_append puts the node behind the last.
LEMMA AppendEffect ==
  ASSUME NEW s, NEW r, Holds(s, r.head, r.tail, r.next),
         NEW h, NEW t, NEW nx, r = [head |-> h, tail |-> t, next |-> nx],
         nx \in [Node -> Ptr], NEW n \in Node, n \notin Elements(s)
  PROVE  Effect(s, Inserted(s, Len(s), n), sys_slist_append(r, n), nx, n)
<1> DEFINE m == sys_slist_append(r, n)
           k == Len(s)
           nx1 == [nx EXCEPT ![n] = NULL]
           nx2 == IF t = NULL THEN nx1 ELSE [nx1 EXCEPT ![t] = n]
<1>1. Holds(s, h, t, nx)
  OBVIOUS
<1>2. m.head = (IF t = NULL THEN n ELSE h) /\ m.tail = n /\ m.next = nx2
  BY DEF sys_slist_append, NextSet
<1>3. /\ h \in Ptr /\ t \in Ptr /\ k \in Nat /\ Elements(s) \in SUBSET Node
      /\ t = NULL <=> k = 0
      /\ k # 0 => t = s[k] /\ t \in Elements(s) /\ t # n
      /\ s \in Seq(Node) /\ Distinct(s)
  <2>1. s \in Seq(Node) /\ Distinct(s)
    BY <1>1 DEF Holds
  <2>2. k # 0 => s[k] \in Elements(s)
    BY <2>1 DEF Elements
  <2>3. QED BY <1>1, <2>1, <2>2, EndsOf
<1>4. nx1 \in [Node -> Ptr] /\ nx1[n] = NULL /\ \A x \in Node : x # n => nx1[x] = nx[x]
  BY DEF Ptr
<1> HIDE DEF nx1
<1>5. /\ nx2 \in [Node -> Ptr] /\ nx2[n] = NULL
      /\ t # NULL => nx2[t] = n
      /\ \A x \in Node : x # n /\ x # t => nx2[x] = nx[x]
  BY <1>3, <1>4 DEF Ptr
<1> HIDE DEF nx2, m
<1>6. \A j \in 1 .. k : j # k => nx2[s[j]] = nx[s[j]]
  <2> SUFFICES ASSUME NEW j \in 1 .. k, j # k PROVE nx2[s[j]] = nx[s[j]]
    OBVIOUS
  <2>1. s[j] \in Node /\ s[j] # n /\ k # 0
    BY <1>3 DEF Elements
  <2>2. s[j] # t
    BY <1>3, <2>1 DEF Distinct
  <2>3. QED BY <1>5, <2>1, <2>2
<1>7. k + 1 \notin 1 .. k /\ k \in 0 .. k
  BY <1>3
<1>8. At(s, k + 1) = NULL
  BY <1>7 DEF At, OrEnd
<1>9. Holds(Inserted(s, k, n), IF k = 0 THEN n ELSE h, IF k = k THEN n ELSE t, nx2)
  <2>1. nx2[n] = At(s, k + 1) /\ (k # 0 => nx2[s[k]] = n)
    BY <1>3, <1>5, <1>8
  <2>2. QED BY <1>1, <1>6, <1>7, <2>1, InsertHolds
<1>10. Holds(Inserted(s, k, n), IF t = NULL THEN n ELSE h, n, nx2)
  BY <1>3, <1>9
<1>11. \A x \in Node \ (Elements(s) \cup {n}) : nx2[x] = nx[x]
  BY <1>3, <1>5, NodeAssumption
<1>12. Elements(Inserted(s, k, n)) = Elements(s) \cup {n}
  BY <1>3, <1>7, InsertedElements
<1>13. QED BY <1>2, <1>5, <1>10, <1>11, <1>12 DEF Effect, m

\* sys_slist_insert puts the node behind prev, the i-th node.
LEMMA InsertEffect ==
  ASSUME NEW s, NEW r, Holds(s, r.head, r.tail, r.next),
         NEW h, NEW t, NEW nx, r = [head |-> h, tail |-> t, next |-> nx],
         nx \in [Node -> Ptr], NEW n \in Node, n \notin Elements(s),
         NEW i \in 1 .. Len(s)
  PROVE  Effect(s, Inserted(s, i, n), sys_slist_insert(r, s[i], n), nx, n)
<1> DEFINE k == Len(s)
           p == s[i]
<1>1. Holds(s, h, t, nx)
  OBVIOUS
<1>2. /\ s \in Seq(Node) /\ Distinct(s) /\ Linked(s, nx) /\ k \in Nat
      /\ Elements(s) \in SUBSET Node
      /\ p \in Node /\ p # n /\ p # NULL /\ nx[p] = At(s, i + 1)
  <2>1. s \in Seq(Node) /\ Distinct(s) /\ Linked(s, nx)
    BY <1>1 DEF Holds
  <2>2. p \in Node /\ p # n /\ p # NULL
    BY <2>1, NodeAssumption DEF Elements
  <2>3. nx[p] = At(s, i + 1)
    BY <2>1 DEF Linked
  <2>4. QED BY <1>1, <2>1, <2>2, <2>3, EndsOf
<1>3. CASE nx[p] = NULL
  <2>1. i = k
    BY <1>2, <1>3, NodeAssumption DEF At, OrEnd
  <2>2. sys_slist_insert(r, p, n) = sys_slist_append(r, n)
    BY <1>2, <1>3, Zenon DEF sys_slist_insert
  <2>3. QED BY <2>1, <2>2, AppendEffect
<1>4. CASE nx[p] # NULL
  <2> DEFINE m == sys_slist_insert(r, p, n)
             nx1 == [nx EXCEPT ![n] = nx[p]]
             nx2 == [nx1 EXCEPT ![p] = n]
  <2>1. m.head = h /\ m.tail = t /\ m.next = nx2
    BY <1>2, <1>4 DEF sys_slist_insert, NextSet
  <2>2. i # k
    BY <1>2, <1>4 DEF At, OrEnd
  <2>3. /\ nx1 \in [Node -> Ptr] /\ nx1[n] = nx[p]
        /\ \A x \in Node : x # n => nx1[x] = nx[x]
    BY <1>2 DEF Ptr
  <2> HIDE DEF nx1
  <2>4. /\ nx2 \in [Node -> Ptr] /\ nx2[n] = nx[p] /\ nx2[p] = n
        /\ \A x \in Node : x # n /\ x # p => nx2[x] = nx[x]
    BY <1>2, <2>3 DEF Ptr
  <2> HIDE DEF nx2, m
  <2>5. \A j \in 1 .. k : j # i => nx2[s[j]] = nx[s[j]]
    <3> SUFFICES ASSUME NEW j \in 1 .. k, j # i PROVE nx2[s[j]] = nx[s[j]]
      OBVIOUS
    <3>1. s[j] \in Node /\ s[j] # n
      BY <1>2 DEF Elements
    <3>2. s[j] # p
      BY <1>2 DEF Distinct
    <3>3. QED BY <2>4, <3>1, <3>2
  <2>6. Holds(Inserted(s, i, n), IF i = 0 THEN n ELSE h,
              IF i = Len(s) THEN n ELSE t, nx2)
    <3>1. i \in 0 .. Len(s) /\ nx2[n] = At(s, i + 1) /\ (i # 0 => nx2[s[i]] = n)
      BY <1>2, <2>4
    <3>2. QED BY <1>1, <2>5, <3>1, InsertHolds
  <2>7. Holds(Inserted(s, i, n), h, t, nx2)
    BY <2>2, <2>6
  <2>8. p \in Elements(s)
    BY DEF Elements
  <2>9. \A x \in Node \ (Elements(s) \cup {n}) : nx2[x] = nx[x]
    BY <2>4, <2>8
  <2>10. Elements(Inserted(s, i, n)) = Elements(s) \cup {n}
    <3>1. i \in 0 .. Len(s)
      BY <1>2
    <3>2. QED BY <1>2, <3>1, InsertedElements
  <2>11. QED BY <2>1, <2>4, <2>7, <2>9, <2>10 DEF Effect, m
<1>5. QED BY <1>3, <1>4

\* sys_slist_get_not_empty takes the first node.
LEMMA GetEffect ==
  ASSUME NEW s, NEW r, Holds(s, r.head, r.tail, r.next),
         NEW h, NEW t, NEW nx, r = [head |-> h, tail |-> t, next |-> nx],
         nx \in [Node -> Ptr], Len(s) # 0, NEW n
  PROVE  Effect(s, Removed(s, 1), sys_slist_get_not_empty(r), nx, n)
<1> DEFINE k == Len(s)
           m == sys_slist_get_not_empty(r)
<1>1. Holds(s, h, t, nx)
  OBVIOUS
<1>2. m.head = nx[h] /\ m.tail = (IF t = h THEN nx[h] ELSE t) /\ m.next = nx
  BY DEF sys_slist_get_not_empty
<1>3. /\ s \in Seq(Node) /\ Distinct(s) /\ k \in Nat \ {0}
      /\ h = s[1] /\ t = s[k] /\ nx[h] = At(s, 2)
  <2>1. s \in Seq(Node) /\ Distinct(s) /\ Linked(s, nx)
    BY <1>1 DEF Holds
  <2>2. k \in Nat \ {0} /\ h = s[1] /\ t = s[k] /\ 1 \in 1 .. k
    BY <1>1, EndsOf
  <2>3. nx[s[1]] = At(s, 1 + 1)
    BY <2>1, <2>2 DEF Linked
  <2>4. QED BY <2>1, <2>2, <2>3
<1> HIDE DEF m
<1>4. Holds(Removed(s, 1), IF 1 = 1 THEN At(s, 2) ELSE h,
            IF 1 = k THEN At(s, 1 - 1) ELSE t, nx)
  <2>1. 1 \in 1 .. k
    BY <1>3
  <2>2. QED BY <1>1, <2>1, RemoveHolds
<1>5. (IF 1 = k THEN At(s, 1 - 1) ELSE t) = IF t = h THEN nx[h] ELSE t
  <2>1. CASE k = 1
    <3>1. At(s, 0) = NULL /\ At(s, 2) = NULL
      BY <2>1 DEF At, OrEnd
    <3>2. QED BY <1>3, <2>1, <3>1
  <2>2. CASE k # 1
    <3>1. t # h
      <4>1. 1 \in 1 .. k /\ k \in 1 .. k
        BY <1>3
      <4>2. QED BY <1>3, <2>2, <4>1 DEF Distinct
    <3>2. QED BY <2>2, <3>1
  <2>3. QED BY <2>1, <2>2
<1>6. Holds(Removed(s, 1), m.head, m.tail, m.next)
  BY <1>2, <1>3, <1>4, <1>5
<1>7. Elements(Removed(s, 1)) = Elements(s) \ {s[1]}
  <2>1. 1 \in 1 .. Len(s)
    BY <1>3
  <2>2. QED BY <1>3, <2>1, RemovedElements
<1>8. QED BY <1>2, <1>6, <1>7 DEF Effect, m

\* sys_slist_remove takes node, the i-th of the list, out of it; prev_node is
\* the one before.
LEMMA RemoveEffect ==
  ASSUME NEW s, NEW r, Holds(s, r.head, r.tail, r.next),
         NEW h, NEW t, NEW nx, r = [head |-> h, tail |-> t, next |-> nx],
         nx \in [Node -> Ptr], NEW i \in 1 .. Len(s), NEW n,
         NEW p, p = At(s, i - 1)
  PROVE  Effect(s, Removed(s, i), sys_slist_remove(r, p, s[i]), nx, n)
<1> DEFINE k == Len(s)
           d == s[i]
           m == sys_slist_remove(r, p, d)
           nx1 == IF p = NULL THEN nx ELSE [nx EXCEPT ![p] = nx[d]]
           nx2 == [nx1 EXCEPT ![d] = NULL]
<1>1. Holds(s, h, t, nx)
  OBVIOUS
<1>2. /\ m.head = IF p = NULL THEN nx[d] ELSE h
      /\ m.tail = IF t = d THEN (IF p = NULL THEN nx[d] ELSE p) ELSE t
      /\ m.next = nx2
  BY DEF sys_slist_remove, NextSet
<1>3. /\ s \in Seq(Node) /\ Distinct(s) /\ Linked(s, nx) /\ k \in Nat
      /\ Elements(s) \in SUBSET Node
      /\ t = s[k]
      /\ \A j \in 1 .. k : s[j] \in Node /\ s[j] # NULL /\ s[j] \in Elements(s)
      /\ nx[d] = At(s, i + 1)
  <2>1. s \in Seq(Node) /\ Distinct(s) /\ Linked(s, nx)
    BY <1>1 DEF Holds
  <2>2. \A j \in 1 .. k : s[j] \in Node /\ s[j] # NULL /\ s[j] \in Elements(s)
    BY <2>1, NodeAssumption DEF Elements
  <2>3. nx[d] = At(s, i + 1)
    BY <2>1 DEF Linked
  <2>4. k \in Nat /\ k # 0
    BY <2>1
  <2>5. QED BY <1>1, <2>1, <2>2, <2>3, <2>4, EndsOf
<1>4. d \in Node /\ d \in Elements(s) /\ nx[d] \in Ptr
  BY <1>3
<1>5. /\ i = 1 <=> p = NULL
      /\ i # 1 => p = s[i - 1] /\ p \in Node /\ p \in Elements(s) /\ p # d
  <2>1. CASE i = 1
    BY <2>1 DEF At, OrEnd
  <2>2. CASE i # 1
    <3>1. i - 1 \in 1 .. k
      BY <1>3, <2>2
    <3>2. p = s[i - 1]
      BY <3>1 DEF At, OrEnd
    <3>3. p # d
      BY <1>3, <3>1, <3>2 DEF Distinct
    <3>4. QED BY <1>3, <2>2, <3>1, <3>2, <3>3
  <2>3. QED BY <2>1, <2>2
<1>6. /\ nx1 \in [Node -> Ptr]
      /\ p # NULL => nx1[p] = nx[d]
      /\ \A x \in Node : x # p => nx1[x] = nx[x]
  BY <1>4, <1>5
<1> HIDE DEF nx1
<1>7. /\ nx2 \in [Node -> Ptr]
      /\ p # NULL => nx2[p] = nx[d]
      /\ \A x \in Node : x # p /\ x # d => nx2[x] = nx[x]
  BY <1>4, <1>5, <1>6 DEF Ptr
<1> HIDE DEF nx2, m
<1>8. \A j \in 1 .. k : j # i - 1 /\ j # i => nx2[s[j]] = nx[s[j]]
  <2> SUFFICES ASSUME NEW j \in 1 .. k, j # i - 1, j # i PROVE nx2[s[j]] = nx[s[j]]
    OBVIOUS
  <2>1. s[j] # d
    BY <1>3 DEF Distinct
  <2>2. s[j] # p
    <3>1. CASE i = 1
      BY <1>3, <1>5, <3>1
    <3>2. CASE i # 1
      <4>1. i - 1 \in 1 .. k
        BY <1>3, <3>2
      <4>2. QED BY <1>3, <1>5, <3>2, <4>1 DEF Distinct
    <3>3. QED BY <3>1, <3>2
  <2>3. QED BY <1>3, <1>7, <2>1, <2>2
<1>9. Holds(Removed(s, i), IF i = 1 THEN At(s, 2) ELSE h,
            IF i = k THEN At(s, i - 1) ELSE t, nx2)
  <2>1. i # 1 => nx2[s[i - 1]] = At(s, i + 1)
    BY <1>3, <1>5, <1>7
  <2>2. QED BY <1>1, <1>8, <2>1, RemoveHolds
<1>10. m.head = IF i = 1 THEN At(s, 2) ELSE h
  BY <1>2, <1>3, <1>5
<1>11. m.tail = IF i = k THEN At(s, i - 1) ELSE t
  <2>1. t = d <=> i = k
    BY <1>3 DEF Distinct
  <2>2. CASE i = 1 /\ i = k
    <3>1. k = 1
      BY <2>2
    <3>3. At(s, 2) = NULL
      <4> HIDE DEF k
      <4>1. 2 \notin 1 .. k
        BY <3>1
      <4>2. QED BY <4>1 DEF At, OrEnd, k
    <3>2. QED BY <1>2, <1>3, <1>5, <2>1, <2>2, <3>3
  <2>3. CASE ~(i = 1 /\ i = k)
    BY <1>2, <1>5, <2>1, <2>3
  <2>4. QED BY <2>2, <2>3
<1>12. \A x \in Node \ (Elements(s) \cup {n}) : nx2[x] = nx[x]
  BY <1>4, <1>5, <1>7, NodeAssumption
<1>13. Holds(Removed(s, i), m.head, m.tail, m.next)
  BY <1>2, <1>9, <1>10, <1>11
<1>14. Elements(Removed(s, i)) = Elements(s) \ {s[i]}
  BY <1>3, RemovedElements
<1>15. QED BY <1>2, <1>7, <1>12, <1>13, <1>14 DEF Effect, m

-----------------------------------------------------------------------------
(* All lists together.                                                     *)

\* The pointers are lists with the sequences sg, and no node is in two.
Lists(sg, hd, tl, nx) ==
  /\ sg \in [List -> Seq(Node)]
  /\ hd \in [List -> Ptr] /\ tl \in [List -> Ptr] /\ nx \in [Node -> Ptr]
  /\ \A l \in List : Holds(sg[l], hd[l], tl[l], nx)
  /\ \A l, k \in List : l # k => Elements(sg[l]) \cap Elements(sg[k]) = {}

\* Pointers that change outside a list leave it as it is.
LEMMA HoldsElsewhere ==
  ASSUME NEW s, NEW h, NEW t, NEW nx, NEW nx2, Holds(s, h, t, nx),
         \A x \in Elements(s) : nx2[x] = nx[x]
  PROVE  Holds(s, h, t, nx2)
<1>1. \A i \in 1 .. Len(s) : s[i] \in Elements(s)
  BY DEF Elements
<1>2. Linked(s, nx2)
  BY <1>1 DEF Holds, Linked
<1>3. QED BY <1>2 DEF Holds

\* An operation on one list leaves the others as they are.
LEMMA OneListChanges ==
  ASSUME NEW sg, NEW hd, NEW tl, NEW nx, Lists(sg, hd, tl, nx),
         NEW l \in List, NEW s2, NEW m, NEW n, Effect(sg[l], s2, m, nx, n),
         \A k \in List : k # l => n \notin Elements(sg[k])
  PROVE  Lists([sg EXCEPT ![l] = s2], [hd EXCEPT ![l] = m.head],
               [tl EXCEPT ![l] = m.tail], m.next)
<1> DEFINE sg2 == [sg EXCEPT ![l] = s2]
           hd2 == [hd EXCEPT ![l] = m.head]
           tl2 == [tl EXCEPT ![l] = m.tail]
           nx2 == m.next
<1>1. /\ Holds(s2, m.head, m.tail, nx2) /\ nx2 \in [Node -> Ptr]
      /\ \A x \in Node \ (Elements(sg[l]) \cup {n}) : nx2[x] = nx[x]
      /\ Elements(s2) \subseteq Elements(sg[l]) \cup {n}
  BY DEF Effect
<1>2. s2 \in Seq(Node) /\ m.head \in Ptr /\ m.tail \in Ptr
  BY <1>1, EndsOf DEF Holds
<1>3. /\ sg \in [List -> Seq(Node)] /\ hd \in [List -> Ptr] /\ tl \in [List -> Ptr]
      /\ \A k \in List : Holds(sg[k], hd[k], tl[k], nx)
      /\ \A i, k \in List : i # k => Elements(sg[i]) \cap Elements(sg[k]) = {}
  BY DEF Lists
<1>4. /\ sg2 \in [List -> Seq(Node)] /\ hd2 \in [List -> Ptr] /\ tl2 \in [List -> Ptr]
      /\ sg2[l] = s2 /\ hd2[l] = m.head /\ tl2[l] = m.tail
      /\ \A k \in List : k # l => sg2[k] = sg[k] /\ hd2[k] = hd[k] /\ tl2[k] = tl[k]
  BY <1>2, <1>3
<1> HIDE DEF sg2, hd2, tl2, nx2
<1>5. \A k \in List : Holds(sg2[k], hd2[k], tl2[k], nx2)
  <2> SUFFICES ASSUME NEW k \in List, k # l
               PROVE  Holds(sg2[k], hd2[k], tl2[k], nx2)
    BY <1>1, <1>4
  <2>1. Holds(sg[k], hd[k], tl[k], nx)
    BY <1>3
  <2>2. Elements(sg[k]) \in SUBSET Node
    BY <2>1, EndsOf
  <2>3. \A x \in Elements(sg[k]) : nx2[x] = nx[x]
    BY <1>1, <1>3, <2>2
  <2>4. Holds(sg[k], hd[k], tl[k], nx2)
    BY <2>1, <2>3, HoldsElsewhere
  <2>5. QED BY <1>4, <2>4
<1>6. \A i, k \in List : i # k => Elements(sg2[i]) \cap Elements(sg2[k]) = {}
  <2>1. ASSUME NEW k \in List, k # l PROVE Elements(s2) \cap Elements(sg[k]) = {}
    BY <1>1, <1>3, <2>1
  <2>2. QED BY <1>3, <1>4, <2>1
<1>7. Lists(sg2, hd2, tl2, nx2)
  BY <1>1, <1>4, <1>5, <1>6 DEF Lists
<1>8. QED BY <1>7 DEF sg2, hd2, tl2, nx2

\* Walking the lists gives their sequences.
LEMMA WalkLists ==
  ASSUME NEW sg, NEW hd, NEW tl, NEW nx, Lists(sg, hd, tl, nx),
         NEW l \in List, NEW r, r = [head |-> hd[l], tail |-> tl[l], next |-> nx]
  PROVE  Walk(r) = sg[l] /\ Nodes(r) = Elements(sg[l])
<1>1. Holds(sg[l], hd[l], tl[l], nx) /\ nx \in [Node -> Ptr]
  BY DEF Lists
<1>2. r.head = hd[l] /\ r.next = nx
  OBVIOUS
<1>3. Walk(r) = sg[l]
  BY <1>1, <1>2, WalkOfLinked DEF Holds
<1>4. QED BY <1>3 DEF Nodes, Elements

\* One list behind another.
LEMMA JoinHolds ==
  ASSUME NEW s, NEW h, NEW t, NEW u, NEW hu, NEW tu, NEW nx, NEW nx2,
         NEW h2, NEW t2, h2 = IF Len(s) = 0 THEN hu ELSE h,
         t2 = IF Len(u) = 0 THEN t ELSE tu,
         Holds(s, h, t, nx), Holds(u, hu, tu, nx),
         Elements(s) \cap Elements(u) = {},
         Len(s) # 0 => nx2[t] = hu,
         \A x \in Elements(s) \cup Elements(u) : x # t => nx2[x] = nx[x]
  PROVE  Holds(s \o u, h2, t2, nx2)
<1> DEFINE v == s \o u
           a == Len(s)
           b == Len(u)
<1>1. /\ s \in Seq(Node) /\ a \in Nat /\ Distinct(s) /\ h = At(s, 1) /\ t = At(s, a)
      /\ u \in Seq(Node) /\ b \in Nat /\ Distinct(u) /\ hu = At(u, 1) /\ tu = At(u, b)
      /\ \A i \in 1 .. a : nx[s[i]] = At(s, i + 1)
      /\ \A i \in 1 .. b : nx[u[i]] = At(u, i + 1)
  BY DEF Holds, Linked
<1>2. /\ \A i \in 1 .. a : s[i] \in Elements(s)
      /\ \A i \in 1 .. b : u[i] \in Elements(u)
  BY DEF Elements
<1>3. a # 0 => t = s[a] /\ t \in Elements(s)
  BY <1>1, <1>2 DEF At, OrEnd
<1>4. v \in Seq(Node) /\ Len(v) = a + b
  BY <1>1
<1>5. /\ \A i \in 1 .. a : v[i] = s[i]
      /\ \A i \in a + 1 .. a + b : v[i] = u[i - a]
  BY <1>1
<1> HIDE DEF v, a, b
<1>6. \A i \in Int : At(v, i) = IF i =< a THEN At(s, i) ELSE At(u, i - a)
  <2> SUFFICES ASSUME NEW i \in Int
               PROVE  At(v, i) = IF i =< a THEN At(s, i) ELSE At(u, i - a)
    OBVIOUS
  <2>1. CASE i =< a
    BY <1>1, <1>4, <1>5, <2>1 DEF At, OrEnd, a
  <2>2. CASE i > a
    BY <1>1, <1>4, <1>5, <2>2 DEF At, OrEnd, b
  <2>3. QED BY <1>1, <2>1, <2>2
<1>7. Distinct(v)
  <2> SUFFICES \A i, j \in 1 .. a + b : i < j => v[i] # v[j]
    BY <1>1, <1>4 DEF Distinct
  <2> SUFFICES ASSUME NEW i \in 1 .. a + b, NEW j \in 1 .. a + b, v[i] = v[j], i < j
               PROVE  FALSE
    OBVIOUS
  <2>1. CASE j =< a
    <3>1. i \in 1 .. a /\ j \in 1 .. a
      BY <1>1, <2>1
    <3>2. s[i] = s[j]
      BY <1>5, <3>1
    <3>3. QED BY <1>1, <3>1, <3>2 DEF Distinct, a
  <2>2. CASE i =< a /\ j > a
    <3>1. i \in 1 .. a /\ j \in a + 1 .. a + b /\ j - a \in 1 .. b
      BY <1>1, <2>2
    <3>2. s[i] = u[j - a]
      BY <1>5, <3>1
    <3>3. QED BY <1>2, <3>1, <3>2
  <2>3. CASE i > a
    <3>1. /\ i \in a + 1 .. a + b /\ j \in a + 1 .. a + b
          /\ i - a \in 1 .. b /\ j - a \in 1 .. b
      BY <1>1, <2>3
    <3>2. u[i - a] = u[j - a]
      BY <1>5, <3>1
    <3>3. i - a = j - a
      BY <1>1, <3>1, <3>2 DEF Distinct, b
    <3>4. QED BY <1>1, <3>3
  <2>4. QED BY <1>1, <2>1, <2>2, <2>3
<1>8. Linked(v, nx2)
  <2> SUFFICES ASSUME NEW i \in 1 .. a + b PROVE nx2[v[i]] = At(v, i + 1)
    BY <1>4 DEF Linked
  <2>1. CASE i < a
    <3>1. i \in 1 .. a /\ a \in 1 .. a /\ i + 1 =< a /\ i + 1 \in Int /\ a # 0
      BY <1>1, <2>1
    <3>2. s[i] # t
      BY <1>1, <1>3, <2>1, <3>1 DEF Distinct, a
    <3>3. QED BY <1>1, <1>2, <1>5, <1>6, <3>1, <3>2
  <2>2. CASE i = a
    <3>1. a # 0 /\ a \in 1 .. a /\ ~(a + 1 =< a) /\ (a + 1) - a = 1 /\ a + 1 \in Int
      BY <1>1, <2>2
    <3>2. v[a] = t /\ At(v, a + 1) = hu
      BY <1>1, <1>3, <1>5, <1>6, <3>1
    <3>3. QED BY <2>2, <3>1, <3>2 DEF a
  <2>3. CASE i > a
    <3>1. /\ i \in a + 1 .. a + b /\ i - a \in 1 .. b
          /\ ~(i + 1 =< a) /\ i + 1 \in Int /\ (i + 1) - a = (i - a) + 1
      BY <1>1, <2>3
    <3>2. v[i] = u[i - a] /\ At(v, i + 1) = At(u, (i - a) + 1)
      BY <1>5, <1>6, <3>1
    <3>3. u[i - a] # t
      <4>1. u[i - a] \in Elements(u) /\ u[i - a] # NULL
        BY <1>1, <1>2, <3>1, NodeAssumption DEF b
      <4>2. a = 0 => t = NULL
        BY <1>1 DEF At, OrEnd, a
      <4>3. QED BY <1>3, <4>1, <4>2
    <3>4. QED BY <1>1, <1>2, <3>1, <3>2, <3>3
  <2>4. QED BY <1>1, <2>1, <2>2, <2>3
<1>9. At(v, 1) = IF a = 0 THEN hu ELSE h
  BY <1>1, <1>6
<1>10. At(v, a + b) = IF b = 0 THEN t ELSE tu
  <2>1. a + b \in Int /\ (a + b) - a = b /\ (a + b =< a <=> b = 0) /\ (b = 0 => a + b = a)
    BY <1>1
  <2>2. QED BY <1>1, <1>6, <2>1
<1>11. QED BY <1>4, <1>7, <1>8, <1>9, <1>10 DEF Holds, v, a, b

\* The nodes of two lists that are joined.
LEMMA JoinElements ==
  ASSUME NEW s \in Seq(Node), NEW u \in Seq(Node)
  PROVE  Elements(s \o u) = Elements(s) \cup Elements(u)
<1> DEFINE v == s \o u
           a == Len(s)
           b == Len(u)
<1>1. a \in Nat /\ b \in Nat
  OBVIOUS
<1>2. /\ \A i \in 1 .. a : s[i] \in Elements(s)
      /\ \A i \in 1 .. b : u[i] \in Elements(u)
  BY DEF Elements
<1>4. Len(v) = a + b
  OBVIOUS
<1>5. /\ \A i \in 1 .. a : v[i] = s[i]
      /\ \A i \in a + 1 .. a + b : v[i] = u[i - a]
  BY <1>1
<1> HIDE DEF v, a, b
<1>6. \A i \in 1 .. a + b : v[i] \in Elements(s) \cup Elements(u)
  <2> SUFFICES ASSUME NEW i \in 1 .. a + b
               PROVE  v[i] \in Elements(s) \cup Elements(u)
    OBVIOUS
  <2>1. CASE i =< a
    BY <1>1, <1>2, <1>5, <2>1
  <2>2. CASE i > a
    <3>1. i \in a + 1 .. a + b /\ i - a \in 1 .. b
      BY <1>1, <2>2
    <3>2. QED BY <1>2, <1>5, <3>1
  <2>3. QED BY <1>1, <2>1, <2>2
<1>7. \A i \in 1 .. a : s[i] \in Elements(v)
  <2> SUFFICES ASSUME NEW i \in 1 .. a PROVE s[i] \in Elements(v)
    OBVIOUS
  <2>1. i \in 1 .. a + b /\ v[i] = s[i]
    BY <1>1, <1>5
  <2>2. QED BY <1>4, <2>1 DEF Elements
<1>8. \A i \in 1 .. b : u[i] \in Elements(v)
  <2> SUFFICES ASSUME NEW i \in 1 .. b PROVE u[i] \in Elements(v)
    OBVIOUS
  <2>1. i + a \in a + 1 .. a + b /\ i + a \in 1 .. a + b /\ (i + a) - a = i
    BY <1>1
  <2>2. v[i + a] = u[i]
    BY <1>5, <2>1
  <2>3. QED BY <1>4, <2>1, <2>2 DEF Elements
<1>9. Elements(v) \subseteq Elements(s) \cup Elements(u)
  BY <1>4, <1>6 DEF Elements
<1>10. Elements(s) \subseteq Elements(v)
  BY <1>7 DEF Elements, a
<1>11. Elements(u) \subseteq Elements(v)
  BY <1>8 DEF Elements, b
<1>12. QED BY <1>9, <1>10, <1>11 DEF v

\* sys_slist_merge_slist puts one list behind another and empties it.
LEMMA MergeLists ==
  ASSUME NEW sg, NEW hd, NEW tl, NEW nx, Lists(sg, hd, tl, nx),
         NEW l \in List, NEW k \in List, l # k, NEW r, NEW m,
         r = [head |-> hd[l], tail |-> tl[l], next |-> nx],
         m = sys_slist_append_list(r, hd[k], tl[k])
  PROVE  Lists([sg EXCEPT ![l] = sg[l] \o sg[k], ![k] = << >>],
               [hd EXCEPT ![l] = m.head, ![k] = NULL],
               [tl EXCEPT ![l] = m.tail, ![k] = NULL], m.next)
<1> DEFINE s == sg[l]
           h == hd[l]
           t == tl[l]
           u == sg[k]
           hu == hd[k]
           tu == tl[k]
           v == s \o u
           nx2 == m.next
           h2 == m.head
           t2 == m.tail
           sg2 == [sg EXCEPT ![l] = v, ![k] = << >>]
           hd2 == [hd EXCEPT ![l] = h2, ![k] = NULL]
           tl2 == [tl EXCEPT ![l] = t2, ![k] = NULL]
<1>1. /\ sg \in [List -> Seq(Node)] /\ hd \in [List -> Ptr] /\ tl \in [List -> Ptr]
      /\ nx \in [Node -> Ptr]
      /\ \A i \in List : Holds(sg[i], hd[i], tl[i], nx)
      /\ \A i, j \in List : i # j => Elements(sg[i]) \cap Elements(sg[j]) = {}
  BY DEF Lists
<1>2. Holds(s, h, t, nx) /\ Holds(u, hu, tu, nx) /\ Elements(s) \cap Elements(u) = {}
  BY <1>1
<1>3. /\ h \in Ptr /\ t \in Ptr /\ hu \in Ptr /\ tu \in Ptr
      /\ h = NULL <=> Len(s) = 0
      /\ t = NULL <=> Len(s) = 0
      /\ hu = NULL <=> Len(u) = 0
      /\ tu = NULL <=> Len(u) = 0
      /\ Len(s) # 0 => nx[t] = NULL
      /\ Elements(s) \in SUBSET Node /\ Elements(u) \in SUBSET Node
  BY <1>2, EndsOf
<1>10. Len(s) # 0 => t \in Elements(s)
  <2>1. Len(s) # 0 => t = s[Len(s)] /\ Len(s) \in Nat
    BY <1>2, EndsOf
  <2>2. QED BY <2>1 DEF Elements
<1>4. /\ h2 = IF Len(s) = 0 THEN hu ELSE h
      /\ t2 = IF Len(u) = 0 THEN t ELSE tu
      /\ nx2 \in [Node -> Ptr]
      /\ Len(s) # 0 => nx2[t] = hu
      /\ \A x \in Node : x \notin Elements(s) \/ x # t => nx2[x] = nx[x]
  <2>0. r.head = h /\ r.tail = t /\ r.next = nx
    OBVIOUS
  <2>1. CASE Len(u) = 0
    <3>1. m = r
      BY <1>3, <2>1, Zenon DEF sys_slist_append_list
    <3>2. QED BY <1>1, <1>3, <2>0, <2>1, <3>1
  <2>2. CASE Len(u) # 0 /\ Len(s) = 0
    <3>1. m = [r EXCEPT !.head = hu, !.tail = tu]
      BY <1>3, <2>0, <2>2, Zenon DEF sys_slist_append_list
    <3>2. h2 = hu /\ t2 = tu /\ nx2 = nx
      BY <3>1
    <3>3. QED BY <1>1, <2>2, <3>2
  <2>3. CASE Len(u) # 0 /\ Len(s) # 0
    <3>1. m = [NextSet(r, t, hu) EXCEPT !.tail = tu]
      BY <1>3, <2>0, <2>3, Zenon DEF sys_slist_append_list
    <3>2. h2 = h /\ t2 = tu /\ nx2 = [nx EXCEPT ![t] = hu]
      BY <3>1 DEF NextSet
    <3>3. t \in Node
      BY <1>3, <1>10, <2>3
    <3> HIDE DEF t, hu, h2, t2, nx2
    <3>4. /\ nx2 \in [Node -> Ptr] /\ nx2[t] = hu
          /\ \A x \in Node : x # t => nx2[x] = nx[x]
      BY <1>1, <1>3, <3>2, <3>3
    <3>5. QED BY <1>10, <2>3, <3>2, <3>4
  <2>4. QED BY <2>1, <2>2, <2>3
<1> HIDE DEF s, h, t, u, hu, tu, h2, t2, nx2
<1>5. Holds(v, h2, t2, nx2) /\ Elements(v) = Elements(s) \cup Elements(u)
  <2>1. \A x \in Elements(s) \cup Elements(u) : x # t => nx2[x] = nx[x]
    BY <1>3, <1>4
  <2>2. Len(s) # 0 => nx2[t] = hu
    BY <1>4
  <2>3. h2 = (IF Len(s) = 0 THEN hu ELSE h) /\ t2 = IF Len(u) = 0 THEN t ELSE tu
    BY <1>4
  <2>4. Holds(v, h2, t2, nx2)
    BY <1>2, <2>1, <2>2, <2>3, JoinHolds
  <2>5. Elements(v) = Elements(s) \cup Elements(u)
    BY <1>2, JoinElements DEF Holds
  <2>6. QED BY <2>4, <2>5
<1> HIDE DEF v
<1>6. Holds(<< >>, NULL, NULL, nx2) /\ Elements(<< >>) = {}
  BY DEF Holds, Distinct, Linked, At, OrEnd, Elements
<1>7. /\ sg2 \in [List -> Seq(Node)] /\ hd2 \in [List -> Ptr] /\ tl2 \in [List -> Ptr]
      /\ sg2[l] = v /\ hd2[l] = h2 /\ tl2[l] = t2
      /\ sg2[k] = << >> /\ hd2[k] = NULL /\ tl2[k] = NULL
      /\ \A i \in List : i # l /\ i # k =>
           sg2[i] = sg[i] /\ hd2[i] = hd[i] /\ tl2[i] = tl[i]
  <2>1. v \in Seq(Node) /\ << >> \in Seq(Node) /\ NULL \in Ptr
    BY <1>5 DEF Holds, Ptr
  <2>2. h2 \in Ptr /\ t2 \in Ptr
    BY <1>3, <1>4
  <2>3. QED BY <1>1, <2>1, <2>2
<1> HIDE DEF sg2, hd2, tl2
<1>8. \A i \in List : Holds(sg2[i], hd2[i], tl2[i], nx2)
  <2> SUFFICES ASSUME NEW i \in List, i # l, i # k
               PROVE  Holds(sg2[i], hd2[i], tl2[i], nx2)
    BY <1>5, <1>6, <1>7
  <2>1. Holds(sg[i], hd[i], tl[i], nx)
    BY <1>1
  <2>2. Elements(sg[i]) \in SUBSET Node
    BY <2>1, EndsOf
  <2>3. Elements(sg[i]) \cap Elements(s) = {}
    BY <1>1 DEF s
  <2>4. \A x \in Elements(sg[i]) : nx2[x] = nx[x]
    BY <1>4, <2>2, <2>3
  <2>5. Holds(sg[i], hd[i], tl[i], nx2)
    BY <2>1, <2>4, HoldsElsewhere
  <2>6. QED BY <1>7, <2>5
<1>9. \A i, j \in List : i # j => Elements(sg2[i]) \cap Elements(sg2[j]) = {}
  <2>1. \A i \in List : i # l /\ i # k => Elements(v) \cap Elements(sg[i]) = {}
    BY <1>1, <1>5 DEF s, u
  <2>2. QED BY <1>1, <1>6, <1>7, <2>1
<1>11. Lists(sg2, hd2, tl2, nx2)
  BY <1>4, <1>7, <1>8, <1>9 DEF Lists
<1>12. QED BY <1>11 DEF sg2, hd2, tl2, nx2, h2, t2, v, s, u

-----------------------------------------------------------------------------
(* The program with its lists.                                             *)

\* The lists are the sequences that a traversal meets, no node is in two.
ListsInv == Lists(Walks, heads, tails, next)

\* The sequences of the lists are the traversals.
LEMMA ListsAre ==
  ASSUME NEW sg, Lists(sg, heads, tails, next)
  PROVE  Walks = sg
<1>1. \A l \in List : Walk(L(l)) = sg[l]
  BY WalkLists DEF L
<1>2. sg = [l \in List |-> sg[l]]
  BY DEF Lists
<1>3. QED BY <1>1, <1>2 DEF Walks

\* The same after a step.
LEMMA ListsAreThen ==
  ASSUME NEW sg, Lists(sg, heads', tails', next')
  PROVE  Walks' = sg /\ ListsInv'
<1>1. \A l \in List : Walk(L(l)') = sg[l]
  BY WalkLists DEF L
<1>2. sg = [l \in List |-> sg[l]]
  BY DEF Lists
<1>3. Walks' = [l \in List |-> Walk(L(l)')]
  BY DEF Walks, Walk
<1>4. Walks' = sg
  BY <1>1, <1>2, <1>3
<1>5. QED BY <1>4 DEF ListsInv

\* One list of the program, in the terms of the lemmas above.
LEMMA FreeIs ==
  ASSUME ListsInv, NEW l \in List
  PROVE  /\ Nodes(L(l)) = Elements(Walks[l])
         /\ Walk(L(l)) = Walks[l]
         /\ L(l).head = heads[l] /\ L(l).tail = tails[l] /\ L(l).next = next
         /\ Holds(Walks[l], heads[l], tails[l], next) /\ next \in [Node -> Ptr]
<1>1. Walk(L(l)) = Walks[l]
  BY DEF Walks
<1>2. Nodes(L(l)) = Elements(Walks[l])
  BY <1>1 DEF Nodes, Elements
<1>3. L(l).head = heads[l] /\ L(l).tail = tails[l] /\ L(l).next = next
  BY DEF L
<1>4. QED BY <1>1, <1>2, <1>3 DEF ListsInv, Lists

\* What an operation on one list makes of all of them.
LEMMA Operation ==
  ASSUME ListsInv, NEW l \in List, NEW n, NEW s2, NEW m,
         Effect(Walks[l], s2, m, next, n),
         \A k \in List : k # l => n \notin Elements(Walks[k]),
         Becomes(l, m)
  PROVE  Walks' = [Walks EXCEPT ![l] = s2] /\ ListsInv'
<1>1. Lists([Walks EXCEPT ![l] = s2], heads', tails', next')
  BY OneListChanges DEF ListsInv, Becomes
<1>2. QED BY <1>1, ListsAreThen

\* A node that no traversal meets is in no list.
LEMMA Added ==
  ASSUME ListsInv, NEW n \in Node, Free(n)
  PROVE  /\ \A k \in List : n \notin Elements(Walks[k])
         /\ AbstractSlist!Free(n)
<1>1. \A k \in List : n \notin Elements(Walks[k])
  BY FreeIs DEF Free
<1>2. QED BY <1>1 DEF AbstractSlist!Free, AbstractSlist!Elems, Elements

\* The invariant and the refinement, for an append.
LEMMA RefineAppend ==
  ASSUME ListsInv, NEW l \in List, NEW n \in Node, DoAppend(l, n)
  PROVE  ListsInv' /\ AbstractSlist!Append1(l, n)
<1> DEFINE s == Walks[l]
<1>1. /\ Holds(s, L(l).head, L(l).tail, L(l).next) /\ next \in [Node -> Ptr]
      /\ s \in Seq(Node)
  BY FreeIs DEF Holds
<1>2. Free(n) /\ Becomes(l, sys_slist_append(L(l), n)) /\ last' = <<"append", l, n>>
  BY DEF DoAppend
<1>3. (\A k \in List : n \notin Elements(Walks[k])) /\ AbstractSlist!Free(n)
  BY <1>2, Added
<1>4. Effect(s, Inserted(s, Len(s), n), sys_slist_append(L(l), n), next, n)
  BY <1>1, <1>3, AppendEffect DEF L
<1>5. Walks' = [Walks EXCEPT ![l] = Inserted(s, Len(s), n)] /\ ListsInv'
  BY <1>2, <1>3, <1>4, Operation
<1>6. Append(s, n) = Inserted(s, Len(s), n)
  BY <1>1, AppendIsInserted
<1>7. QED BY <1>2, <1>3, <1>5, <1>6 DEF AbstractSlist!Append1

\* The invariant and the refinement, for a prepend.
LEMMA RefinePrepend ==
  ASSUME ListsInv, NEW l \in List, NEW n \in Node, DoPrepend(l, n)
  PROVE  ListsInv' /\ AbstractSlist!Prepend(l, n)
<1> DEFINE s == Walks[l]
<1>1. /\ Holds(s, L(l).head, L(l).tail, L(l).next) /\ next \in [Node -> Ptr]
      /\ s \in Seq(Node)
  BY FreeIs DEF Holds
<1>2. Free(n) /\ Becomes(l, sys_slist_prepend(L(l), n)) /\ last' = <<"prepend", l, n>>
  BY DEF DoPrepend
<1>3. (\A k \in List : n \notin Elements(Walks[k])) /\ AbstractSlist!Free(n)
  BY <1>2, Added
<1>4. Effect(s, Inserted(s, 0, n), sys_slist_prepend(L(l), n), next, n)
  BY <1>1, <1>3, PrependEffect DEF L
<1>5. Walks' = [Walks EXCEPT ![l] = Inserted(s, 0, n)] /\ ListsInv'
  BY <1>2, <1>3, <1>4, Operation
<1>6. <<n>> \o s = Inserted(s, 0, n)
  BY <1>1, AppendIsInserted
<1>7. QED BY <1>2, <1>3, <1>5, <1>6 DEF AbstractSlist!Prepend

\* The invariant and the refinement, for an insert.
LEMMA RefineInsert ==
  ASSUME ListsInv, NEW l \in List, NEW n \in Node, NEW before \in Nodes(L(l)),
         DoInsert(l, before, n)
  PROVE  ListsInv' /\ before \in Node /\ AbstractSlist!InsertAfter(l, before, n)
<1> DEFINE s == Walks[l]
<1>1. /\ Holds(s, L(l).head, L(l).tail, L(l).next) /\ next \in [Node -> Ptr]
      /\ s \in Seq(Node)
  BY FreeIs DEF Holds
<1>2. /\ Free(n) /\ Becomes(l, sys_slist_insert(L(l), before, n))
      /\ last' = <<"insert", l, before, n>>
  BY DEF DoInsert
<1>3. (\A k \in List : n \notin Elements(Walks[k])) /\ AbstractSlist!Free(n)
  BY <1>2, Added
<1>4. PICK i \in 1 .. Len(s) : s[i] = before
  BY FreeIs DEF Elements
<1>5. Effect(s, Inserted(s, i, n), sys_slist_insert(L(l), s[i], n), next, n)
  BY <1>1, <1>3, InsertEffect DEF L
<1>6. Walks' = [Walks EXCEPT ![l] = Inserted(s, i, n)] /\ ListsInv'
  BY <1>2, <1>3, <1>4, <1>5, Operation
<1>7. AbstractSlist!Insert(l, i, n)
  BY <1>3, <1>6 DEF AbstractSlist!Insert, Inserted
<1>8. before \in Node
  BY <1>1, <1>4
<1>9. QED BY <1>2, <1>4, <1>6, <1>7, <1>8 DEF AbstractSlist!InsertAfter

\* The invariant and the refinement, for a get.
LEMMA RefineGet ==
  ASSUME ListsInv, NEW l \in List, sys_slist_get(l)
  PROVE  /\ ListsInv'
         /\ \E result \in Node \union {NULL} : AbstractSlist!Get(l, result)
<1> DEFINE s == Walks[l]
<1>1. /\ Holds(s, L(l).head, L(l).tail, L(l).next) /\ next \in [Node -> Ptr]
      /\ s \in Seq(Node) /\ L(l).head = heads[l]
  BY FreeIs DEF Holds
<1>2. /\ heads[l] = NULL <=> Len(s) = 0
      /\ Len(s) # 0 => heads[l] = s[1]
      /\ heads[l] \in Node \union {NULL}
  BY <1>1, EndsOf DEF Ptr
<1>3. CASE heads[l] = NULL
  <2>1. last' = <<"get", l, NULL>> /\ UNCHANGED <<heads, tails, next>>
    BY <1>1, <1>3, Zenon DEF sys_slist_get, sys_slist_is_empty
  <2>2. Walks' = Walks /\ ListsInv'
    BY <2>1, ListsAreThen DEF ListsInv
  <2>3. s = << >>
    BY <1>1, <1>2, <1>3
  <2>4. AbstractSlist!Get(l, NULL)
    BY <2>1, <2>2, <2>3 DEF AbstractSlist!Get
  <2>5. QED BY <2>2, <2>4
<1>4. CASE heads[l] # NULL
  <2>1. last' = <<"get", l, heads[l]>> /\ Becomes(l, sys_slist_get_not_empty(L(l)))
    BY <1>1, <1>4, Zenon DEF sys_slist_get, sys_slist_is_empty
  <2>2. Effect(s, Removed(s, 1), sys_slist_get_not_empty(L(l)), next, NULL)
    BY <1>1, <1>2, <1>4, GetEffect DEF L
  <2>3. \A k \in List : NULL \notin Elements(Walks[k])
    BY FreeIs, EndsOf, NodeAssumption
  <2>4. Walks' = [Walks EXCEPT ![l] = Removed(s, 1)] /\ ListsInv'
    BY <2>1, <2>2, <2>3, Operation
  <2>5. s # << >> /\ Head(s) = heads[l] /\ Tail(s) = Removed(s, 1)
    <3>1. s \in Seq(Node) /\ Len(s) # 0 /\ heads[l] = s[1]
      BY <1>1, <1>2, <1>4
    <3> HIDE DEF s
    <3>2. Tail(s) = Removed(s, 1)
      BY <3>1, TailIsRemoved
    <3>3. s # << >>
      BY <3>1
    <3>4. QED BY <3>1, <3>2, <3>3
  <2>6. AbstractSlist!Get(l, heads[l])
    BY <2>1, <2>4, <2>5 DEF AbstractSlist!Get
  <2>7. QED BY <1>2, <2>4, <2>6
<1>5. QED BY <1>3, <1>4

\* The loop of find_and_remove has kept the node before the one it found.
LEMMA PrevIs ==
  ASSUME NEW r, Walk(r) \in Seq(Node), Distinct(Walk(r)),
         NEW i \in 1 .. Len(Walk(r))
  PROVE  PrevOf(r, Walk(r)[i]) = At(Walk(r), i - 1)
<1> DEFINE s == Walk(r)
           c == CHOOSE k \in 1 .. Len(s) :
                  s[k] = s[i] /\ \A j \in 1 .. k - 1 : s[j] # s[i]
<1>1. \A j \in 1 .. i - 1 : s[j] # s[i]
  BY DEF Distinct
<1>2. c \in 1 .. Len(s) /\ s[c] = s[i]
  BY <1>1, Zenon
<1>4. PrevOf(r, s[i]) = IF c = 1 THEN NULL ELSE s[c - 1]
  BY DEF PrevOf
<1> HIDE DEF c
<1>3. c = i
  BY <1>2 DEF Distinct
<1>5. At(s, i - 1) = IF i = 1 THEN NULL ELSE s[i - 1]
  BY DEF At, OrEnd
<1>6. QED BY <1>3, <1>4, <1>5

\* The invariant and the refinement, for a find_and_remove.
LEMMA RefineFindAndRemove ==
  ASSUME ListsInv, NEW l \in List, NEW n \in Node, DoFindAndRemove(l, n)
  PROVE  /\ ListsInv'
         /\ \E found \in BOOLEAN : AbstractSlist!FindAndRemove(l, n, found)
<1> DEFINE s == Walks[l]
           found == n \in Nodes(L(l))
           m == sys_slist_find_and_remove(L(l), n)
<1>1. /\ Holds(s, L(l).head, L(l).tail, L(l).next) /\ next \in [Node -> Ptr]
      /\ s \in Seq(Node) /\ Distinct(s) /\ Walk(L(l)) = s
      /\ Nodes(L(l)) = Elements(s)
  BY FreeIs DEF Holds
<1>2. /\ Free(n) \/ found
      /\ Becomes(l, m)
      /\ last' = <<"find_and_remove", l, n, found>>
      /\ found \in BOOLEAN
  BY DEF DoFindAndRemove
<1>3. CASE found
  <2>1. PICK i \in 1 .. Len(s) : s[i] = n
    BY <1>1, <1>3 DEF Elements
  <2>2. PrevOf(L(l), s[i]) = At(s, i - 1)
    <3>1. PrevOf(L(l), Walk(L(l))[i]) = At(Walk(L(l)), i - 1)
      BY <1>1, PrevIs
    <3>2. QED BY <1>1, <3>1
  <2>3. m = sys_slist_remove(L(l), At(s, i - 1), s[i])
    BY <1>3, <2>1, <2>2, Zenon DEF sys_slist_find_and_remove
  <2>4. Effect(s, Removed(s, i), m, next, NULL)
    BY <1>1, <2>3, RemoveEffect DEF L
  <2>5. \A k \in List : NULL \notin Elements(Walks[k])
    BY FreeIs, EndsOf, NodeAssumption
  <2> HIDE DEF m
  <2>6. Walks' = [Walks EXCEPT ![l] = Removed(s, i)] /\ ListsInv'
    BY <1>2, <2>4, <2>5, Operation
  <2>7. AbstractSlist!Delete(l, n)
    BY <2>1, <2>6 DEF AbstractSlist!Delete, Removed
  <2>8. QED BY <1>2, <1>3, <2>6, <2>7 DEF AbstractSlist!FindAndRemove
<1>4. CASE ~found
  <2>1. m = L(l)
    BY <1>4, Zenon DEF sys_slist_find_and_remove
  <2>2. heads' = heads /\ tails' = tails /\ next' = next
    BY <1>2, <2>1 DEF Becomes, L, ListsInv, Lists
  <2>3. Walks' = Walks /\ ListsInv'
    BY <2>2, ListsAreThen DEF ListsInv
  <2>4. AbstractSlist!Free(n)
    BY <1>2, <1>4, Added
  <2>5. QED BY <1>2, <1>4, <2>3, <2>4 DEF AbstractSlist!FindAndRemove
<1>5. QED BY <1>3, <1>4

\* The invariant and the refinement, for a merge.
LEMMA RefineMerge ==
  ASSUME ListsInv, NEW l \in List, NEW k \in List, sys_slist_merge_slist(l, k)
  PROVE  ListsInv' /\ AbstractSlist!Merge(l, k)
<1> DEFINE m == sys_slist_append_list(L(l), heads[k], tails[k])
           sg2 == [Walks EXCEPT ![l] = Walks[l] \o Walks[k], ![k] = << >>]
<1>1. /\ l # k
      /\ heads' = [heads EXCEPT ![l] = m.head, ![k] = NULL]
      /\ tails' = [tails EXCEPT ![l] = m.tail, ![k] = NULL]
      /\ next' = m.next
      /\ last' = <<"merge", l, k>>
  BY DEF sys_slist_merge_slist
<1>2. Lists(sg2, heads', tails', next')
  BY <1>1, MergeLists DEF ListsInv, L
<1>3. Walks' = sg2 /\ ListsInv'
  BY <1>2, ListsAreThen
<1>4. QED BY <1>1, <1>3 DEF AbstractSlist!Merge

\* Static lists are empty, and so are their sequences.
LEMMA RefineInit ==
  ASSUME SlistInit
  PROVE  ListsInv /\ AbstractSlist!Init
<1> DEFINE sg == [l \in List |-> << >>]
<1>1. Holds(<< >>, NULL, NULL, next) /\ Elements(<< >>) = {}
  BY DEF Holds, Distinct, Linked, At, OrEnd, Elements
<1>2. sg \in [List -> Seq(Node)]
  OBVIOUS
<1>3. heads \in [List -> Ptr] /\ tails \in [List -> Ptr] /\ next \in [Node -> Ptr]
  BY DEF SlistInit, Ptr
<1>4. \A l \in List : sg[l] = << >> /\ heads[l] = NULL /\ tails[l] = NULL
  BY DEF SlistInit
<1> HIDE DEF sg
<1>5. Lists(sg, heads, tails, next)
  BY <1>1, <1>2, <1>3, <1>4 DEF Lists
<1>6. Walks = sg
  BY <1>5, ListsAre
<1>7. QED BY <1>5, <1>6 DEF ListsInv, AbstractSlist!Init, SlistInit, sg

\* The step of the sequences.
AbstractNext ==
  \E l \in List : AbstractSlist!Common(l) \/ AbstractSlist!Singly(l)

\* A step of the program is a step of the sequences.
LEMMA RefineNext ==
  ASSUME ListsInv, [SlistNext]_slistVars
  PROVE  ListsInv' /\ [AbstractNext]_(AbstractSlist!vars)
<1>1. ASSUME NEW l \in List, NEW n \in Node, DoAppend(l, n)
      PROVE  ListsInv' /\ AbstractSlist!Common(l)
  BY <1>1, RefineAppend DEF AbstractSlist!Common
<1>2. ASSUME NEW l \in List, NEW n \in Node, DoPrepend(l, n)
      PROVE  ListsInv' /\ AbstractSlist!Common(l)
  BY <1>2, RefinePrepend DEF AbstractSlist!Common
<1>3. ASSUME NEW l \in List, NEW n \in Node, DoFindAndRemove(l, n)
      PROVE  ListsInv' /\ AbstractSlist!Singly(l)
  BY <1>3, RefineFindAndRemove DEF AbstractSlist!Singly
<1>4. ASSUME NEW l \in List, NEW n \in Node, NEW before \in Nodes(L(l)),
             DoInsert(l, before, n)
      PROVE  ListsInv' /\ AbstractSlist!Singly(l)
  BY <1>4, RefineInsert DEF AbstractSlist!Singly
<1>5. ASSUME NEW l \in List, sys_slist_get(l)
      PROVE  ListsInv' /\ AbstractSlist!Common(l)
  BY <1>5, RefineGet DEF AbstractSlist!Common
<1>6. ASSUME NEW l \in List, NEW k \in List, sys_slist_merge_slist(l, k)
      PROVE  ListsInv' /\ AbstractSlist!Singly(l)
  BY <1>6, RefineMerge DEF AbstractSlist!Singly
<1>7. CASE UNCHANGED slistVars
  <2>1. heads' = heads /\ tails' = tails /\ next' = next /\ last' = last
    BY <1>7 DEF slistVars
  <2>2. Walks' = Walks /\ ListsInv'
    BY <2>1, ListsAreThen DEF ListsInv
  <2>3. QED BY <2>1, <2>2 DEF AbstractSlist!vars
<1>8. CASE SlistNext
  BY <1>1, <1>2, <1>3, <1>4, <1>5, <1>6, <1>8, Zenon DEF SlistNext, AbstractNext
<1>9. QED BY <1>7, <1>8

(***************************************************************************)
(* The pointer operations of include/sys/list_gen.h implement sequences:   *)
(* for every finite set of nodes and every set of lists, each operation    *)
(* has on the traversed order the effect and the result of its abstract    *)
(* counterpart, whatever stale pointers the other nodes keep.              *)
(***************************************************************************)
THEOREM ListsAreSequences == SlistSpec => ImplementsLists
<1>1. SlistInit => ListsInv /\ AbstractSlist!Init
  BY RefineInit
<1>2. ListsInv /\ [SlistNext]_slistVars =>
        ListsInv' /\ [AbstractNext]_(AbstractSlist!vars)
  BY RefineNext
<1>3. QED
  BY <1>1, <1>2, PTL
     DEF SlistSpec, ImplementsLists, AbstractSlist!SinglySpec, AbstractNext

(***************************************************************************)
(* After any calls the tail pointer of every list is the last node that a  *)
(* traversal meets, and NULL when there is none (list_gen.h:95-111).       *)
(***************************************************************************)
THEOREM TailAtLastNode == SlistSpec => []TailIsLast
<1>1. SlistInit => ListsInv
  BY RefineInit
<1>2. ListsInv /\ [SlistNext]_slistVars => ListsInv'
  BY RefineNext
<1>3. ListsInv => TailIsLast
  <2> SUFFICES ASSUME ListsInv, NEW l \in List
               PROVE  tails[l] = IF Walk(L(l)) = << >> THEN NULL
                                 ELSE Walk(L(l))[Len(Walk(L(l)))]
    BY DEF TailIsLast
  <2> DEFINE w == Walk(L(l))
  <2>1. Holds(w, heads[l], tails[l], next) /\ w \in Seq(Node)
    BY FreeIs DEF Holds
  <2> HIDE DEF w
  <2>2. (tails[l] = NULL <=> Len(w) = 0) /\ (Len(w) # 0 => tails[l] = w[Len(w)])
    BY <2>1, EndsOf
  <2>3. w = << >> <=> Len(w) = 0
    BY <2>1
  <2>4. QED BY <2>2, <2>3 DEF w
<1>4. QED BY <1>1, <1>2, <1>3, PTL DEF SlistSpec

-----------------------------------------------------------------------------
(***************************************************************************)
(* The callbacks of a GPIO port.  Between any two stores of the thread the *)
(* list is a sequence of distinct nodes; the thread's locals and the       *)
(* handler's are positions in it, and what the thread has still to store   *)
(* is all that the list and the registrations differ by.                   *)
(***************************************************************************)

\* s is the list of callbacks: a handler that starts now meets it.
Reached(s) ==
  /\ cbs \in [head : Ptr, tail : Ptr, next : [Node -> Ptr]]
  /\ Holds(s, cbs.head, At(s, Len(s)), cbs.next)

\* The list is what its users think it is, its tail included.
Settled(s) == Elements(s) = registered /\ cbs.tail = At(s, Len(s))

\* The list has lost the callback that is managed, or never had it.
Absent(s) == callback \notin Elements(s) /\ Elements(s) = registered \ {callback}

\* The i-th node is the next that the search looks at.
Searching(s, i) ==
  /\ i \in 1 .. Len(s) + 1
  /\ test = At(s, i) /\ prev = At(s, i - 1)
  /\ \A j \in 1 .. i - 1 : s[j] # callback

\* The callback was taken out of the i-th place; the tail may still be at it.
Unlinked(s, i) ==
  /\ i \in 1 .. Len(s) + 1
  /\ prev = At(s, i - 1)
  /\ cbs.tail = IF i = Len(s) + 1 THEN callback ELSE At(s, Len(s))

\* What the thread knows of the list at each of its steps.
Managing(s) ==
  /\ pc \in {"run", "check", "first", "find", "tail", "clear", "link", "head",
             "settail"}
  /\ registered \in SUBSET Node
  /\ callback \in IF pc = "run" THEN {NULL} ELSE Node
  /\ pc \in {"run", "check", "first"} => prev = NULL
  /\ pc \in {"run", "check", "first", "find"} => Settled(s)
  /\ pc = "find" => \E i \in 1 .. Len(s) + 1 : Searching(s, i)
  /\ pc \in {"tail", "clear", "link", "head"} => Absent(s)
  /\ pc = "tail" => \E i \in 1 .. Len(s) + 1 : Unlinked(s, i)
  /\ pc \in {"clear", "link", "head"} => cbs.tail = At(s, Len(s))
  /\ pc = "head" => cbs.next[callback] = cbs.head
  /\ pc = "settail" =>
       /\ cbs.head = callback /\ Elements(s) = registered \union {callback}
       /\ cbs.tail = IF Len(s) = 1 THEN NULL ELSE At(s, Len(s))

\* The handler is at the j-th node: those from there on have not been called,
\* and every callback that is due has been, or is one of them.
Calling(s, j) ==
  /\ j \in 1 .. Len(s) + 1
  /\ cb = At(s, j) /\ tmp = At(s, j + 1)
  /\ \A k \in j .. Len(s) : fired[s[k]] = 0
  /\ \A n \in due : fired[n] = 1 \/ \E k \in j .. Len(s) : s[k] = n

Interrupt(s) ==
  /\ ipc \in {"off", "walk"}
  /\ fired \in [Node -> 0 .. 1]
  /\ due \in SUBSET (Node \intersect pins)
  /\ ipc = "off" => \A n \in Node : fired[n] = 0
  /\ ipc = "walk" => \E j \in 1 .. Len(s) + 1 : Calling(s, j)

Held(s) == Reached(s) /\ Managing(s) /\ Interrupt(s)

CallbacksInv == \E s \in Seq(Node) : Held(s)

\* What a list that is reached looks like.
LEMMA ReachedIs ==
  ASSUME NEW s, Reached(s)
  PROVE  /\ cbs = [head |-> cbs.head, tail |-> cbs.tail, next |-> cbs.next]
         /\ cbs.next \in [Node -> Ptr] /\ cbs.head \in Ptr /\ cbs.tail \in Ptr
         /\ Len(s) \in Nat /\ s \in Seq(Node) /\ Distinct(s)
         /\ \A i \in 1 .. Len(s) : s[i] \in Node /\ s[i] # NULL
         /\ \A i \in Int : At(s, i) = IF i \in 1 .. Len(s) THEN s[i] ELSE NULL
         /\ \A i \in 1 .. Len(s) : cbs.next[s[i]] = At(s, i + 1)
         /\ cbs.head = At(s, 1)
         /\ cbs.head = NULL <=> Len(s) = 0
         /\ Elements(s) \in SUBSET Node
<1>1. /\ cbs \in [head : Ptr, tail : Ptr, next : [Node -> Ptr]]
      /\ Holds(s, cbs.head, At(s, Len(s)), cbs.next)
  BY DEF Reached
<1>2. /\ cbs = [head |-> cbs.head, tail |-> cbs.tail, next |-> cbs.next]
      /\ cbs.next \in [Node -> Ptr] /\ cbs.head \in Ptr /\ cbs.tail \in Ptr
  BY <1>1
<1>3. /\ Len(s) \in Nat /\ Elements(s) \in SUBSET Node
      /\ cbs.head = NULL <=> Len(s) = 0
  BY <1>1, EndsOf
<1>4. /\ s \in Seq(Node) /\ Distinct(s) /\ Linked(s, cbs.next)
      /\ cbs.head = At(s, 1)
  BY <1>1 DEF Holds
<1>5. \A i \in 1 .. Len(s) : s[i] \in Node /\ s[i] # NULL
  BY <1>4, NodeAssumption
<1>6. \A i \in Int : At(s, i) = IF i \in 1 .. Len(s) THEN s[i] ELSE NULL
  BY DEF At, OrEnd
<1>7. \A i \in 1 .. Len(s) : cbs.next[s[i]] = At(s, i + 1)
  BY <1>4 DEF Linked
<1>8. QED BY <1>2, <1>3, <1>4, <1>5, <1>6, <1>7

\* The list is still reached after stores outside of it.
LEMMA StillReached ==
  ASSUME NEW s, Reached(s),
         NEW t \in Ptr, NEW nx \in [Node -> Ptr],
         \A x \in Elements(s) : nx[x] = cbs.next[x],
         cbs' = [head |-> cbs.head, tail |-> t, next |-> nx]
  PROVE  Reached(s)'
<1>1. Holds(s, cbs.head, At(s, Len(s)), nx)
  BY HoldsElsewhere DEF Reached
<1>2. cbs.head \in Ptr
  BY ReachedIs
<1>3. cbs'.head = cbs.head /\ cbs'.next = nx
  OBVIOUS
<1>4. QED BY <1>1, <1>2, <1>3 DEF Reached

\* The interrupt's part of the invariant while the thread runs.
LEMMA InterruptRests ==
  ASSUME NEW s, NEW s2, Interrupt(s), ipc = "off", UNCHANGED isrVars
  PROVE  Interrupt(s2)'
BY DEF Interrupt, isrVars

-----------------------------------------------------------------------------
(* The thread's steps that leave the list as it is.                        *)

LEMMA ManageCallbackHeld ==
  ASSUME NEW s, Held(s), NEW n \in Node, NEW e, ManageCallback(n, e)
  PROVE  Held(s)'
<1>1. /\ ipc = "off" /\ pc = "run" /\ pc' = "check" /\ callback' = n
      /\ UNCHANGED <<cbs, prev, test, isrVars, registered>>
  BY DEF ManageCallback
<1>2. Interrupt(s)'
  BY <1>1, InterruptRests DEF Held
<1>3. Reached(s)'
  BY <1>1 DEF Held, Reached
<1>4. Managing(s)'
  BY <1>1 DEF Held, Managing, Settled
<1>5. QED BY <1>2, <1>3, <1>4 DEF Held

\* A call that returns leaves a settled list.
LEMMA DoneManaging ==
  ASSUME NEW s, NEW from, NEW regs, Done(from, regs), Reached(s),
         regs \in SUBSET Node, Elements(s) = regs, cbs'.tail = At(s, Len(s))
  PROVE  Managing(s)'
BY DEF Done, Managing, Settled

LEMMA CheckHeld ==
  ASSUME NEW s, Held(s), IsEmpty \/ NotEmpty
  PROVE  Held(s)'
<1>1. /\ cbs' = cbs /\ ipc = "off" /\ pc = "check" /\ UNCHANGED isrVars
  BY DEF IsEmpty, NotEmpty, Step, Done
<1>2. Interrupt(s)'
  BY <1>1, InterruptRests DEF Held
<1>3. Reached(s)'
  BY <1>1 DEF Held, Reached
<1>4. /\ registered \in SUBSET Node /\ callback \in Node /\ prev = NULL
      /\ Elements(s) = registered /\ cbs.tail = At(s, Len(s))
  BY <1>1 DEF Held, Managing, Settled
<1>5. Managing(s)'
  <2>1. CASE NotEmpty
    BY <1>1, <1>4, <2>1 DEF NotEmpty, Step, Managing, Settled
  <2>2. CASE IsEmpty /\ Done("check", registered)
    BY <1>1, <1>4, <2>2, DoneManaging DEF Held
  <2>3. CASE IsEmpty /\ Step("check", "link") /\ UNCHANGED <<registered, prev, test>>
    <3>1. Len(s) = 0
      BY <2>3, ReachedIs DEF Held, IsEmpty, sys_slist_is_empty
    <3>2. Elements(s) = {}
      BY <3>1 DEF Elements
    <3>3. QED BY <1>1, <1>4, <2>3, <3>2 DEF Step, Managing, Absent
  <2>4. QED BY <2>1, <2>2, <2>3 DEF IsEmpty
<1>6. QED BY <1>2, <1>3, <1>5 DEF Held

LEMMA FindHeld ==
  ASSUME NEW s, Held(s), FindFirst \/ FindNext
  PROVE  Held(s)'
<1>1. /\ cbs' = cbs /\ registered' = registered /\ callback' = callback
      /\ ipc = "off" /\ pc \in {"first", "find"} /\ pc' = "find"
      /\ UNCHANGED isrVars
  BY DEF FindFirst, FindNext, Step
<1>2. Interrupt(s)'
  BY <1>1, InterruptRests DEF Held
<1>3. Reached(s)'
  BY <1>1 DEF Held, Reached
<1>4. /\ registered \in SUBSET Node /\ callback \in Node
      /\ Elements(s) = registered /\ cbs.tail = At(s, Len(s))
      /\ pc = "first" => prev = NULL
      /\ pc = "find" => \E i \in 1 .. Len(s) + 1 : Searching(s, i)
  BY <1>1 DEF Held, Managing, Settled
<1> DEFINE m == Len(s)
<1>5. /\ m \in Nat /\ cbs.head = At(s, 1)
      /\ \A i \in 1 .. m : s[i] # NULL /\ cbs.next[s[i]] = At(s, i + 1)
      /\ \A i \in Int : At(s, i) = IF i \in 1 .. m THEN s[i] ELSE NULL
  BY ReachedIs DEF Held
<1>6. \E i \in 1 .. m + 1 : Searching(s, i)'
  <2> HIDE DEF m
  <2>1. CASE FindFirst
    <3>1. test' = At(s, 1) /\ prev' = NULL /\ prev' = At(s, 0)
      BY <1>4, <1>5, <2>1 DEF FindFirst, Step
    <3>2. 1 \in 1 .. m + 1
      BY <1>5
    <3>3. Searching(s, 1)'
      BY <3>1, <3>2 DEF Searching, m
    <3>4. QED BY <3>2, <3>3
  <2>2. CASE FindNext
    <3>1. PICK i \in 1 .. m + 1 : Searching(s, i)
      BY <1>4, <2>2 DEF FindNext, Step, m
    <3>2. /\ test \notin {NULL, callback} /\ prev' = test
          /\ test' = cbs.next[test]
      BY <2>2 DEF FindNext
    <3>3. /\ test = At(s, i) /\ \A j \in 1 .. i - 1 : s[j] # callback
      BY <3>1 DEF Searching
    <3>4. i \in 1 .. m /\ test = s[i]
      BY <1>5, <3>2, <3>3
    <3>5. test' = At(s, i + 1) /\ prev' = At(s, i)
      BY <1>5, <3>2, <3>3, <3>4
    <3>6. i + 1 \in 1 .. m + 1 /\ (i + 1) - 1 = i
      BY <1>5, <3>4
    <3>7. \A j \in 1 .. i : s[j] # callback
      BY <1>5, <3>2, <3>3, <3>4
    <3>8. Searching(s, i + 1)'
      BY <1>1, <3>5, <3>6, <3>7 DEF Searching, m
    <3>9. QED BY <3>6, <3>8
  <2>3. QED BY <2>1, <2>2
<1>7. Managing(s)'
  BY <1>1, <1>4, <1>6 DEF Managing, Settled
<1>8. QED BY <1>2, <1>3, <1>7 DEF Held

LEMMA NotFoundHeld ==
  ASSUME NEW s, Held(s), NotFound
  PROVE  Held(s)'
<1>1. /\ cbs' = cbs /\ ipc = "off" /\ pc = "find" /\ UNCHANGED isrVars
      /\ test = NULL
  BY DEF NotFound, Step, Done
<1>2. Interrupt(s)'
  BY <1>1, InterruptRests DEF Held
<1>3. Reached(s)'
  BY <1>1 DEF Held, Reached
<1>4. /\ registered \in SUBSET Node /\ callback \in Node
      /\ Elements(s) = registered /\ cbs.tail = At(s, Len(s))
  BY <1>1 DEF Held, Managing, Settled
<1>5. CASE Done("find", registered)
  BY <1>1, <1>2, <1>3, <1>4, <1>5, DoneManaging DEF Held
<1>6. CASE Step("find", "link") /\ UNCHANGED <<registered, prev, test>>
  <2>1. PICK i \in 1 .. Len(s) + 1 : Searching(s, i)
    BY <1>1 DEF Held, Managing
  <2>2. /\ Len(s) \in Nat
        /\ \A k \in 1 .. Len(s) : s[k] # NULL
        /\ \A k \in Int : At(s, k) = IF k \in 1 .. Len(s) THEN s[k] ELSE NULL
    BY ReachedIs DEF Held
  <2>3. At(s, i) = NULL /\ \A j \in 1 .. i - 1 : s[j] # callback
    BY <1>1, <2>1 DEF Searching
  <2>4. i = Len(s) + 1
    BY <2>2, <2>3
  <2>5. callback \notin Elements(s)
    BY <2>2, <2>3, <2>4 DEF Elements
  <2>6. Managing(s)'
    BY <1>1, <1>4, <1>6, <2>5 DEF Step, Managing, Absent
  <2>7. QED BY <1>2, <1>3, <2>6 DEF Held
<1>7. QED BY <1>5, <1>6 DEF NotFound

-----------------------------------------------------------------------------
(* The thread's stores.                                                    *)

\* sys_slist_remove's first store takes the callback out of the list.
LEMMA UnlinkHeld ==
  ASSUME NEW s, Held(s), Unlink
  PROVE  \E s2 \in Seq(Node) : Held(s2)'
<1> DEFINE m == Len(s)
           h == cbs.head
           t == cbs.tail
           nx == cbs.next
<1>1. /\ ipc = "off" /\ pc = "find" /\ pc' = "tail" /\ UNCHANGED isrVars
      /\ UNCHANGED <<callback, prev, test, registered>> /\ test = callback
      /\ cbs' = IF prev = NULL THEN [cbs EXCEPT !.head = nx[callback]]
                ELSE [cbs EXCEPT !.next[prev] = nx[callback]]
  BY DEF Unlink, Step, NextSet
<1>2. /\ registered \in SUBSET Node /\ callback \in Node
      /\ Elements(s) = registered /\ t = At(s, m)
  BY <1>1 DEF Held, Managing, Settled
<1>3. /\ cbs = [head |-> h, tail |-> t, next |-> nx]
      /\ nx \in [Node -> Ptr] /\ h \in Ptr /\ t \in Ptr
      /\ m \in Nat /\ s \in Seq(Node) /\ Distinct(s)
      /\ \A i \in 1 .. m : s[i] \in Node /\ s[i] # NULL
      /\ \A i \in Int : At(s, i) = IF i \in 1 .. m THEN s[i] ELSE NULL
      /\ \A i \in 1 .. m : nx[s[i]] = At(s, i + 1)
      /\ h = At(s, 1)
  BY ReachedIs DEF Held
<1>4. PICK i \in 1 .. m + 1 : test = At(s, i) /\ prev = At(s, i - 1)
  BY <1>1 DEF Held, Managing, Searching
<1> HIDE DEF m, h, t, nx
<1>5. i \in 1 .. m /\ s[i] = callback
  BY <1>1, <1>2, <1>3, <1>4, NodeAssumption
<1> DEFINE v == Removed(s, i)
           nx2 == IF i = 1 THEN nx ELSE [nx EXCEPT ![s[i - 1]] = At(s, i + 1)]
<1>6. nx[callback] = At(s, i + 1)
  BY <1>3, <1>5
<1>7. prev = IF i = 1 THEN NULL ELSE s[i - 1]
  BY <1>3, <1>4, <1>5
<1>8. prev = NULL <=> i = 1
  BY <1>3, <1>5, <1>7
<1>9. nx2 \in [Node -> Ptr] /\ At(s, i + 1) \in Ptr
  BY <1>3, <1>5 DEF Ptr
<1>10. cbs' = [head |-> IF i = 1 THEN At(s, 2) ELSE h, tail |-> t, next |-> nx2]
  <2>1. CASE i = 1
    BY <1>1, <1>3, <1>6, <1>8, <2>1 DEF h, t, nx
  <2>2. CASE i # 1
    <3>1. cbs' = [cbs EXCEPT !.next[prev] = nx[callback]]
      BY <1>1, <1>8, <2>2
    <3>2. cbs' = [head |-> h, tail |-> t, next |-> [nx EXCEPT ![prev] = nx[callback]]]
      BY <1>3, <3>1 DEF h, t, nx
    <3>3. QED BY <1>6, <1>7, <2>2, <3>2
  <2>3. QED BY <2>1, <2>2
<1>11. /\ i # 1 => nx2[s[i - 1]] = At(s, i + 1)
       /\ \A j \in 1 .. m : j # i - 1 /\ j # i => nx2[s[j]] = nx[s[j]]
  <2>1. CASE i = 1
    BY <2>1
  <2>2. CASE i # 1
    <3>1. i - 1 \in 1 .. m
      BY <1>3, <1>5, <2>2
    <3>2. \A j \in 1 .. m : j # i - 1 => s[j] # s[i - 1]
      BY <3>1, <1>3 DEF Distinct, m
    <3>3. QED BY <1>3, <2>2, <3>1, <3>2
  <2>3. QED BY <2>1, <2>2
<1> HIDE DEF nx2
<1>12. Holds(s, h, At(s, m), nx)
  BY DEF Held, Reached, h, m, nx
<1>13. /\ Holds(v, IF i = 1 THEN At(s, 2) ELSE h,
                IF i = m THEN At(s, i - 1) ELSE At(s, m), nx2)
       /\ Elements(v) = Elements(s) \ {s[i]}
  BY <1>5, <1>11, <1>12, RemoveHolds DEF m
<1>14. v \in Seq(Node) /\ Len(v) = m - 1
  BY <1>3, <1>5, RemovedIs DEF m
<1>15. \A j \in Int : At(v, j) = IF j < i THEN At(s, j) ELSE At(s, j + 1)
  BY <1>3, <1>5, RemovedAt DEF m
<1> HIDE DEF v
<1>16. Reached(v)'
  <2>1. At(v, Len(v)) = IF i = m THEN At(s, i - 1) ELSE At(s, m)
    BY <1>13 DEF Holds
  <2>2. At(s, 2) \in Ptr
    BY <1>3 DEF Ptr
  <2>3. /\ cbs'.head = (IF i = 1 THEN At(s, 2) ELSE h) /\ cbs'.next = nx2
        /\ cbs' \in [head : Ptr, tail : Ptr, next : [Node -> Ptr]]
    BY <1>3, <1>9, <1>10, <2>2
  <2>4. QED BY <1>13, <2>1, <2>3 DEF Reached
<1>17. Interrupt(v)'
  BY <1>1, InterruptRests DEF Held
<1>18. Managing(v)'
  <2>1. i \in 1 .. Len(v) + 1
    BY <1>3, <1>5, <1>14
  <2>2. prev = At(v, i - 1)
    BY <1>3, <1>4, <1>5, <1>15
  <2>3. t = IF i = Len(v) + 1 THEN callback ELSE At(v, Len(v))
    <3>1. CASE i = m
      BY <1>2, <1>3, <1>5, <1>14, <3>1
    <3>2. CASE i # m
      <4>1. Len(v) \in Int /\ ~(Len(v) < i) /\ Len(v) + 1 = m /\ i # Len(v) + 1
        BY <1>3, <1>5, <1>14, <3>2
      <4>2. QED BY <1>2, <1>15, <4>1
    <3>3. QED BY <3>1, <3>2
  <2>4. cbs'.tail = t
    BY <1>10
  <2>5. Unlinked(v, i)'
    BY <1>1, <2>1, <2>2, <2>3, <2>4 DEF Unlinked
  <2>6. Absent(v)'
    BY <1>1, <1>2, <1>5, <1>13 DEF Absent
  <2>7. QED BY <1>1, <1>2, <2>1, <2>5, <2>6 DEF Managing
<1>19. QED BY <1>14, <1>16, <1>17, <1>18 DEF Held

\* Its second store moves the tail back.
LEMMA TailSetHeld ==
  ASSUME NEW s, Held(s), TailSet
  PROVE  Held(s)'
<1> DEFINE m == Len(s)
<1>1. /\ ipc = "off" /\ pc = "tail" /\ pc' = "clear" /\ UNCHANGED isrVars
      /\ UNCHANGED <<callback, prev, test, registered>>
      /\ cbs' = IF cbs.tail # callback THEN cbs
                ELSE [cbs EXCEPT !.tail = IF prev = NULL THEN cbs.head ELSE prev]
  BY DEF TailSet, Step
<1>2. /\ registered \in SUBSET Node /\ callback \in Node /\ Absent(s)
  BY <1>1 DEF Held, Managing
<1>3. /\ cbs = [head |-> cbs.head, tail |-> cbs.tail, next |-> cbs.next]
      /\ cbs.next \in [Node -> Ptr] /\ cbs.head \in Ptr /\ cbs.tail \in Ptr
      /\ m \in Nat
      /\ \A i \in 1 .. m : s[i] \in Node /\ s[i] # NULL
      /\ \A i \in Int : At(s, i) = IF i \in 1 .. m THEN s[i] ELSE NULL
      /\ cbs.head = NULL <=> m = 0
  BY ReachedIs DEF Held
<1>4. PICK i \in 1 .. m + 1 :
        /\ prev = At(s, i - 1)
        /\ cbs.tail = IF i = m + 1 THEN callback ELSE At(s, m)
  BY <1>1 DEF Held, Managing, Unlinked
<1> DEFINE t == At(s, m)
<1>5. t \in Ptr
  BY <1>3 DEF Ptr
<1>6. cbs' = [head |-> cbs.head, tail |-> t, next |-> cbs.next]
  <2>1. CASE i = m + 1
    <3>1. (IF prev = NULL THEN cbs.head ELSE prev) = t
      BY <1>3, <1>4, <2>1
    <3>2. QED BY <1>1, <1>3, <1>4, <2>1, <3>1
  <2>2. CASE i # m + 1
    <3>1. m \in 1 .. m
      BY <1>3, <2>2
    <3>2. t \in Elements(s)
      BY <1>3, <3>1 DEF Elements
    <3>3. cbs.tail = t /\ t # callback
      BY <1>2, <1>4, <2>2, <3>2 DEF Absent
    <3>4. QED BY <1>1, <1>3, <3>3
  <2>3. QED BY <2>1, <2>2
<1> HIDE DEF m, t
<1>7. Reached(s)'
  BY <1>3, <1>5, <1>6, StillReached DEF Held
<1>8. Interrupt(s)'
  BY <1>1, InterruptRests DEF Held
<1>9. Managing(s)'
  <2>1. cbs'.tail = At(s, Len(s))
    BY <1>6 DEF t, m
  <2>2. QED BY <1>1, <1>2, <2>1 DEF Managing, Absent
<1>10. QED BY <1>7, <1>8, <1>9 DEF Held

\* The stores to the callback's own pointer, which no longer is, or is not
\* yet, in the list.
LEMMA OwnNextHeld ==
  ASSUME NEW s, Held(s), ClearNext \/ LinkNext
  PROVE  Held(s)'
<1>1. /\ ipc = "off" /\ pc \in {"clear", "link"} /\ UNCHANGED isrVars
  BY DEF ClearNext, LinkNext, Step, Done
<1>2. /\ registered \in SUBSET Node /\ callback \in Node /\ Absent(s)
      /\ cbs.tail = At(s, Len(s))
  BY <1>1 DEF Held, Managing
<1>3. /\ cbs = [head |-> cbs.head, tail |-> cbs.tail, next |-> cbs.next]
      /\ cbs.next \in [Node -> Ptr] /\ cbs.head \in Ptr /\ cbs.tail \in Ptr
      /\ Elements(s) \in SUBSET Node
  BY ReachedIs DEF Held
<1>4. PICK p \in Ptr : /\ cbs' = [cbs EXCEPT !.next[callback] = p]
                       /\ LinkNext => p = cbs.head
  <2>1. CASE LinkNext
    BY <1>3, <2>1 DEF LinkNext, NextSet
  <2>2. CASE ~LinkNext
    <3>1. cbs' = [cbs EXCEPT !.next[callback] = NULL] /\ NULL \in Ptr
      BY <2>2 DEF ClearNext, NextSet, Ptr
    <3>2. QED BY <2>2, <3>1
  <2>3. QED BY <2>1, <2>2
<1> DEFINE nx == [cbs.next EXCEPT ![callback] = p]
<1>5. /\ nx \in [Node -> Ptr] /\ nx[callback] = p
      /\ \A x \in Node : x # callback => nx[x] = cbs.next[x]
  BY <1>2, <1>3
<1>6. cbs' = [head |-> cbs.head, tail |-> cbs.tail, next |-> nx]
  BY <1>3, <1>4
<1>7. cbs'.tail = cbs.tail /\ cbs'.head = cbs.head /\ cbs'.next[callback] = p
  BY <1>5, <1>6
<1> HIDE DEF nx
<1>8. Reached(s)'
  <2>1. \A x \in Elements(s) : nx[x] = cbs.next[x]
    BY <1>2, <1>3, <1>5 DEF Absent
  <2>2. QED BY <1>3, <1>5, <1>6, <2>1, StillReached DEF Held
<1>9. Interrupt(s)'
  BY <1>1, InterruptRests DEF Held
<1>10. Managing(s)'
  <2>1. CASE LinkNext
    BY <1>2, <1>4, <1>7, <2>1 DEF LinkNext, Step, Managing, Absent
  <2>2. CASE ClearNext /\ Step("clear", "link") /\ UNCHANGED <<registered, prev, test>>
    BY <1>2, <1>7, <2>2 DEF Step, Managing, Absent
  <2>3. CASE ClearNext /\ Done("clear", registered \ {callback})
    <3>1. /\ registered \ {callback} \in SUBSET Node
          /\ Elements(s) = registered \ {callback}
      BY <1>2 DEF Absent
    <3>2. QED BY <1>2, <1>7, <2>3, <3>1, DoneManaging DEF Held
  <2>4. QED BY <2>1, <2>2, <2>3 DEF ClearNext
<1>11. QED BY <1>8, <1>9, <1>10 DEF Held

\* sys_slist_prepend's second store puts the callback before the first node.
LEMMA HeadSetHeld ==
  ASSUME NEW s, Held(s), HeadSet
  PROVE  \E s2 \in Seq(Node) : Held(s2)'
<1>0. PICK c : c = callback
  OBVIOUS
<1> DEFINE v == Inserted(s, 0, c)
           m == Len(s)
<1>1. /\ ipc = "off" /\ pc = "head" /\ pc' = "settail" /\ UNCHANGED isrVars
      /\ UNCHANGED <<callback, prev, test, registered>>
      /\ cbs' = [cbs EXCEPT !.head = callback]
  BY DEF HeadSet, Step
<1>2. /\ registered \in SUBSET Node /\ callback \in Node /\ Absent(s)
      /\ cbs.tail = At(s, m) /\ cbs.next[callback] = cbs.head
  BY <1>1 DEF Held, Managing
<1>3. /\ cbs = [head |-> cbs.head, tail |-> cbs.tail, next |-> cbs.next]
      /\ cbs.next \in [Node -> Ptr] /\ cbs.head \in Ptr /\ cbs.tail \in Ptr
      /\ m \in Nat /\ s \in Seq(Node) /\ cbs.head = At(s, 1)
      /\ \A i \in Int : At(s, i) = IF i \in 1 .. m THEN s[i] ELSE NULL
  BY ReachedIs DEF Held
<1>4. /\ cbs' = [head |-> c, tail |-> cbs.tail, next |-> cbs.next]
      /\ cbs'.head = c /\ cbs'.tail = cbs.tail /\ cbs'.next = cbs.next
  BY <1>0, <1>1, <1>3
<1> HIDE DEF m
<1>5. /\ Holds(v, c, IF m = 0 THEN c ELSE At(s, m), cbs.next)
      /\ Elements(v) = Elements(s) \cup {c}
  <2>1. Holds(s, cbs.head, At(s, m), cbs.next)
    BY DEF Held, Reached, m
  <2>2. 0 \in 0 .. m /\ 0 + 1 = 1
    BY <1>3
  <2>3. c \notin Elements(s) /\ cbs.next[c] = At(s, 0 + 1)
    BY <1>0, <1>2, <1>3, <2>2 DEF Absent
  <2>4. /\ Holds(Inserted(s, 0, c), IF 0 = 0 THEN c ELSE cbs.head,
                 IF 0 = m THEN c ELSE At(s, m), cbs.next)
        /\ Elements(Inserted(s, 0, c)) = Elements(s) \cup {c}
    BY <1>0, <1>2, <2>1, <2>2, <2>3, InsertHolds DEF m
  <2>5. QED BY <2>4
<1>6. v \in Seq(Node) /\ Len(v) = m + 1
  <2>1. 0 \in 0 .. Len(s)
    BY <1>3 DEF m
  <2>2. QED BY <1>0, <1>2, <1>3, <2>1, InsertedIs DEF m
<1> HIDE DEF v
<1>7. At(v, Len(v)) = IF m = 0 THEN c ELSE At(s, m)
  BY <1>5 DEF Holds
<1>8. Reached(v)'
  BY <1>0, <1>2, <1>3, <1>4, <1>5, <1>7 DEF Reached, Ptr
<1>9. Interrupt(v)'
  BY <1>1, InterruptRests DEF Held
<1>10. Managing(v)'
  <2>1. Elements(v) = registered \union {c}
    BY <1>0, <1>2, <1>5 DEF Absent
  <2>2. cbs.tail = IF Len(v) = 1 THEN NULL ELSE At(v, Len(v))
    BY <1>2, <1>3, <1>6, <1>7
  <2>3. QED BY <1>0, <1>1, <1>2, <1>4, <2>1, <2>2 DEF Managing
<1>11. QED BY <1>6, <1>8, <1>9, <1>10 DEF Held

\* Its third store gives an empty list a tail.
LEMMA PrependedHeld ==
  ASSUME NEW s, Held(s), Prepended
  PROVE  Held(s)'
<1> DEFINE m == Len(s)
           t == IF cbs.tail = NULL THEN cbs.head ELSE cbs.tail
<1>1. /\ ipc = "off" /\ pc = "settail" /\ UNCHANGED isrVars
      /\ Done("settail", registered \union {callback})
      /\ cbs' = [cbs EXCEPT !.tail = t]
  BY DEF Prepended, Done
<1>2. /\ registered \in SUBSET Node /\ callback \in Node
      /\ cbs.head = callback /\ Elements(s) = registered \union {callback}
      /\ cbs.tail = IF m = 1 THEN NULL ELSE At(s, m)
  BY <1>1 DEF Held, Managing
<1>3. /\ cbs = [head |-> cbs.head, tail |-> cbs.tail, next |-> cbs.next]
      /\ cbs.next \in [Node -> Ptr] /\ cbs.head \in Ptr /\ cbs.tail \in Ptr
      /\ m \in Nat /\ cbs.head = At(s, 1)
      /\ cbs.head = NULL <=> m = 0
      /\ \A i \in 1 .. m : s[i] # NULL
      /\ \A i \in Int : At(s, i) = IF i \in 1 .. m THEN s[i] ELSE NULL
  BY ReachedIs DEF Held
<1>4. t \in Ptr /\ cbs' = [head |-> cbs.head, tail |-> t, next |-> cbs.next]
  BY <1>1, <1>3
<1>5. t = At(s, m)
  <2> HIDE DEF m
  <2>1. m # 0
    BY <1>2, <1>3, NodeAssumption
  <2>2. QED BY <1>2, <1>3, <2>1
<1> HIDE DEF t
<1>6. Reached(s)'
  BY <1>3, <1>4, StillReached DEF Held
<1>7. Interrupt(s)'
  BY <1>1, InterruptRests DEF Held
<1>8. Managing(s)'
  <2>1. cbs'.tail = At(s, Len(s))
    BY <1>4, <1>5
  <2>2. registered \union {callback} \in SUBSET Node
    BY <1>2
  <2>3. QED BY <1>1, <1>2, <2>1, <2>2, DoneManaging DEF Held
<1>9. QED BY <1>6, <1>7, <1>8 DEF Held

-----------------------------------------------------------------------------
(* The interrupt's steps.                                                  *)

LEMMA ReachedThen ==
  ASSUME NEW s, Reached(s)'
  PROVE  \A i \in 1 .. Len(s) : cbs'.next[s[i]] = At(s, i + 1)
BY DEF Reached, Holds, Linked

\* Whatever the thread is doing, the list holds the other registered ones.
LEMMA RegisteredReached ==
  ASSUME NEW s, Managing(s)
  PROVE  registered \ {callback} \in SUBSET Elements(s)
BY DEF Managing, Settled, Absent

LEMMA IRQHandlerHeld ==
  ASSUME NEW s, Held(s), NEW p \in SUBSET Node, IRQHandler(p)
  PROVE  Held(s)'
<1>1. /\ ipc = "off" /\ ipc' = "walk" /\ pins' = p
      /\ cb' = cbs.head /\ tmp' = NextOf(cbs, cbs.head)
      /\ due' = (registered \ {callback}) \intersect p
      /\ UNCHANGED <<cbs, threadVars, registered, fired>>
  BY DEF IRQHandler
<1>2. Reached(s)' /\ Managing(s)'
  BY <1>1 DEF Held, Reached, Managing, Settled, Searching, Absent, Unlinked,
              threadVars
<1>3. /\ Len(s) \in Nat /\ cbs.head = At(s, 1)
      /\ \A i \in 1 .. Len(s) : s[i] \in Node /\ s[i] # NULL
      /\ \A i \in Int : At(s, i) = IF i \in 1 .. Len(s) THEN s[i] ELSE NULL
      /\ \A i \in 1 .. Len(s) : cbs.next[s[i]] = At(s, i + 1)
      /\ Elements(s) \in SUBSET Node
  BY ReachedIs DEF Held
<1>4. tmp' = At(s, 1 + 1)
  BY <1>1, <1>3 DEF NextOf
<1>5. due' \in SUBSET (Elements(s) \intersect p)
  BY <1>1, RegisteredReached DEF Held
<1>6. /\ fired \in [Node -> 0 .. 1] /\ \A n \in Node : fired[n] = 0
  BY <1>1 DEF Held, Interrupt
<1>7. 1 \in 1 .. Len(s) + 1
  BY <1>3
<1>8. Calling(s, 1)'
  <2>1. \A k \in 1 .. Len(s) : fired'[s[k]] = 0
    BY <1>1, <1>3, <1>6
  <2>2. \A n \in due' : \E k \in 1 .. Len(s) : s[k] = n
    BY <1>5 DEF Elements
  <2>3. QED BY <1>1, <1>3, <1>4, <1>7, <2>1, <2>2 DEF Calling
<1>9. Interrupt(s)'
  BY <1>1, <1>3, <1>5, <1>6, <1>7, <1>8 DEF Interrupt
<1>10. QED BY <1>2, <1>9 DEF Held

\* A round of the loop, when the list becomes v and its k-th node the next.
LEMMA Round ==
  ASSUME NEW s, NEW v \in Seq(Node), Held(s), Reached(v)', ipc = "walk",
         NEW j \in 1 .. Len(s), Calling(s, j), NEW k \in 1 .. Len(v) + 1,
         At(s, j + 1) = At(v, k),
         \A x \in k .. Len(v) : \E y \in j + 1 .. Len(s) : v[x] = s[y],
         \A y \in j + 1 .. Len(s) : \E x \in k .. Len(v) : v[x] = s[y],
         fired' = IF cb \in pins
                  THEN [fired EXCEPT ![cb] = IF @ < 2 THEN @ + 1 ELSE @]
                  ELSE fired,
         cb' = tmp, tmp' = NextOf(cbs', tmp), UNCHANGED <<ipc, pins, due>>
  PROVE  Interrupt(v)'
<1>1. /\ Len(s) \in Nat /\ Distinct(s)
      /\ \A i \in 1 .. Len(s) : s[i] \in Node /\ s[i] # NULL
      /\ \A i \in Int : At(s, i) = IF i \in 1 .. Len(s) THEN s[i] ELSE NULL
  BY ReachedIs DEF Held
<1>2. /\ Len(v) \in Nat
      /\ \A i \in 1 .. Len(v) : v[i] \in Node /\ v[i] # NULL
      /\ \A i \in Int : At(v, i) = IF i \in 1 .. Len(v) THEN v[i] ELSE NULL
      /\ \A i \in 1 .. Len(v) : cbs'.next[v[i]] = At(v, i + 1)
  <2>1. /\ Len(v) \in Nat
        /\ \A i \in 1 .. Len(v) : v[i] \in Node /\ v[i] # NULL
    BY NodeAssumption
  <2>2. \A i \in Int : At(v, i) = IF i \in 1 .. Len(v) THEN v[i] ELSE NULL
    BY DEF At, OrEnd
  <2>3. \A i \in 1 .. Len(v) : cbs'.next[v[i]] = At(v, i + 1)
    BY ReachedThen
  <2>4. QED BY <2>1, <2>2, <2>3
<1>3. /\ cb = At(s, j) /\ tmp = At(s, j + 1)
      /\ \A i \in j .. Len(s) : fired[s[i]] = 0
      /\ \A n \in due : fired[n] = 1 \/ \E i \in j .. Len(s) : s[i] = n
  BY DEF Calling
<1>4. fired \in [Node -> 0 .. 1] /\ due \in SUBSET (Node \intersect pins)
  BY DEF Held, Interrupt
<1>5. cb = s[j] /\ cb \in Node /\ fired[cb] = 0
  BY <1>1, <1>3
<1>6. /\ fired' \in [Node -> 0 .. 1]
      /\ cb \in pins => fired'[cb] = 1
      /\ \A n \in Node : n # cb => fired'[n] = fired[n]
  BY <1>4, <1>5
<1>7. cb' = At(v, k) /\ tmp' = At(v, k + 1)
  <2>1. cb' = At(v, k) /\ tmp' = NextOf(cbs', At(v, k))
    BY <1>3
  <2>2. CASE k = Len(v) + 1
    <3>1. k \notin 1 .. Len(v) /\ k + 1 \notin 1 .. Len(v) /\ k \in Int
      BY <1>2, <2>2
    <3>2. At(v, k) = NULL /\ At(v, k + 1) = NULL
      BY <1>2, <3>1
    <3>3. QED BY <2>1, <3>2 DEF NextOf
  <2>3. CASE k # Len(v) + 1
    <3>1. k \in 1 .. Len(v)
      BY <1>2, <2>3
    <3>2. At(v, k) = v[k] /\ v[k] # NULL
      BY <1>2, <3>1
    <3>3. cbs'.next[v[k]] = At(v, k + 1)
      BY <1>2, <3>1
    <3>4. QED BY <2>1, <3>2, <3>3 DEF NextOf
  <2>4. QED BY <2>2, <2>3
<1>8. \A x \in k .. Len(v) : fired'[v[x]] = 0
  <2> SUFFICES ASSUME NEW x \in k .. Len(v) PROVE fired'[v[x]] = 0
    OBVIOUS
  <2>1. PICK y \in j + 1 .. Len(s) : v[x] = s[y]
    OBVIOUS
  <2>2. y \in 1 .. Len(s) /\ y # j /\ y \in j .. Len(s)
    BY <1>1
  <2>3. s[y] # cb
    BY <1>1, <1>5, <2>2 DEF Distinct
  <2>4. QED BY <1>1, <1>3, <1>6, <2>1, <2>2, <2>3
<1>9. \A n \in due : fired'[n] = 1 \/ \E x \in k .. Len(v) : v[x] = n
  <2> SUFFICES ASSUME NEW n \in due
               PROVE  fired'[n] = 1 \/ \E x \in k .. Len(v) : v[x] = n
    OBVIOUS
  <2>1. n \in Node /\ n \in pins
    BY <1>4
  <2>2. CASE n = cb
    BY <1>6, <2>1, <2>2
  <2>3. CASE n # cb
    <3>1. CASE fired[n] = 1
      BY <1>6, <2>1, <2>3, <3>1
    <3>2. CASE fired[n] # 1
      <4>1. PICK i \in j .. Len(s) : s[i] = n
        BY <1>3, <3>2
      <4>2. i \in j + 1 .. Len(s)
        BY <1>1, <1>5, <2>3, <4>1
      <4>3. QED BY <4>1, <4>2
    <3>3. QED BY <3>1, <3>2
  <2>4. QED BY <2>2, <2>3
<1>10. Calling(v, k)'
  BY <1>7, <1>8, <1>9 DEF Calling
<1>11. QED BY <1>4, <1>6, <1>10 DEF Interrupt

\* A handler that runs between two calls of the thread removes its callback.
LEMMA HandlerRemoves ==
  ASSUME NEW s, Held(s), pc = "run", NEW j \in 1 .. Len(s), cb = s[j],
         cbs' = gpio_manage_callback(cbs, cb, FALSE),
         registered' = registered \ {cb}, UNCHANGED threadVars
  PROVE  Reached(Removed(s, j))' /\ Managing(Removed(s, j))'
<1> DEFINE v == Removed(s, j)
           h == cbs.head
           t == cbs.tail
           nx == cbs.next
<1>1. /\ cbs = [head |-> h, tail |-> t, next |-> nx]
      /\ nx \in [Node -> Ptr] /\ h \in Ptr /\ t \in Ptr
      /\ s \in Seq(Node) /\ Distinct(s) /\ Len(s) \in Nat
      /\ h = NULL <=> Len(s) = 0
      /\ \A i \in 1 .. Len(s) : s[i] \in Node
      /\ \A i \in Int : At(s, i) = IF i \in 1 .. Len(s) THEN s[i] ELSE NULL
  BY ReachedIs DEF Held
<1>2. /\ registered \in SUBSET Node /\ callback = NULL /\ prev = NULL
      /\ Elements(s) = registered /\ t = At(s, Len(s))
  BY DEF Held, Managing, Settled
<1>3. Holds(s, h, t, nx) /\ Linked(s, nx) /\ h = At(s, 1)
  BY <1>2 DEF Held, Reached, Holds
<1>4. Walk(cbs) = s
  BY <1>1, <1>3, WalkOfLinked
<1>5. PrevOf(cbs, s[j]) = At(s, j - 1)
  <2>1. PrevOf(cbs, Walk(cbs)[j]) = At(Walk(cbs), j - 1)
    BY <1>1, <1>4, PrevIs
  <2>2. QED BY <1>4, <2>1
<1>6. s[j] \in Nodes(cbs)
  BY <1>4 DEF Nodes
<1>7. cbs' = sys_slist_remove(cbs, At(s, j - 1), s[j])
  <2>1. ~sys_slist_is_empty(cbs)
    BY <1>1 DEF sys_slist_is_empty
  <2>2. cbs' = sys_slist_find_and_remove(cbs, s[j])
    BY <2>1 DEF gpio_manage_callback
  <2>3. QED BY <1>5, <1>6, <2>2, Zenon DEF sys_slist_find_and_remove
<1>8. Effect(s, v, cbs', nx, NULL)
  BY <1>1, <1>3, <1>7, RemoveEffect
<1>9. cbs' \in [head : Ptr, tail : Ptr, next : [Node -> Ptr]]
  <2>1. At(s, j - 1) \in Ptr /\ nx[s[j]] \in Ptr
    BY <1>1 DEF Ptr
  <2>2. cbs' = [head |-> cbs'.head, tail |-> cbs'.tail, next |-> cbs'.next]
    BY <1>1, <1>7 DEF sys_slist_remove, NextSet
  <2>3. cbs'.head \in Ptr /\ cbs'.tail \in Ptr /\ cbs'.next \in [Node -> Ptr]
    <3>1. Holds(v, cbs'.head, cbs'.tail, cbs'.next) /\ cbs'.next \in [Node -> Ptr]
      BY <1>8 DEF Effect
    <3>2. QED BY <3>1, EndsOf
  <2>4. QED BY <2>2, <2>3
<1>10. Elements(v) = Elements(s) \ {s[j]}
  BY <1>1, RemovedElements
<1> HIDE DEF v
<1>11. Holds(v, cbs'.head, cbs'.tail, cbs'.next) /\ cbs'.tail = At(v, Len(v))
  BY <1>8 DEF Effect, Holds
<1>12. Reached(v)'
  BY <1>9, <1>11 DEF Reached
<1>13. Managing(v)'
  BY <1>2, <1>10, <1>11 DEF Managing, Settled, threadVars
<1>14. QED BY <1>12, <1>13 DEF v

\* Or it adds another, which is not in the list.
LEMMA HandlerAdds ==
  ASSUME NEW s, Held(s), pc = "run", Len(s) # 0, NEW n \in Node \ registered,
         cbs' = gpio_manage_callback(cbs, n, TRUE),
         registered' = registered \union {n}, UNCHANGED threadVars
  PROVE  Reached(Inserted(s, 0, n))' /\ Managing(Inserted(s, 0, n))'
<1> DEFINE v == Inserted(s, 0, n)
           h == cbs.head
           t == cbs.tail
           nx == cbs.next
<1>1. /\ cbs = [head |-> h, tail |-> t, next |-> nx]
      /\ nx \in [Node -> Ptr] /\ h \in Ptr /\ t \in Ptr
      /\ s \in Seq(Node) /\ Distinct(s) /\ Len(s) \in Nat
      /\ h = NULL <=> Len(s) = 0
  BY ReachedIs DEF Held
<1>2. /\ registered \in SUBSET Node /\ callback = NULL /\ prev = NULL
      /\ Elements(s) = registered /\ t = At(s, Len(s))
  BY DEF Held, Managing, Settled
<1>3. Holds(s, h, t, nx) /\ Linked(s, nx) /\ h = At(s, 1)
  BY <1>2 DEF Held, Reached, Holds
<1>4. Walk(cbs) = s
  BY <1>1, <1>3, WalkOfLinked
<1>5. n \notin Nodes(cbs)
  BY <1>2, <1>4 DEF Nodes, Elements
<1>6. cbs' = sys_slist_prepend(cbs, n)
  <2>1. ~sys_slist_is_empty(cbs)
    BY <1>1 DEF sys_slist_is_empty
  <2>2. sys_slist_find_and_remove(cbs, n) = cbs
    BY <1>5, Zenon DEF sys_slist_find_and_remove
  <2>3. QED BY <2>1, <2>2, Zenon DEF gpio_manage_callback
<1>7. Effect(s, v, cbs', nx, n)
  BY <1>1, <1>2, <1>3, <1>6, PrependEffect
<1>8. cbs' \in [head : Ptr, tail : Ptr, next : [Node -> Ptr]]
  <2>1. cbs' = [head |-> cbs'.head, tail |-> cbs'.tail, next |-> cbs'.next]
    BY <1>1, <1>6 DEF sys_slist_prepend, NextSet
  <2>2. cbs'.head \in Ptr /\ cbs'.tail \in Ptr /\ cbs'.next \in [Node -> Ptr]
    <3>1. Holds(v, cbs'.head, cbs'.tail, cbs'.next) /\ cbs'.next \in [Node -> Ptr]
      BY <1>7 DEF Effect
    <3>2. QED BY <3>1, EndsOf
  <2>3. QED BY <2>1, <2>2
<1>9. Elements(v) = Elements(s) \cup {n}
  <2>1. 0 \in 0 .. Len(s)
    BY <1>1
  <2>2. QED BY <1>1, <2>1, InsertedElements
<1> HIDE DEF v
<1>10. Holds(v, cbs'.head, cbs'.tail, cbs'.next) /\ cbs'.tail = At(v, Len(v))
  BY <1>7 DEF Effect, Holds
<1>11. Reached(v)'
  BY <1>8, <1>10 DEF Reached
<1>12. Managing(v)'
  BY <1>2, <1>9, <1>10 DEF Managing, Settled, threadVars
<1>13. QED BY <1>11, <1>12 DEF v

LEMMA FireHeld ==
  ASSUME NEW s, Held(s), gpio_fire_callbacks, ~HandlersAnytime
  PROVE  \E s2 \in Seq(Node) : Held(s2)'
<1>1. /\ ipc = "walk" /\ cb # NULL
      /\ fired' = IF cb \in pins
                  THEN [fired EXCEPT ![cb] = IF @ < 2 THEN @ + 1 ELSE @]
                  ELSE fired
      /\ Handler \/ UNCHANGED <<cbs, registered>>
      /\ cb' = tmp /\ tmp' = NextOf(cbs', tmp)
      /\ UNCHANGED threadVars /\ UNCHANGED <<ipc, pins, due>>
  BY DEF gpio_fire_callbacks
<1>2. /\ s \in Seq(Node) /\ Len(s) \in Nat
      /\ \A i \in Int : At(s, i) = IF i \in 1 .. Len(s) THEN s[i] ELSE NULL
  BY ReachedIs DEF Held
<1>3. PICK j \in 1 .. Len(s) + 1 : Calling(s, j)
  BY <1>1 DEF Held, Interrupt
<1>4. j \in 1 .. Len(s) /\ cb = s[j]
  BY <1>1, <1>2, <1>3 DEF Calling
<1>5. CASE UNCHANGED <<cbs, registered>>
  <2>1. Reached(s)' /\ Managing(s)'
    BY <1>1, <1>5 DEF Held, Reached, Managing, Settled, Searching, Absent,
                      Unlinked, threadVars
  <2>2. /\ j + 1 \in 1 .. Len(s) + 1
        /\ \A x \in j + 1 .. Len(s) : \E y \in j + 1 .. Len(s) : s[x] = s[y]
    BY <1>4
  <2>3. Interrupt(s)'
    BY <1>1, <1>2, <1>3, <1>4, <2>1, <2>2, Round
  <2>4. QED BY <1>2, <2>1, <2>3 DEF Held
<1>6. CASE /\ pc = "run" /\ cbs' = gpio_manage_callback(cbs, cb, FALSE)
           /\ registered' = registered \ {cb}
  <2> DEFINE v == Removed(s, j)
  <2>1. Reached(v)' /\ Managing(v)'
    BY <1>1, <1>4, <1>6, HandlerRemoves
  <2>2. /\ v \in Seq(Node) /\ Len(v) = Len(s) - 1
        /\ \A x \in 1 .. Len(s) - 1 : v[x] = IF x < j THEN s[x] ELSE s[x + 1]
    BY <1>2, <1>4, RemovedIs
  <2>3. At(s, j + 1) = At(v, j)
    BY <1>2, <1>4, RemovedAt
  <2> HIDE DEF v
  <2>4. j \in 1 .. Len(v) + 1
    BY <1>2, <1>4, <2>2
  <2>5. \A x \in j .. Len(v) : \E y \in j + 1 .. Len(s) : v[x] = s[y]
    <3> SUFFICES ASSUME NEW x \in j .. Len(v)
                 PROVE  \E y \in j + 1 .. Len(s) : v[x] = s[y]
      OBVIOUS
    <3>1. x + 1 \in j + 1 .. Len(s) /\ x \in 1 .. Len(s) - 1 /\ ~(x < j)
      BY <1>2, <1>4, <2>2
    <3>2. QED BY <2>2, <3>1
  <2>6. \A y \in j + 1 .. Len(s) : \E x \in j .. Len(v) : v[x] = s[y]
    <3> SUFFICES ASSUME NEW y \in j + 1 .. Len(s)
                 PROVE  \E x \in j .. Len(v) : v[x] = s[y]
      OBVIOUS
    <3>1. /\ y - 1 \in j .. Len(v) /\ y - 1 \in 1 .. Len(s) - 1 /\ ~(y - 1 < j)
          /\ (y - 1) + 1 = y
      BY <1>2, <1>4, <2>2
    <3>2. QED BY <2>2, <3>1
  <2>7. Interrupt(v)'
    BY <1>1, <1>3, <1>4, <2>1, <2>2, <2>3, <2>4, <2>5, <2>6, Round
  <2>8. QED BY <2>1, <2>2, <2>7 DEF Held
<1>7. ASSUME pc = "run", NEW n \in Node \ registered,
             cbs' = gpio_manage_callback(cbs, n, TRUE),
             registered' = registered \union {n}
      PROVE  \E s2 \in Seq(Node) : Held(s2)'
  <2> DEFINE v == Inserted(s, 0, n)
  <2>0. Len(s) # 0 /\ 0 \in 0 .. Len(s)
    BY <1>2, <1>4
  <2>1. Reached(v)' /\ Managing(v)'
    BY <1>1, <1>7, <2>0, HandlerAdds
  <2>2. v \in Seq(Node) /\ Len(v) = Len(s) + 1
    BY <1>2, <2>0, InsertedIs
  <2>3. \A x \in 0 + 2 .. Len(s) + 1 : v[x] = s[x - 1]
    BY <1>2, <2>0, InsertedIs
  <2>4. At(s, j + 1) = At(v, j + 2)
    <3>1. \A x \in Int : At(v, x) = IF x =< 0 THEN At(s, x)
                                    ELSE IF x = 0 + 1 THEN n ELSE At(s, x - 1)
      BY <1>2, <2>0, InsertedAt
    <3>2. j + 2 \in Int /\ ~(j + 2 =< 0) /\ j + 2 # 0 + 1 /\ (j + 2) - 1 = j + 1
      BY <1>4
    <3>3. QED BY <3>1, <3>2
  <2> HIDE DEF v
  <2>5. j + 2 \in 1 .. Len(v) + 1
    BY <1>2, <1>4, <2>2
  <2>6. \A x \in j + 2 .. Len(v) : \E y \in j + 1 .. Len(s) : v[x] = s[y]
    <3> SUFFICES ASSUME NEW x \in j + 2 .. Len(v)
                 PROVE  \E y \in j + 1 .. Len(s) : v[x] = s[y]
      OBVIOUS
    <3>1. x - 1 \in j + 1 .. Len(s) /\ x \in 0 + 2 .. Len(s) + 1
      BY <1>2, <1>4, <2>2
    <3>2. QED BY <2>3, <3>1
  <2>7. \A y \in j + 1 .. Len(s) : \E x \in j + 2 .. Len(v) : v[x] = s[y]
    <3> SUFFICES ASSUME NEW y \in j + 1 .. Len(s)
                 PROVE  \E x \in j + 2 .. Len(v) : v[x] = s[y]
      OBVIOUS
    <3>1. /\ y + 1 \in j + 2 .. Len(v) /\ y + 1 \in 0 + 2 .. Len(s) + 1
          /\ (y + 1) - 1 = y
      BY <1>2, <1>4, <2>2
    <3>2. QED BY <2>3, <3>1
  <2>8. Interrupt(v)'
    BY <1>1, <1>3, <1>4, <2>1, <2>2, <2>4, <2>5, <2>6, <2>7, Round
  <2>9. QED BY <2>1, <2>2, <2>8 DEF Held
<1>8. QED BY <1>1, <1>5, <1>6, <1>7 DEF Handler, MayManage

LEMMA IrqReturnHeld ==
  ASSUME NEW s, Held(s), IrqReturn
  PROVE  Held(s)'
<1>1. Reached(s)' /\ Managing(s)'
  BY DEF IrqReturn, Held, Reached, Managing, Settled, Searching, Absent,
         Unlinked, threadVars
<1>2. Interrupt(s)'
  BY DEF IrqReturn, Interrupt
<1>3. QED BY <1>1, <1>2 DEF Held

-----------------------------------------------------------------------------
\* Every step leaves the list what the thread and the interrupt think it is.
LEMMA CallbacksStep ==
  ASSUME CallbacksInv, [CallbackNext]_callbackVars, ~HandlersAnytime
  PROVE  CallbacksInv'
<1>1. PICK s \in Seq(Node) : Held(s)
  BY DEF CallbacksInv
<1> SUFFICES \E s2 \in Seq(Node) : Held(s2)'
  BY DEF CallbacksInv
<1>2. ASSUME NEW n \in Node, NEW e \in BOOLEAN, ManageCallback(n, e)
      PROVE  Held(s)'
  BY <1>1, <1>2, ManageCallbackHeld
<1>3. CASE IsEmpty \/ NotEmpty
  BY <1>1, <1>3, CheckHeld
<1>4. CASE FindFirst \/ FindNext
  BY <1>1, <1>4, FindHeld
<1>5. CASE NotFound
  BY <1>1, <1>5, NotFoundHeld
<1>6. CASE Unlink
  BY <1>1, <1>6, UnlinkHeld
<1>7. CASE TailSet
  BY <1>1, <1>7, TailSetHeld
<1>8. CASE ClearNext \/ LinkNext
  BY <1>1, <1>8, OwnNextHeld
<1>9. CASE HeadSet
  BY <1>1, <1>9, HeadSetHeld
<1>10. CASE Prepended
  BY <1>1, <1>10, PrependedHeld
<1>11. ASSUME NEW p \in SUBSET Node, IRQHandler(p)
       PROVE  Held(s)'
  BY <1>1, <1>11, IRQHandlerHeld
<1>12. CASE gpio_fire_callbacks
  BY <1>1, <1>12, FireHeld
<1>13. CASE IrqReturn
  BY <1>1, <1>13, IrqReturnHeld
<1>14. CASE UNCHANGED callbackVars
  <2>1. Reached(s)' /\ Managing(s)'
    BY <1>1, <1>14 DEF Held, Reached, Managing, Settled, Searching, Absent,
                       Unlinked, threadVars, callbackVars
  <2>2. Interrupt(s)'
    BY <1>1, <1>14 DEF Held, Interrupt, Calling, callbackVars, isrVars
  <2>3. QED BY <1>1, <2>1, <2>2 DEF Held
<1>15. QED
  BY <1>2, <1>3, <1>4, <1>5, <1>6, <1>7, <1>8, <1>9, <1>10, <1>11, <1>12, <1>13,
     <1>14 DEF CallbackNext, Thread

LEMMA CallbacksStart ==
  ASSUME CallbackInit
  PROVE  CallbacksInv
<1> DEFINE s == << >>
<1>1. s \in Seq(Node) /\ Len(s) = 0 /\ Elements(s) = {}
  BY DEF Elements
<1>2. \A i \in Int : At(s, i) = NULL
  BY <1>1 DEF At, OrEnd
<1>3. Reached(s)
  BY <1>1, <1>2 DEF CallbackInit, Reached, Holds, Distinct, Linked, Ptr
<1>4. Managing(s)
  BY <1>1, <1>2 DEF CallbackInit, Managing, Settled
<1>5. Interrupt(s)
  BY DEF CallbackInit, Interrupt
<1>6. QED BY <1>1, <1>3, <1>4, <1>5 DEF CallbacksInv, Held

LEMMA CallbacksKept ==
  ASSUME ~HandlersAnytime
  PROVE  CallbackSpec => []CallbacksInv
<1>1. CallbackInit => CallbacksInv
  BY CallbacksStart
<1>2. CallbacksInv /\ [CallbackNext]_callbackVars => CallbacksInv'
  BY CallbacksStep
<1>3. QED BY <1>1, <1>2, PTL DEF CallbackSpec

(***************************************************************************)
(* When the handlers change the list between the thread's calls only, an   *)
(* interrupt at any instruction of gpio_manage_callback calls the          *)
(* registered callbacks of its pins, but for the one being managed, and no *)
(* callback twice (gpio_utils.h:32-73).                                    *)
(***************************************************************************)
THEOREM CallbacksFiredOnce ==
  ASSUME ~HandlersAnytime
  PROVE  CallbackSpec => []FiredOnce
<1>1. CallbacksInv => FiredOnce
  <2> SUFFICES ASSUME NEW s, Held(s), ipc = "walk"
               PROVE  /\ \A n \in Node : fired[n] <= 1
                      /\ cb = NULL => \A n \in due : fired[n] = 1
    BY DEF CallbacksInv, FiredOnce
  <2>1. fired \in [Node -> 0 .. 1]
    BY DEF Held, Interrupt
  <2>2. /\ Len(s) \in Nat
        /\ \A i \in 1 .. Len(s) : s[i] # NULL
        /\ \A i \in Int : At(s, i) = IF i \in 1 .. Len(s) THEN s[i] ELSE NULL
    BY ReachedIs DEF Held
  <2>3. PICK j \in 1 .. Len(s) + 1 : Calling(s, j)
    BY DEF Held, Interrupt
  <2>4. cb = NULL => j = Len(s) + 1
    <3>1. cb = At(s, j)
      BY <2>3 DEF Calling
    <3>2. j # Len(s) + 1 => j \in 1 .. Len(s)
      BY <2>2
    <3>3. j \in 1 .. Len(s) => At(s, j) # NULL
      BY <2>2
    <3>4. QED BY <3>1, <3>2, <3>3
  <2>5. j = Len(s) + 1 => \A n \in due : fired[n] = 1
    BY <2>2, <2>3 DEF Calling
  <2>6. QED BY <2>1, <2>4, <2>5
<1>2. QED BY <1>1, CallbacksKept, PTL

(***************************************************************************)
(* And between calls the list holds the registered callbacks, each once,   *)
(* and ends at its tail (gpio_utils.h:32-52).                              *)
(***************************************************************************)
THEOREM CallbacksListed ==
  ASSUME ~HandlersAnytime
  PROVE  CallbackSpec => []RegisteredListed
<1>1. CallbacksInv => RegisteredListed
  <2> SUFFICES ASSUME NEW s, Held(s), pc = "run"
               PROVE  /\ Nodes(cbs) = registered
                      /\ Len(Walk(cbs)) = Cardinality(registered)
                      /\ cbs.tail = IF cbs.head = NULL THEN NULL
                                    ELSE Walk(cbs)[Len(Walk(cbs))]
    BY DEF CallbacksInv, RegisteredListed
  <2>1. /\ cbs.next \in [Node -> Ptr] /\ s \in Seq(Node) /\ Distinct(s)
        /\ cbs.head = At(s, 1) /\ Len(s) \in Nat
        /\ cbs.head = NULL <=> Len(s) = 0
        /\ \A i \in Int : At(s, i) = IF i \in 1 .. Len(s) THEN s[i] ELSE NULL
    BY ReachedIs DEF Held
  <2>2. Elements(s) = registered /\ cbs.tail = At(s, Len(s))
    BY DEF Held, Managing, Settled
  <2>3. Linked(s, cbs.next)
    BY DEF Held, Reached, Holds
  <2>4. Walk(cbs) = s
    BY <2>1, <2>3, WalkOfLinked
  <2>5. Nodes(cbs) = registered
    BY <2>2, <2>4 DEF Nodes, Elements
  <2>6. Len(s) = Cardinality(registered)
    BY <2>1, <2>2, DistinctElements
  <2>7. cbs.tail = IF cbs.head = NULL THEN NULL ELSE s[Len(s)]
    BY <2>1, <2>2
  <2>8. QED BY <2>4, <2>5, <2>6, <2>7
<1>2. QED BY <1>1, CallbacksKept, PTL
=============================================================================
